---------------------------- MODULE DriftAlerts ----------------------------
(***************************************************************************)
(* Drift events and their alerts, apps/api/internal/drift/: worker.go,     *)
(* alerts.go, webhook.go and repository.go.  Several calls of              *)
(* ProcessSnapshot run at the same time, each over its events and rules in *)
(* turn; a delivery is tried up to MaxAttempts times with pauses between,  *)
(* and the suppression of an alert is looked up before it and recorded     *)
(* after it.                                                               *)
(***************************************************************************)
EXTENDS Differ

CONSTANTS
  Call,         \* calls of ProcessSnapshot under way at the same time
  DaHost,
  Payload,      \* per snapshot, its values
  AssetClass,   \* per host, its class
  AlertRule,    \* rules, per identifier
  MaxAttempts,  \* d.maxRetries
  MaxSnapshots, \* bound: snapshots processed
  DaMaxTime     \* bound: the clock, in hours

ASSUME DriftAssumption ==
  /\ MaxAttempts \in Nat \ {0}
  /\ "" \notin DOMAIN Payload
  /\ "" \notin DOMAIN AlertRule
  /\ \A r \in DOMAIN AlertRule : AlertRule[r].window \in Int

VARIABLES
  daNow,        \* the clock
  latest,       \* per host, the snapshot the caller has, "" for none
  driftEvents,  \* r.events, per identifier
  suppressions, \* e.suppressions: per host and property the last alert
  deliveryLogs, \* r.deliveryLogs, per event and rule
  call,         \* the calls
  processed,    \* snapshots processed, for the bound
  verdicts      \* history: per event and rule what EvaluateRules decided, when

daVars == <<daNow, latest, driftEvents, suppressions, deliveryLogs, call,
            processed, verdicts>>

NoCall == [pc |-> "none"]

DaInit ==
  /\ daNow = 1
  /\ latest = [h \in DaHost |-> ""]
  /\ driftEvents = << >> /\ suppressions = << >> /\ deliveryLogs = << >>
  /\ call = [c \in Call |-> NoCall]
  /\ processed = 0 /\ verdicts = << >>

At(c, pc) == call[c].pc = pc
(* The windows are hours long: no hour ends between an answer and the step *)
(* that records it.                                                        *)
DaTick ==
  /\ daNow < DaMaxTime
  /\ \A c \in Call : ~At(c, "marking")
  /\ daNow' = daNow + 1
  /\ UNCHANGED <<latest, driftEvents, suppressions, deliveryLogs, call, processed, verdicts>>

-----------------------------------------------------------------------------
(* A difference becomes an event of its host. *)
Detected(h, change) ==
  [host |-> h, category |-> change.category, property |-> change.property,
   severity |-> change.severity, baseline |-> change.baseline, current |-> change.current]

(* ProcessSnapshot: the difference from the snapshot before, and           *)
(* SaveDriftEvents; with no event the call is over.                        *)
ProcessSnapshot(c, h, s) ==
  /\ call[c] = NoCall /\ processed < MaxSnapshots
  /\ LET found == IF latest[h] = "" THEN << >>
                  ELSE DiffSnapshots(Payload[latest[h]], Payload[s])
         first == Len(driftEvents) + 1
     IN /\ driftEvents' = driftEvents \o [i \in DOMAIN found |-> Detected(h, found[i])]
        /\ IF found = << >> THEN UNCHANGED call
           ELSE call' = [call EXCEPT ![c] =
                  [pc |-> "evaluating", event |-> first, last |-> first + Len(found) - 1,
                   cancelled |-> FALSE, rules |-> {}, rule |-> "", attempt |-> 0]]
  /\ latest' = [latest EXCEPT ![h] = s]
  /\ processed' = processed + 1
  /\ UNCHANGED <<daNow, suppressions, deliveryLogs, verdicts>>

KeyOf(event) == <<driftEvents[event].host, driftEvents[event].property>>

(* isSuppressed: an alert for the host and property, by whatever rule.     *)
isSuppressed(event, rule) ==
  /\ AlertRule[rule].window > 0
  /\ KeyOf(event) \in DOMAIN suppressions
  /\ daNow - suppressions[KeyOf(event)] < AlertRule[rule].window

(* The filters of a rule; an empty one admits everything.                  *)
RuleApplies(rule, event) ==
  LET r == AlertRule[rule]  e == driftEvents[event] IN
  /\ r.active
  /\ r.severity \in {"", e.severity}
  /\ r.assetClass \in {"", AssetClass[e.host]}
  /\ r.category \in {"", e.category}

(* EvaluateRules, over the rules of the tenant. *)
EvaluateRules(c) ==
  /\ At(c, "evaluating")
  /\ LET event == call[c].event
         applying == {r \in DOMAIN AlertRule : RuleApplies(r, event)}
         matched == {r \in applying : ~isSuppressed(event, r)}
     IN /\ call' = [call EXCEPT ![c].pc = "dispatching", ![c].rules = matched]
        /\ verdicts' = [k \in DOMAIN verdicts \cup ({event} \X applying) |->
                          IF k \in DOMAIN verdicts THEN verdicts[k]
                          ELSE [matched |-> k[2] \in matched, at |-> daNow]]
  /\ UNCHANGED <<daNow, latest, driftEvents, suppressions, deliveryLogs, processed>>

-----------------------------------------------------------------------------
(* Dispatch begins for the next of the matched rules, in any order. *)
DispatchBegins(c) ==
  /\ At(c, "dispatching") /\ call[c].rule = ""
  /\ \E r \in call[c].rules :
       call' = [call EXCEPT ![c].rule = r, ![c].rules = @ \ {r}, ![c].attempt = 1]
  /\ UNCHANGED <<daNow, latest, driftEvents, suppressions, deliveryLogs, processed, verdicts>>

(* SaveDeliveryLog. *)
Log(c, status) ==
  deliveryLogs' = Put(deliveryLogs, <<call[c].event, call[c].rule>>,
                      [status |-> status, attempts |-> call[c].attempt, at |-> daNow])

(* An answer of 2xx.  A request whose context was cancelled is not sent.   *)
DeliverySucceeds(c) ==
  /\ At(c, "dispatching") /\ call[c].rule # "" /\ ~call[c].cancelled
  /\ Log(c, "SUCCESS")
  /\ call' = [call EXCEPT ![c].pc = "marking"]
  /\ UNCHANGED <<daNow, latest, driftEvents, suppressions, processed, verdicts>>

(* Fault: the break on a cancelled context leaves the call. *)
LeavesOnCancel(c) ==
  IF call[c].cancelled
    THEN call' = [call EXCEPT ![c] = NoCall] /\ UNCHANGED deliveryLogs
  ELSE IF call[c].attempt < MaxAttempts
    THEN call' = [call EXCEPT ![c].attempt = @ + 1] /\ UNCHANGED deliveryLogs
  ELSE Log(c, "FAILED") /\ call' = [call EXCEPT ![c].rule = ""]

(* What follows an attempt that failed: a pause and the next one, cut      *)
(* short by a cancelled context but not left out; after the last, the log. *)
AfterFailure(c) ==
  IF call[c].attempt < MaxAttempts
    THEN call' = [call EXCEPT ![c].attempt = @ + 1] /\ UNCHANGED deliveryLogs
    ELSE Log(c, "FAILED") /\ call' = [call EXCEPT ![c].rule = ""]

DeliveryFails(c) ==
  /\ At(c, "dispatching") /\ call[c].rule # ""
  /\ AfterFailure(c)
  /\ UNCHANGED <<daNow, latest, driftEvents, suppressions, processed, verdicts>>

(* Fault: an alert is marked for its host, without the property. *)
MarkHost(c) ==
  suppressions' = Put(suppressions, <<driftEvents[call[c].event].host, "">>, daNow)

(* MarkAlertDispatched, after a success. *)
MarkAlertDispatched(c) ==
  suppressions' = Put(suppressions, KeyOf(call[c].event), daNow)

DeliveryIsMarked(c) ==
  /\ At(c, "marking")
  /\ MarkAlertDispatched(c)
  /\ call' = [call EXCEPT ![c].pc = "dispatching", ![c].rule = ""]
  /\ UNCHANGED <<daNow, latest, driftEvents, deliveryLogs, processed, verdicts>>

(* No rule is left: the next event, or the end of the call. *)
EventIsDone(c) ==
  /\ At(c, "dispatching") /\ call[c].rule = "" /\ call[c].rules = {}
  /\ IF call[c].event < call[c].last
       THEN call' = [call EXCEPT ![c].pc = "evaluating", ![c].event = @ + 1]
       ELSE call' = [call EXCEPT ![c] = NoCall]
  /\ UNCHANGED <<daNow, latest, driftEvents, suppressions, deliveryLogs, processed, verdicts>>

(* The caller gives up: its context is cancelled. *)
CallerCancels(c) ==
  /\ call[c] # NoCall /\ ~call[c].cancelled
  /\ call' = [call EXCEPT ![c].cancelled = TRUE]
  /\ UNCHANGED <<daNow, latest, driftEvents, suppressions, deliveryLogs, processed, verdicts>>

Alerting(c) ==
  \/ EvaluateRules(c) \/ DispatchBegins(c) \/ DeliverySucceeds(c) \/ DeliveryFails(c)
  \/ DeliveryIsMarked(c) \/ EventIsDone(c) \/ CallerCancels(c)

DaNext ==
  \/ DaTick
  \/ \E c \in Call :
       Alerting(c) \/ \E h \in DaHost, s \in DOMAIN Payload : ProcessSnapshot(c, h, s)

DaSpec == DaInit /\ [][DaNext]_daVars

-----------------------------------------------------------------------------
(* Fault: the oldest first. *)
QueryOldestFirst(h) ==
  Filtered(driftEvents, {i \in DOMAIN driftEvents : driftEvents[i].host = h})

(* QueryDriftEvents for one host, newest first (events are numbered in the *)
(* order they were detected).                                              *)
DetectedAfter(i, j) == i > j

QueryDriftEvents(h) ==
  LET ids == InOrder({i \in DOMAIN driftEvents : driftEvents[i].host = h}, DetectedAfter)
  IN [n \in DOMAIN ids |-> driftEvents[ids[n]]]

(* The drift log is up to date: whatever could not be read in between, the *)
(* newest event of a switch or a status tells its value in the latest      *)
(* snapshot of the host, and of two successive ones the later begins where *)
(* the earlier ended.                                                      *)
DriftLogIsCurrent ==
  \A h \in DaHost, p \in Switches \cup Statuses :
    LET log == QueryDriftEvents(h)
        about == Filtered(log, {i \in DOMAIN log : log[i].property = p}) IN
    /\ about # << >> => about[1].current = ValueOf(Payload[latest[h]], p)
    /\ \A i \in DOMAIN about : i > 1 => about[i].current = about[i - 1].baseline

(* Every match is logged: when no call is under way, each rule that        *)
(* matched an event has a delivery log, a failed one after MaxAttempts,    *)
(* although contexts were cancelled between any two steps.                 *)
EveryMatchIsLogged ==
  (\A c \in Call : call[c] = NoCall) =>
    \A k \in DOMAIN verdicts :
      /\ verdicts[k].matched <=> k \in DOMAIN deliveryLogs
      /\ verdicts[k].matched /\ deliveryLogs[k].status = "FAILED" =>
           deliveryLogs[k].attempts = MaxAttempts

(* Suppression is exact, with calls side by side: an alert is held back    *)
(* only if one for the same host and property was delivered within the     *)
(* rule's window, and then always, once the hour it was delivered in is    *)
(* over; a delivery that failed holds back nothing.                        *)
SuppressionIsExact ==
  \A k \in DOMAIN verdicts :
    LET heard == {l \in DOMAIN deliveryLogs :
                    /\ deliveryLogs[l].status = "SUCCESS"
                    /\ KeyOf(l[1]) = KeyOf(k[1])
                    /\ verdicts[k].at - deliveryLogs[l].at < AlertRule[k[2]].window}
    IN IF verdicts[k].matched
         THEN \A l \in heard : deliveryLogs[l].at >= verdicts[k].at
         ELSE \E l \in heard : deliveryLogs[l].at <= verdicts[k].at
=============================================================================
