-------------------------- MODULE DriftAlertsProofs --------------------------
(***************************************************************************)
(* Proofs about DriftAlerts, for any hosts, snapshots and alert rules, any *)
(* number of calls side by side and any number of attempts: every match is *)
(* logged, suppression is exact, and the drift log tells the present.      *)
(***************************************************************************)
EXTENDS DriftAlerts, CollectionsProofs

Rules == DOMAIN AlertRule

Fields == {"pc", "event", "last", "cancelled", "rules", "rule", "attempt"}

(* A call that is under way has events of its own, and rules of its event  *)
(* left.                                                                   *)
CallOK(t) ==
  /\ DOMAIN t = Fields
  /\ t.pc \in {"evaluating", "dispatching", "marking"}
  /\ t.event \in Nat \ {0} /\ t.last \in Nat
  /\ t.rules \in SUBSET Rules /\ t.rule \in Rules \cup {""} /\ t.attempt \in 0..MaxAttempts
  /\ t.event <= t.last /\ t.last <= Len(driftEvents)
  /\ t.pc = "evaluating" => t.rules = {} /\ t.rule = ""
  /\ t.pc = "marking" => t.rule # ""
  /\ t.rule # "" => t.rule \notin t.rules /\ t.attempt > 0

CallsOK ==
  /\ DOMAIN call = Call
  /\ \A c \in Call : call[c] = NoCall \/ CallOK(call[c])
  /\ \A c, d \in Call :
       c # d /\ call[c] # NoCall /\ call[d] # NoCall =>
         call[c].last < call[d].event \/ call[d].last < call[c].event


VerdictsOK ==
  /\ daNow \in Nat /\ IsList(driftEvents)
  /\ DOMAIN verdicts \in SUBSET ((1..Len(driftEvents)) \X Rules)
  /\ \A k \in DOMAIN verdicts : verdicts[k].at \in Nat /\ verdicts[k].at <= daNow

LogsOK ==
  /\ DOMAIN deliveryLogs \in SUBSET (DOMAIN verdicts)
  /\ \A k \in DOMAIN deliveryLogs :
       /\ deliveryLogs[k].status \in {"SUCCESS", "FAILED"}
       /\ deliveryLogs[k].at \in Nat /\ deliveryLogs[k].at <= daNow
       /\ verdicts[k].matched
       /\ deliveryLogs[k].status = "FAILED" => deliveryLogs[k].attempts = MaxAttempts

(* The events a call has still to evaluate. *)
Pending(t) == IF t.pc = "evaluating" THEN t.event..t.last ELSE (t.event + 1)..t.last

(* The matches a call has still to log. *)
Unlogged(t) ==
  {<<t.event, r>> : r \in t.rules \cup (IF t.pc = "dispatching" THEN {t.rule} \ {""} ELSE {})}

Active == {c \in Call : call[c] # NoCall}

(* What is evaluated, matched and not logged is in the hands of a call. *)
WorkOK ==
  /\ \A c \in Active :
       /\ \A k \in DOMAIN verdicts : k[1] \notin Pending(call[c])
       /\ \A k \in Unlogged(call[c]) :
            k \in DOMAIN verdicts /\ verdicts[k].matched /\ k \notin DOMAIN deliveryLogs
  /\ \A k \in DOMAIN verdicts :
       verdicts[k].matched /\ k \notin DOMAIN deliveryLogs =>
         \E c \in Active : k \in Unlogged(call[c])

Delivered == {l \in DOMAIN deliveryLogs : deliveryLogs[l].status = "SUCCESS"}

(* A suppression is the time of a delivery, and a delivery has led to a    *)
(* suppression no older, or is about to be recorded as one.                *)
SuppressionsOK ==
  /\ \A c \in Active : call[c].pc = "marking" =>
       LET l == <<call[c].event, call[c].rule>> IN
       l \in Delivered /\ deliveryLogs[l].at = daNow
  /\ \A key \in DOMAIN suppressions :
       \E l \in Delivered : KeyOf(l[1]) = key /\ deliveryLogs[l].at = suppressions[key]
  /\ \A l \in Delivered :
       \/ /\ KeyOf(l[1]) \in DOMAIN suppressions
          /\ suppressions[KeyOf(l[1])] >= deliveryLogs[l].at
       \/ /\ deliveryLogs[l].at = daNow
          /\ \E c \in Active :
               call[c].pc = "marking" /\ KeyOf(call[c].event) = KeyOf(l[1])

DaInv ==
  CallsOK /\ VerdictsOK /\ LogsOK /\ WorkOK /\ SuppressionsOK /\ SuppressionIsExact

-----------------------------------------------------------------------------
(* What the steps have in common *)

LEMMA SomeAttempts == MaxAttempts \in Nat /\ 1 <= MaxAttempts
<1>1. MaxAttempts \in Nat /\ MaxAttempts # 0
  BY DriftAssumption
<1> QED
  BY <1>1

LEMMA NoCallIsNone ==
  /\ NoCall.pc = "none"
  /\ \A t : CallOK(t) => t # NoCall
  /\ \A c, l : At(c, l) /\ l # "none" => call[c] # NoCall
<1>1. NoCall.pc = "none"
  BY DEF NoCall
<1>2. \A t : CallOK(t) => t.pc # "none"
  BY DEF CallOK
<1> QED
  BY <1>1, <1>2 DEF At

(* A call moves on with the events it has, or ends. *)
LEMMA CallsMove ==
  ASSUME CallsOK, NEW c \in Call, NEW t, call' = [call EXCEPT ![c] = t], call[c] # NoCall,
         driftEvents' = driftEvents,
         t = NoCall \/ (CallOK(t) /\ call[c].event <= t.event /\ t.last = call[c].last)
  PROVE  CallsOK'
<1>1. DOMAIN call' = Call /\ call'[c] = t /\ \A d \in Call : d # c => call'[d] = call[d]
  BY DEF CallsOK
<1>2. \A d \in Call : call'[d] = NoCall \/ CallOK(call'[d])
  BY <1>1 DEF CallsOK
<1>3. \A d, e \in Call :
        d # e /\ call'[d] # NoCall /\ call'[e] # NoCall =>
          call'[d].last < call'[e].event \/ call'[e].last < call'[d].event
  <2>1. \A d \in Call : call[d] # NoCall =>
          call[d].event \in Nat /\ call[d].last \in Nat
    BY DEF CallsOK, CallOK
  <2>2. t # NoCall => t.event \in Nat /\ t.last \in Nat
    BY DEF CallOK
  <2>3. \A d \in Call : d # c /\ call[d] # NoCall /\ t # NoCall =>
          t.last < call[d].event \/ call[d].last < t.event
    <3> TAKE d \in Call
    <3> HAVE d # c /\ call[d] # NoCall /\ t # NoCall
    <3>1. call[c].last < call[d].event \/ call[d].last < call[c].event
      BY DEF CallsOK
    <3> QED
      BY <2>1, <2>2, <3>1
  <2> QED
    BY <1>1, <2>3 DEF CallsOK
<1> QED
  BY <1>1, <1>2, <1>3 DEF CallsOK, CallOK

(* Two calls have no event in common. *)
LEMMA CallsAreApart ==
  ASSUME CallsOK, NEW c \in Active, NEW d \in Active, c # d
  PROVE  /\ call[c].event # call[d].event
         /\ call[c].event \notin Pending(call[d])
<1>1. /\ call[c].event \in Nat /\ call[c].last \in Nat /\ call[c].event <= call[c].last
      /\ call[d].event \in Nat /\ call[d].last \in Nat /\ call[d].event <= call[d].last
  BY DEF CallsOK, CallOK, Active
<1>2. call[c].last < call[d].event \/ call[d].last < call[c].event
  BY DEF CallsOK, Active
<1> QED
  BY <1>1, <1>2 DEF Pending

(* A call moves on and nothing is evaluated or logged. *)
LEMMA WorkStays ==
  ASSUME CallsOK, WorkOK, NEW c \in Call, NEW t, call' = [call EXCEPT ![c] = t],
         call[c] # NoCall, UNCHANGED <<verdicts, deliveryLogs>>,
         \/ t = NoCall /\ Unlogged(call[c]) = {}
         \/ /\ t # NoCall /\ Pending(t) \subseteq Pending(call[c])
            /\ Unlogged(t) = Unlogged(call[c])
  PROVE  WorkOK'
<1>1. /\ DOMAIN call = Call /\ call'[c] = t
      /\ \A d \in Call : d # c => call'[d] = call[d]
  BY DEF CallsOK
<1>2. Active' = IF t = NoCall THEN Active \ {c} ELSE Active
  BY <1>1 DEF Active
<1>3. \A d \in Active' : /\ d \in Active
                         /\ Pending(call'[d]) \subseteq Pending(call[d])
                         /\ Unlogged(call'[d]) = Unlogged(call[d])
  BY <1>1, <1>2 DEF Active
<1>4. \A d \in Active : d \in Active' \/ Unlogged(call[d]) = {}
  BY <1>1, <1>2
<1> QED
  BY <1>3, <1>4 DEF WorkOK

(* The current match of a call is logged. *)
LEMMA WorkIsLogged ==
  ASSUME CallsOK, WorkOK, NEW c \in Call, NEW t, call' = [call EXCEPT ![c] = t],
         call[c] # NoCall, t # NoCall, UNCHANGED verdicts,
         NEW k, k = <<call[c].event, call[c].rule>>, k \in Unlogged(call[c]),
         DOMAIN deliveryLogs' = DOMAIN deliveryLogs \cup {k},
         Pending(t) \subseteq Pending(call[c]), Unlogged(t) = Unlogged(call[c]) \ {k}
  PROVE  WorkOK'
<1>1. /\ DOMAIN call = Call /\ call'[c] = t
      /\ \A d \in Call : d # c => call'[d] = call[d]
  BY DEF CallsOK
<1>2. Active' = Active /\ c \in Active
  BY <1>1 DEF Active
<1>3. \A d \in Active : d # c => k \notin Unlogged(call[d])
  <2> SUFFICES ASSUME NEW d \in Active, d # c PROVE k \notin Unlogged(call[d])
    OBVIOUS
  <2>1. call[c].event # call[d].event
    BY <1>2, CallsAreApart
  <2>2. \A l \in Unlogged(call[d]) : l[1] = call[d].event
    <3> TAKE l \in Unlogged(call[d])
    <3>1. PICK r : l = <<call[d].event, r>>
      BY DEF Unlogged
    <3> QED
      BY <3>1
  <2> QED
    BY <2>1, <2>2
<1>4. \A d \in Active : /\ Pending(call'[d]) \subseteq Pending(call[d])
                        /\ Unlogged(call'[d]) = Unlogged(call[d]) \ {k}
  BY <1>1, <1>3 DEF Active
<1> QED
  BY <1>2, <1>4 DEF WorkOK

(* A call that is not recording a suppression, before or after. *)
LEMMA SuppressionsStay ==
  ASSUME CallsOK, SuppressionsOK, NEW c \in Call, NEW t, call' = [call EXCEPT ![c] = t],
         UNCHANGED <<daNow, driftEvents, suppressions>>, Delivered' = Delivered,
         \A l \in Delivered : deliveryLogs'[l].at = deliveryLogs[l].at,
         \/ call[c].pc # "marking" /\ (t = NoCall \/ t.pc # "marking")
         \/ /\ call[c].pc = t.pc /\ call[c].event = t.event /\ call[c].rule = t.rule
            /\ call[c] # NoCall /\ t # NoCall
  PROVE  SuppressionsOK'
<1>1. /\ DOMAIN call = Call /\ call'[c] = t
      /\ \A d \in Call : d # c => call'[d] = call[d]
  BY DEF CallsOK
<1> DEFINE marking == {d \in Active : call[d].pc = "marking"}
<1>2. /\ \A d : (d \in Active /\ call[d].pc = "marking") <=>
                (d \in Active' /\ call'[d].pc = "marking")
      /\ \A d \in Active : call[d].pc = "marking" =>
           call'[d].event = call[d].event /\ call'[d].rule = call[d].rule
  BY <1>1, NoCallIsNone DEF Active
<1>3. \A e : KeyOf(e)' = KeyOf(e)
  BY DEF KeyOf
<1>4. \A d \in Active : call[d].pc = "marking" =>
        LET l == <<call'[d].event, call'[d].rule>> IN l \in Delivered /\ deliveryLogs'[l].at = daNow
  BY <1>2 DEF SuppressionsOK
<1>5. \A key \in DOMAIN suppressions :
        \E l \in Delivered : KeyOf(l[1]) = key /\ deliveryLogs'[l].at = suppressions[key]
  BY DEF SuppressionsOK
<1>6. \A l \in Delivered :
       \/ /\ KeyOf(l[1]) \in DOMAIN suppressions
          /\ suppressions[KeyOf(l[1])] >= deliveryLogs'[l].at
       \/ /\ deliveryLogs'[l].at = daNow
          /\ \E d \in Active :
               call[d].pc = "marking" /\ KeyOf(call'[d].event) = KeyOf(l[1])
  BY <1>2 DEF SuppressionsOK
<1> QED
  BY <1>2, <1>3, <1>4, <1>5, <1>6 DEF SuppressionsOK

-----------------------------------------------------------------------------
(* Steps of a call in which nothing is evaluated, logged or suppressed *)

Untouched == UNCHANGED <<daNow, driftEvents, suppressions, deliveryLogs, verdicts>>

LEMMA QuietStep ==
  ASSUME DaInv, NEW c \in Call, NEW t, call' = [call EXCEPT ![c] = t], call[c] # NoCall,
         Untouched,
         t = NoCall \/ (CallOK(t) /\ call[c].event <= t.event /\ t.last = call[c].last),
         \/ t = NoCall /\ Unlogged(call[c]) = {}
         \/ /\ t # NoCall /\ Pending(t) \subseteq Pending(call[c])
            /\ Unlogged(t) = Unlogged(call[c]),
         \/ call[c].pc # "marking" /\ (t = NoCall \/ t.pc # "marking")
         \/ /\ call[c].pc = t.pc /\ call[c].event = t.event /\ call[c].rule = t.rule
            /\ call[c] # NoCall /\ t # NoCall
  PROVE  DaInv'
<1>1. CallsOK /\ VerdictsOK /\ LogsOK /\ WorkOK /\ SuppressionsOK /\ SuppressionIsExact
  BY DEF DaInv
<1>2. /\ daNow' = daNow /\ driftEvents' = driftEvents /\ verdicts' = verdicts
      /\ deliveryLogs' = deliveryLogs /\ suppressions' = suppressions
  BY DEF Untouched
<1>3. CallsOK'
  BY <1>1, <1>2, CallsMove
<1>4. WorkOK'
  BY <1>1, <1>2, WorkStays
<1>5. SuppressionsOK'
  <2>1. Delivered' = Delivered
    BY <1>2 DEF Delivered
  <2> QED
    BY <1>1, <1>2, <2>1, SuppressionsStay
<1>6. VerdictsOK' /\ LogsOK'
  BY <1>1, <1>2 DEF VerdictsOK, LogsOK
<1>7. SuppressionIsExact'
  BY <1>1, <1>2 DEF SuppressionIsExact, KeyOf
<1> QED
  BY <1>3, <1>4, <1>5, <1>6, <1>7 DEF DaInv

(* What is known of a call that is under way. *)
LEMMA ActiveIsOK ==
  ASSUME DaInv, NEW c \in Call, call[c] # NoCall
  PROVE  /\ CallOK(call[c]) /\ DOMAIN call = Call /\ c \in Active
         /\ call[c].event \in Nat \ {0} /\ call[c].last \in Nat
         /\ call[c].event <= call[c].last
<1>1. CallOK(call[c]) /\ DOMAIN call = Call /\ c \in Active
  BY DEF DaInv, CallsOK, Active
<1> QED
  BY <1>1 DEF CallOK

LEMMA DispatchStep ==
  ASSUME DaInv, NEW c \in Call, DispatchBegins(c) PROVE DaInv'
<1>1. /\ call[c].pc = "dispatching" /\ call[c].rule = "" /\ call[c] # NoCall /\ Untouched
      /\ \E r \in call[c].rules :
           call' = [call EXCEPT ![c].rule = r, ![c].rules = @ \ {r}, ![c].attempt = 1]
  BY NoCallIsNone DEF DispatchBegins, At, Untouched
<1>2. /\ CallOK(call[c]) /\ DOMAIN call = Call
      /\ call[c].event \in Nat \ {0} /\ call[c].last \in Nat
  BY <1>1, ActiveIsOK
<1>3. PICK r \in call[c].rules :
        call' = [call EXCEPT ![c].rule = r, ![c].rules = @ \ {r}, ![c].attempt = 1]
  BY <1>1
<1>4. r \in Rules /\ r # ""
  BY <1>2, DriftAssumption DEF Rules, CallOK
<1>5. PICK t : t = [call[c] EXCEPT !.rule = r, !.rules = @ \ {r}, !.attempt = 1]
  OBVIOUS
<1>6. call' = [call EXCEPT ![c] = t]
  BY <1>2, <1>3, <1>5
<1>7. /\ DOMAIN t = Fields /\ t.pc = call[c].pc /\ t.event = call[c].event
      /\ t.last = call[c].last /\ t.rules = call[c].rules \ {r} /\ t.rule = r /\ t.attempt = 1
  BY <1>2, <1>5 DEF Fields, CallOK
<1>8. CallOK(t) /\ t # NoCall
  <2>1. t.attempt \in 0..MaxAttempts /\ t.attempt > 0 /\ t.rule \notin t.rules
    <3>1. 1 \in 0..MaxAttempts
      BY SomeAttempts
    <3>2. r \notin call[c].rules \ {r}
      OBVIOUS
    <3> QED
      BY <1>7, <3>1, <3>2
  <2>2. t.rules \in SUBSET Rules /\ t.rule \in Rules \cup {""}
    BY <1>2, <1>4, <1>7 DEF CallOK
  <2>3. /\ t.event \in Nat \ {0} /\ t.last \in Nat
        /\ t.event <= t.last /\ t.last <= Len(driftEvents)
    BY <1>2, <1>7 DEF CallOK
  <2>4. CallOK(t)
    BY <1>1, <1>7, <2>1, <2>2, <2>3 DEF CallOK
  <2> QED
    BY <2>4, NoCallIsNone
<1>9. Pending(t) = Pending(call[c]) /\ Unlogged(t) = Unlogged(call[c])
  <2>1. (call[c].rules \ {r}) \cup ({r} \ {""}) = call[c].rules
    BY <1>4
  <2>2. call[c].rules \cup ({""} \ {""}) = call[c].rules
    OBVIOUS
  <2>3. Pending(t) = Pending(call[c])
    BY <1>1, <1>7 DEF Pending
  <2>4. Unlogged(t) = {<<call[c].event, q>> : q \in call[c].rules}
    BY <1>1, <1>7, <2>1 DEF Unlogged
  <2>5. Unlogged(call[c]) = {<<call[c].event, q>> : q \in call[c].rules}
    BY <1>1, <2>2 DEF Unlogged
  <2> QED
    BY <2>3, <2>4, <2>5
<1> QED
  <2>1. call[c].event <= t.event
    BY <1>2, <1>7
  <2> QED
    BY <1>1, <1>6, <1>7, <1>8, <1>9, <2>1, QuietStep

LEMMA CancelStep ==
  ASSUME DaInv, NEW c \in Call, CallerCancels(c) PROVE DaInv'
<1>1. call[c] # NoCall /\ Untouched /\ call' = [call EXCEPT ![c].cancelled = TRUE]
  BY DEF CallerCancels, Untouched
<1>2. /\ CallOK(call[c]) /\ DOMAIN call = Call
      /\ call[c].event \in Nat \ {0} /\ call[c].last \in Nat
  BY <1>1, ActiveIsOK
<1>3. PICK t : t = [call[c] EXCEPT !.cancelled = TRUE]
  OBVIOUS
<1>4. call' = [call EXCEPT ![c] = t]
  BY <1>1, <1>2, <1>3
<1>5. /\ DOMAIN t = Fields /\ t.pc = call[c].pc /\ t.event = call[c].event
      /\ t.last = call[c].last /\ t.rules = call[c].rules /\ t.rule = call[c].rule
      /\ t.attempt = call[c].attempt
  BY <1>2, <1>3 DEF Fields, CallOK
<1>6. CallOK(t) /\ t # NoCall
  BY <1>2, <1>5, NoCallIsNone DEF CallOK
<1>7. Pending(t) = Pending(call[c]) /\ Unlogged(t) = Unlogged(call[c])
  BY <1>5 DEF Pending, Unlogged
<1>8. call[c].event <= t.event
  BY <1>2, <1>5
<1> QED
  BY <1>1, <1>4, <1>5, <1>6, <1>7, <1>8, QuietStep

(* The next event, or the end of the call. *)
LEMMA DoneStep ==
  ASSUME DaInv, NEW c \in Call, EventIsDone(c) PROVE DaInv'
<1>1. /\ call[c].pc = "dispatching" /\ call[c].rule = "" /\ call[c].rules = {}
      /\ call[c] # NoCall /\ Untouched
  BY NoCallIsNone DEF EventIsDone, At, Untouched
<1>2. /\ CallOK(call[c]) /\ DOMAIN call = Call
      /\ call[c].event \in Nat \ {0} /\ call[c].last \in Nat
  BY <1>1, ActiveIsOK
<1>3. Unlogged(call[c]) = {}
  <2>1. call[c].rules \cup ({call[c].rule} \ {""}) = {}
    BY <1>1
  <2> QED
    BY <1>1, <2>1 DEF Unlogged
<1>4. CASE ~(call[c].event < call[c].last)
  <2>1. call' = [call EXCEPT ![c] = NoCall]
    BY <1>4 DEF EventIsDone
  <2> QED
    BY <1>1, <1>3, <2>1, QuietStep
<1>5. CASE call[c].event < call[c].last
  <2>1. call' = [call EXCEPT ![c].pc = "evaluating", ![c].event = @ + 1]
    BY <1>5 DEF EventIsDone
  <2>2. PICK t : t = [call[c] EXCEPT !.pc = "evaluating", !.event = @ + 1]
    OBVIOUS
  <2>3. call' = [call EXCEPT ![c] = t]
    BY <1>2, <2>1, <2>2
  <2>4. /\ DOMAIN t = Fields /\ t.pc = "evaluating" /\ t.event = call[c].event + 1
        /\ t.last = call[c].last /\ t.rules = call[c].rules /\ t.rule = call[c].rule
        /\ t.attempt = call[c].attempt
    BY <1>2, <2>2 DEF Fields, CallOK
  <2>5. CallOK(t) /\ t # NoCall
    <3>1. /\ t.event \in Nat \ {0} /\ t.last \in Nat /\ t.event <= t.last
      BY <1>2, <1>5, <2>4
    <3>2. /\ t.last <= Len(driftEvents) /\ t.rules = {} /\ t.rule = ""
          /\ t.attempt \in 0..MaxAttempts
      BY <1>1, <1>2, <2>4 DEF CallOK
    <3>3. CallOK(t)
      BY <2>4, <3>1, <3>2 DEF CallOK
    <3> QED
      BY <3>3, NoCallIsNone
  <2>6. Pending(t) = Pending(call[c])
    BY <1>1, <2>4 DEF Pending
  <2>7. Unlogged(t) = {}
    <3>1. t.rules \cup {} = {}
      BY <1>1, <2>4
    <3> QED
      BY <2>4, <3>1 DEF Unlogged
  <2>8. call[c].event <= t.event
    BY <1>2, <2>4
  <2> QED
    BY <1>1, <1>3, <2>3, <2>4, <2>5, <2>6, <2>7, <2>8, QuietStep
<1> QED
  BY <1>4, <1>5

(* Another attempt. *)
LEMMA RetryStep ==
  ASSUME DaInv, NEW c \in Call, DeliveryFails(c), call[c].attempt < MaxAttempts
  PROVE  DaInv'
<1>1. /\ call[c].pc = "dispatching" /\ call[c].rule # "" /\ call[c] # NoCall /\ Untouched
      /\ call' = [call EXCEPT ![c].attempt = @ + 1]
  BY NoCallIsNone DEF DeliveryFails, AfterFailure, At, Untouched
<1>2. /\ CallOK(call[c]) /\ DOMAIN call = Call
      /\ call[c].event \in Nat \ {0} /\ call[c].last \in Nat
  BY <1>1, ActiveIsOK
<1>3. PICK t : t = [call[c] EXCEPT !.attempt = @ + 1]
  OBVIOUS
<1>4. call' = [call EXCEPT ![c] = t]
  BY <1>1, <1>2, <1>3
<1>5. /\ DOMAIN t = Fields /\ t.pc = call[c].pc /\ t.event = call[c].event
      /\ t.last = call[c].last /\ t.rules = call[c].rules /\ t.rule = call[c].rule
      /\ t.attempt = call[c].attempt + 1
  BY <1>2, <1>3 DEF Fields, CallOK
<1>6. CallOK(t) /\ t # NoCall
  <2>1. t.attempt \in 0..MaxAttempts /\ t.attempt > 0
    <3>1. call[c].attempt \in 0..MaxAttempts
      BY <1>2 DEF CallOK
    <3> QED
      BY <1>5, <3>1, SomeAttempts
  <2>2. CallOK(t)
    BY <1>2, <1>5, <2>1 DEF CallOK
  <2> QED
    BY <2>2, NoCallIsNone
<1>7. Pending(t) = Pending(call[c]) /\ Unlogged(t) = Unlogged(call[c])
  BY <1>5 DEF Pending, Unlogged
<1>8. call[c].event <= t.event
  BY <1>2, <1>5
<1> QED
  BY <1>1, <1>4, <1>5, <1>6, <1>7, <1>8, QuietStep

-----------------------------------------------------------------------------
(* Steps that log a delivery *)

(* The match a call works on has no log yet. *)
LEMMA MatchIsOpen ==
  ASSUME DaInv, NEW c \in Call, call[c] # NoCall, call[c].pc = "dispatching",
         call[c].rule # "", NEW k, k = <<call[c].event, call[c].rule>>
  PROVE  /\ k \in Unlogged(call[c]) /\ k \in DOMAIN verdicts
         /\ verdicts[k].matched /\ k \notin DOMAIN deliveryLogs
         /\ call[c].event \in 1..Len(driftEvents) /\ call[c].rule \in Rules
         /\ Unlogged(call[c]) \ {k} = {<<call[c].event, q>> : q \in call[c].rules}
<1>1. /\ CallOK(call[c]) /\ c \in Active
  BY ActiveIsOK
<1>2. call[c].rule \notin call[c].rules /\ call[c].rule \in Rules
  BY <1>1 DEF CallOK
<1>3. Unlogged(call[c]) = {<<call[c].event, q>> : q \in call[c].rules \cup {call[c].rule}}
  <2>1. {call[c].rule} \ {""} = {call[c].rule}
    OBVIOUS
  <2> QED
    BY <2>1 DEF Unlogged
<1>4. k \in Unlogged(call[c])
  BY <1>3
<1>5. Unlogged(call[c]) \ {k} = {<<call[c].event, q>> : q \in call[c].rules}
  <2>1. \A q \in call[c].rules : <<call[c].event, q>> # k
    BY <1>2
  <2> QED
    BY <1>3, <2>1
<1>6. k \in DOMAIN verdicts /\ verdicts[k].matched /\ k \notin DOMAIN deliveryLogs
  BY <1>1, <1>4 DEF DaInv, WorkOK
<1>7. call[c].event \in 1..Len(driftEvents)
  BY <1>6 DEF DaInv, VerdictsOK
<1> QED
  BY <1>2, <1>4, <1>5, <1>6, <1>7

(* A log that is new, written now, leaves the others as they are. *)
LEMMA LogIsAdded ==
  ASSUME DaInv, NEW c \in Call, NEW status, Log(c, status),
         NEW k, k = <<call[c].event, call[c].rule>>, k \notin DOMAIN deliveryLogs
  PROVE  /\ DOMAIN deliveryLogs' = DOMAIN deliveryLogs \cup {k}
         /\ deliveryLogs'[k].status = status /\ deliveryLogs'[k].at = daNow
         /\ deliveryLogs'[k].attempts = call[c].attempt
         /\ \A l \in DOMAIN deliveryLogs : l # k /\ deliveryLogs'[l] = deliveryLogs[l]
<1> DEFINE new == [status |-> status, attempts |-> call[c].attempt, at |-> daNow]
<1>1. deliveryLogs' = Put(deliveryLogs, k, new)
  BY DEF Log
<1>2. new.status = status /\ new.attempts = call[c].attempt /\ new.at = daNow
  OBVIOUS
<1> HIDE DEF new
<1> QED
  BY <1>1, <1>2 DEF Put

(* Logs and verdicts after such a step. *)
LEMMA LogsGrow ==
  ASSUME DaInv, NEW k \in DOMAIN verdicts, verdicts[k].matched, k \notin DOMAIN deliveryLogs,
         UNCHANGED <<daNow, driftEvents, verdicts>>,
         DOMAIN deliveryLogs' = DOMAIN deliveryLogs \cup {k},
         deliveryLogs'[k].status \in {"SUCCESS", "FAILED"}, deliveryLogs'[k].at = daNow,
         deliveryLogs'[k].status = "FAILED" => deliveryLogs'[k].attempts = MaxAttempts,
         \A l \in DOMAIN deliveryLogs : l # k /\ deliveryLogs'[l] = deliveryLogs[l]
  PROVE  VerdictsOK' /\ LogsOK' /\ SuppressionIsExact'
<1>1. VerdictsOK /\ LogsOK /\ SuppressionIsExact
  BY DEF DaInv
<1>2. daNow \in Nat /\ \A l \in DOMAIN verdicts : verdicts[l].at \in Nat /\ verdicts[l].at <= daNow
  BY <1>1 DEF VerdictsOK
<1>3. VerdictsOK'
  BY <1>1 DEF VerdictsOK
<1>4. LogsOK'
  BY <1>1, <1>2 DEF LogsOK
<1>5. \A e : KeyOf(e)' = KeyOf(e)
  BY DEF KeyOf
<1>6. SuppressionIsExact'
  <2> SUFFICES ASSUME NEW v \in DOMAIN verdicts
               PROVE  LET heard == {l \in DOMAIN deliveryLogs' :
                            /\ deliveryLogs'[l].status = "SUCCESS"
                            /\ KeyOf(l[1]) = KeyOf(v[1])
                            /\ verdicts[v].at - deliveryLogs'[l].at < AlertRule[v[2]].window}
                      IN IF verdicts[v].matched
                           THEN \A l \in heard : deliveryLogs'[l].at >= verdicts[v].at
                           ELSE \E l \in heard : deliveryLogs'[l].at <= verdicts[v].at
    BY <1>5 DEF SuppressionIsExact
  <2>1. LET heard == {l \in DOMAIN deliveryLogs :
                  /\ deliveryLogs[l].status = "SUCCESS"
                  /\ KeyOf(l[1]) = KeyOf(v[1])
                  /\ verdicts[v].at - deliveryLogs[l].at < AlertRule[v[2]].window}
        IN IF verdicts[v].matched
             THEN \A l \in heard : deliveryLogs[l].at >= verdicts[v].at
             ELSE \E l \in heard : deliveryLogs[l].at <= verdicts[v].at
    BY <1>1 DEF SuppressionIsExact
  <2>2. daNow >= verdicts[v].at
    BY <1>2
  <2>3. CASE verdicts[v].matched
    BY <2>1, <2>2, <2>3
  <2>4. CASE ~verdicts[v].matched
    BY <2>1, <2>4
  <2> QED
    BY <2>3, <2>4
<1> QED
  BY <1>3, <1>4, <1>6

(* The last attempt fails. *)
LEMMA FailureStep ==
  ASSUME DaInv, NEW c \in Call, DeliveryFails(c), ~(call[c].attempt < MaxAttempts)
  PROVE  DaInv'
<1>1. /\ call[c].pc = "dispatching" /\ call[c].rule # "" /\ call[c] # NoCall
      /\ UNCHANGED <<daNow, driftEvents, suppressions, verdicts>>
      /\ Log(c, "FAILED") /\ call' = [call EXCEPT ![c].rule = ""]
  BY NoCallIsNone DEF DeliveryFails, AfterFailure, At
<1>2. /\ CallOK(call[c]) /\ DOMAIN call = Call
      /\ call[c].event \in Nat \ {0} /\ call[c].last \in Nat
  BY <1>1, ActiveIsOK
<1>3. PICK t : t = [call[c] EXCEPT !.rule = ""]
  OBVIOUS
<1>4. call' = [call EXCEPT ![c] = t]
  BY <1>1, <1>2, <1>3
<1>5. /\ DOMAIN t = Fields /\ t.pc = call[c].pc /\ t.event = call[c].event
      /\ t.last = call[c].last /\ t.rules = call[c].rules /\ t.rule = ""
      /\ t.attempt = call[c].attempt
  BY <1>2, <1>3 DEF Fields, CallOK
<1>6. CallOK(t) /\ t # NoCall
  <2>1. CallOK(t)
    BY <1>1, <1>2, <1>5 DEF CallOK
  <2> QED
    BY <2>1, NoCallIsNone
<1>7. PICK k : k = <<call[c].event, call[c].rule>>
  OBVIOUS
<1>8. /\ k \in Unlogged(call[c]) /\ k \in DOMAIN verdicts
      /\ verdicts[k].matched /\ k \notin DOMAIN deliveryLogs
      /\ Unlogged(call[c]) \ {k} = {<<call[c].event, q>> : q \in call[c].rules}
  BY <1>1, <1>7, MatchIsOpen
<1>9. /\ DOMAIN deliveryLogs' = DOMAIN deliveryLogs \cup {k}
      /\ deliveryLogs'[k].status = "FAILED" /\ deliveryLogs'[k].at = daNow
      /\ deliveryLogs'[k].attempts = call[c].attempt
      /\ \A l \in DOMAIN deliveryLogs : l # k /\ deliveryLogs'[l] = deliveryLogs[l]
  <2>1. Log(c, "FAILED") /\ k = <<call[c].event, call[c].rule>> /\ k \notin DOMAIN deliveryLogs
    BY <1>1, <1>7, <1>8
  <2> QED
    BY <2>1, LogIsAdded
<1>10. call[c].attempt = MaxAttempts
  <2>1. call[c].attempt \in 0..MaxAttempts
    BY <1>2 DEF CallOK
  <2> QED
    BY <2>1, SomeAttempts
<1>11. VerdictsOK' /\ LogsOK' /\ SuppressionIsExact'
  BY <1>1, <1>8, <1>9, <1>10, LogsGrow
<1>12. CallsOK'
  <2>1. call[c].event <= t.event
    <3>1. t.event = call[c].event /\ call[c].event \in Nat
      BY <1>2, <1>5
    <3> QED
      BY <3>1
  <2> QED
    BY <1>1, <1>4, <1>5, <1>6, <2>1, CallsMove DEF DaInv
<1>13. WorkOK'
  <2>1. Unlogged(t) = Unlogged(call[c]) \ {k}
    <3>1. t.rules \cup ({""} \ {""}) = call[c].rules
      BY <1>5
    <3>2. Unlogged(t) = {<<call[c].event, q>> : q \in call[c].rules}
      BY <1>1, <1>5, <3>1 DEF Unlogged
    <3> QED
      BY <1>8, <3>2
  <2>2. Pending(t) = Pending(call[c])
    BY <1>5 DEF Pending
  <2> QED
    BY <1>1, <1>4, <1>6, <1>7, <1>8, <1>9, <2>1, <2>2, WorkIsLogged DEF DaInv
<1>14. SuppressionsOK'
  <2>1. Delivered' = Delivered
    BY <1>9 DEF Delivered
  <2>2. \A l \in Delivered : deliveryLogs'[l].at = deliveryLogs[l].at
    BY <1>9 DEF Delivered
  <2>3. call[c].pc # "marking" /\ t.pc # "marking"
    BY <1>1, <1>5
  <2> QED
    BY <1>1, <1>4, <2>1, <2>2, <2>3, SuppressionsStay DEF DaInv
<1> QED
  BY <1>11, <1>12, <1>13, <1>14 DEF DaInv

LEMMA SuccessStep ==
  ASSUME DaInv, NEW c \in Call, DeliverySucceeds(c) PROVE DaInv'
<1>1. /\ call[c].pc = "dispatching" /\ call[c].rule # "" /\ call[c] # NoCall
      /\ UNCHANGED <<daNow, driftEvents, suppressions, verdicts>>
      /\ Log(c, "SUCCESS") /\ call' = [call EXCEPT ![c].pc = "marking"]
  BY NoCallIsNone DEF DeliverySucceeds, At
<1>2. /\ CallOK(call[c]) /\ DOMAIN call = Call /\ c \in Active
      /\ call[c].event \in Nat \ {0} /\ call[c].last \in Nat
  BY <1>1, ActiveIsOK
<1>3. PICK t : t = [call[c] EXCEPT !.pc = "marking"]
  OBVIOUS
<1>4. call' = [call EXCEPT ![c] = t]
  BY <1>1, <1>2, <1>3
<1>5. /\ DOMAIN t = Fields /\ t.pc = "marking" /\ t.event = call[c].event
      /\ t.last = call[c].last /\ t.rules = call[c].rules /\ t.rule = call[c].rule
      /\ t.attempt = call[c].attempt
  BY <1>2, <1>3 DEF Fields, CallOK
<1>6. CallOK(t) /\ t # NoCall
  <2>1. CallOK(t)
    BY <1>1, <1>2, <1>5 DEF CallOK
  <2> QED
    BY <2>1, NoCallIsNone
<1>7. PICK k : k = <<call[c].event, call[c].rule>>
  OBVIOUS
<1>8. /\ k \in Unlogged(call[c]) /\ k \in DOMAIN verdicts
      /\ verdicts[k].matched /\ k \notin DOMAIN deliveryLogs
      /\ Unlogged(call[c]) \ {k} = {<<call[c].event, q>> : q \in call[c].rules}
  BY <1>1, <1>7, MatchIsOpen
<1>9. /\ DOMAIN deliveryLogs' = DOMAIN deliveryLogs \cup {k}
      /\ deliveryLogs'[k].status = "SUCCESS" /\ deliveryLogs'[k].at = daNow
      /\ \A l \in DOMAIN deliveryLogs : l # k /\ deliveryLogs'[l] = deliveryLogs[l]
  <2>1. Log(c, "SUCCESS") /\ k = <<call[c].event, call[c].rule>> /\ k \notin DOMAIN deliveryLogs
    BY <1>1, <1>7, <1>8
  <2> QED
    BY <2>1, LogIsAdded
<1>11. VerdictsOK' /\ LogsOK' /\ SuppressionIsExact'
  <2>1. deliveryLogs'[k].status # "FAILED"
    BY <1>9
  <2> QED
    BY <1>1, <1>8, <1>9, <2>1, LogsGrow
<1>12. CallsOK'
  <2>1. call[c].event <= t.event
    <3>1. t.event = call[c].event /\ call[c].event \in Nat
      BY <1>2, <1>5
    <3> QED
      BY <3>1
  <2> QED
    BY <1>1, <1>4, <1>5, <1>6, <2>1, CallsMove DEF DaInv
<1>13. WorkOK'
  <2>1. Unlogged(t) = Unlogged(call[c]) \ {k}
    <3>1. t.rules \cup {} = call[c].rules
      BY <1>5
    <3>2. Unlogged(t) = {<<call[c].event, q>> : q \in call[c].rules}
      BY <1>5, <3>1 DEF Unlogged
    <3> QED
      BY <1>8, <3>2
  <2>2. Pending(t) = Pending(call[c])
    BY <1>1, <1>5 DEF Pending
  <2> QED
    BY <1>1, <1>4, <1>6, <1>7, <1>8, <1>9, <2>1, <2>2, WorkIsLogged DEF DaInv
<1>14. SuppressionsOK'
  <2>1. Delivered' = Delivered \cup {k}
    BY <1>9 DEF Delivered
  <2>2. \A l \in Delivered : l # k /\ deliveryLogs'[l].at = deliveryLogs[l].at
    BY <1>9 DEF Delivered
  <2>3. /\ call'[c] = t /\ \A d \in Call : d # c => call'[d] = call[d]
    BY <1>2, <1>4
  <2>4. Active' = Active
    BY <1>1, <1>6, <2>3 DEF Active
  <2>5. \A e : KeyOf(e)' = KeyOf(e)
    BY <1>1 DEF KeyOf
  <2>6. \A d \in Active : call'[d].pc = "marking" =>
          LET l == <<call'[d].event, call'[d].rule>> IN
          l \in Delivered' /\ deliveryLogs'[l].at = daNow
    <3> SUFFICES ASSUME NEW d \in Active, call'[d].pc = "marking"
                 PROVE  LET l == <<call'[d].event, call'[d].rule>> IN
                        l \in Delivered' /\ deliveryLogs'[l].at = daNow
      OBVIOUS
    <3>1. CASE d = c
      BY <1>5, <1>7, <1>9, <2>1, <2>3, <3>1
    <3>2. CASE d # c
      <4>1. call'[d] = call[d]
        BY <2>3, <3>2 DEF Active
      <4> QED
        BY <2>1, <2>2, <4>1 DEF DaInv, SuppressionsOK
    <3> QED
      BY <3>1, <3>2
  <2>7. \A key \in DOMAIN suppressions :
          \E l \in Delivered' : KeyOf(l[1]) = key /\ deliveryLogs'[l].at = suppressions[key]
    BY <2>1, <2>2 DEF DaInv, SuppressionsOK
  <2>8. \A l \in Delivered' :
         \/ /\ KeyOf(l[1]) \in DOMAIN suppressions
            /\ suppressions[KeyOf(l[1])] >= deliveryLogs'[l].at
         \/ /\ deliveryLogs'[l].at = daNow
            /\ \E d \in Active :
                 call'[d].pc = "marking" /\ KeyOf(call'[d].event) = KeyOf(l[1])
    <3> TAKE l \in Delivered'
    <3>1. CASE l = k
      BY <1>2, <1>5, <1>7, <1>9, <2>3, <3>1
    <3>2. CASE l # k
      <4>1. l \in Delivered /\ deliveryLogs'[l].at = deliveryLogs[l].at
        BY <2>1, <2>2, <3>2
      <4>2. \A d \in Active : call[d].pc = "marking" => call'[d] = call[d]
        BY <1>1, <2>3 DEF Active
      <4> QED
        BY <4>1, <4>2 DEF DaInv, SuppressionsOK
    <3> QED
      BY <3>1, <3>2
  <2> QED
    BY <1>1, <2>4, <2>5, <2>6, <2>7, <2>8 DEF SuppressionsOK
<1> QED
  BY <1>11, <1>12, <1>13, <1>14 DEF DaInv

(* The suppression is recorded. *)
LEMMA MarkStep ==
  ASSUME DaInv, NEW c \in Call, DeliveryIsMarked(c) PROVE DaInv'
<1>1. /\ call[c].pc = "marking" /\ call[c] # NoCall
      /\ UNCHANGED <<daNow, driftEvents, deliveryLogs, verdicts>>
      /\ suppressions' = Put(suppressions, KeyOf(call[c].event), daNow)
      /\ call' = [call EXCEPT ![c].pc = "dispatching", ![c].rule = ""]
  BY NoCallIsNone DEF DeliveryIsMarked, MarkAlertDispatched, At
<1>2. /\ CallOK(call[c]) /\ DOMAIN call = Call /\ c \in Active
      /\ call[c].event \in Nat \ {0} /\ call[c].last \in Nat
  BY <1>1, ActiveIsOK
<1>3. PICK t : t = [call[c] EXCEPT !.pc = "dispatching", !.rule = ""]
  OBVIOUS
<1>4. call' = [call EXCEPT ![c] = t]
  BY <1>1, <1>2, <1>3
<1>5. /\ DOMAIN t = Fields /\ t.pc = "dispatching" /\ t.event = call[c].event
      /\ t.last = call[c].last /\ t.rules = call[c].rules /\ t.rule = ""
      /\ t.attempt = call[c].attempt
  BY <1>2, <1>3 DEF Fields, CallOK
<1>6. CallOK(t) /\ t # NoCall
  <2>1. CallOK(t)
    BY <1>1, <1>2, <1>5 DEF CallOK
  <2> QED
    BY <2>1, NoCallIsNone
<1>7. VerdictsOK' /\ LogsOK' /\ SuppressionIsExact'
  BY <1>1 DEF DaInv, VerdictsOK, LogsOK, SuppressionIsExact, KeyOf
<1>8. CallsOK'
  <2>1. call[c].event <= t.event
    <3>1. t.event = call[c].event /\ call[c].event \in Nat
      BY <1>2, <1>5
    <3> QED
      BY <3>1
  <2> QED
    BY <1>1, <1>4, <1>5, <1>6, <2>1, CallsMove DEF DaInv
<1>9. WorkOK'
  <2>1. Unlogged(t) = Unlogged(call[c])
    <3>1. t.rules \cup ({""} \ {""}) = call[c].rules \cup {}
      BY <1>5
    <3> QED
      BY <1>1, <1>5, <3>1 DEF Unlogged
  <2>2. Pending(t) = Pending(call[c])
    BY <1>1, <1>5 DEF Pending
  <2> QED
    BY <1>1, <1>4, <1>6, <2>1, <2>2, WorkStays DEF DaInv
<1>10. SuppressionsOK'
  <2>1. PICK key : key = KeyOf(call[c].event)
    OBVIOUS
  <2>2. /\ DOMAIN suppressions' = DOMAIN suppressions \cup {key}
        /\ suppressions'[key] = daNow
        /\ \A j \in DOMAIN suppressions : j # key => suppressions'[j] = suppressions[j]
    BY <1>1, <2>1 DEF Put
  <2>3. /\ call'[c] = t /\ \A d \in Call : d # c => call'[d] = call[d]
    BY <1>2, <1>4
  <2>4. Active' = Active
    BY <1>1, <1>6, <2>3 DEF Active
  <2>5. Delivered' = Delivered /\ \A e : KeyOf(e)' = KeyOf(e)
    BY <1>1 DEF KeyOf, Delivered
  <2>6. SuppressionsOK
    BY DEF DaInv
  <2>7. \A d \in Active : call'[d].pc = "marking" =>
          LET l == <<call'[d].event, call'[d].rule>> IN
          l \in Delivered /\ deliveryLogs[l].at = daNow
    <3>1. \A d \in Active : call'[d].pc = "marking" => d # c /\ call'[d] = call[d]
      BY <1>5, <2>3 DEF Active
    <3> QED
      BY <2>6, <3>1 DEF SuppressionsOK
  <2>8. \A j \in DOMAIN suppressions' :
          \E l \in Delivered : KeyOf(l[1]) = j /\ deliveryLogs[l].at = suppressions'[j]
    <3>1. \E l \in Delivered : KeyOf(l[1]) = key /\ deliveryLogs[l].at = daNow
      <4>1. PICK l : l = <<call[c].event, call[c].rule>>
        OBVIOUS
      <4>2. l \in Delivered /\ deliveryLogs[l].at = daNow
        BY <1>1, <1>2, <2>6, <4>1 DEF SuppressionsOK
      <4>3. KeyOf(l[1]) = key
        BY <2>1, <4>1
      <4> QED
        BY <4>2, <4>3
    <3> QED
      BY <2>2, <2>6, <3>1 DEF SuppressionsOK
  <2>9. \A l \in Delivered :
         \/ /\ KeyOf(l[1]) \in DOMAIN suppressions'
            /\ suppressions'[KeyOf(l[1])] >= deliveryLogs[l].at
         \/ /\ deliveryLogs[l].at = daNow
            /\ \E d \in Active :
                 call'[d].pc = "marking" /\ KeyOf(call'[d].event) = KeyOf(l[1])
    <3> TAKE l \in Delivered
    <3>1. CASE KeyOf(l[1]) = key
      <4>1. deliveryLogs[l].at \in Nat /\ deliveryLogs[l].at <= daNow /\ daNow \in Nat
        BY DEF DaInv, LogsOK, VerdictsOK, Delivered
      <4> QED
        BY <2>2, <3>1, <4>1
    <3>2. CASE KeyOf(l[1]) # key
      <4>1. \A d \in Active : KeyOf(call[d].event) = KeyOf(l[1]) => call'[d] = call[d]
        BY <2>1, <2>3, <3>2 DEF Active
      <4> QED
        BY <2>2, <2>6, <3>2, <4>1 DEF SuppressionsOK
    <3> QED
      BY <3>1, <3>2
  <2> QED
    BY <1>1, <2>4, <2>5, <2>7, <2>8, <2>9 DEF SuppressionsOK
<1> QED
  BY <1>7, <1>8, <1>9, <1>10 DEF DaInv

(* The hour ends: nothing was about to be recorded. *)
LEMMA TickStep == ASSUME DaInv, DaTick PROVE DaInv'
<1>1. /\ \A c \in Call : call[c].pc # "marking"
      /\ daNow' = daNow + 1
      /\ UNCHANGED <<driftEvents, suppressions, deliveryLogs, call, verdicts>>
  BY DEF DaTick, At
<1>2. CallsOK' /\ WorkOK' /\ SuppressionIsExact'
  <2>1. CallsOK'
    BY <1>1 DEF DaInv, CallsOK, CallOK
  <2>2. WorkOK'
    BY <1>1 DEF DaInv, WorkOK, Active
  <2>3. SuppressionIsExact'
    BY <1>1 DEF DaInv, SuppressionIsExact, KeyOf
  <2> QED
    BY <2>1, <2>2, <2>3
<1>3. daNow \in Nat /\ daNow' \in Nat /\ \A n \in Nat : n <= daNow => n <= daNow'
  BY <1>1 DEF DaInv, VerdictsOK
<1>4. VerdictsOK' /\ LogsOK'
  BY <1>1, <1>3 DEF DaInv, VerdictsOK, LogsOK
<1>5. SuppressionsOK'
  <2>1. Active' = Active /\ Delivered' = Delivered /\ \A e : KeyOf(e)' = KeyOf(e)
    BY <1>1 DEF Active, Delivered, KeyOf
  <2> QED
    BY <1>1, <2>1 DEF DaInv, SuppressionsOK, Active
<1> QED
  BY <1>2, <1>4, <1>5 DEF DaInv

-----------------------------------------------------------------------------
(* The rules of an event are evaluated *)

(* What is suppressed was delivered within the window, and what was        *)
(* delivered within it, before this hour, is suppressed.                   *)
LEMMA SuppressedWhenHeard ==
  ASSUME DaInv, NEW e, NEW r \in Rules
  PROVE  LET heard == {l \in Delivered :
                         KeyOf(l[1]) = KeyOf(e) /\ daNow - deliveryLogs[l].at < AlertRule[r].window}
         IN IF isSuppressed(e, r)
              THEN \E l \in heard : deliveryLogs[l].at <= daNow
              ELSE \A l \in heard : deliveryLogs[l].at >= daNow
<1>1. VerdictsOK /\ LogsOK /\ SuppressionsOK
  BY DEF DaInv
<1>2. daNow \in Nat /\ \A l \in Delivered : deliveryLogs[l].at \in Nat /\ deliveryLogs[l].at <= daNow
  BY <1>1 DEF VerdictsOK, LogsOK, Delivered
<1>3. AlertRule[r].window \in Int
  BY DriftAssumption DEF Rules
<1>4. CASE isSuppressed(e, r)
  <2>1. /\ KeyOf(e) \in DOMAIN suppressions
        /\ daNow - suppressions[KeyOf(e)] < AlertRule[r].window
    BY <1>4 DEF isSuppressed
  <2>2. PICK l \in Delivered : KeyOf(l[1]) = KeyOf(e) /\ deliveryLogs[l].at = suppressions[KeyOf(e)]
    BY <1>1, <2>1 DEF SuppressionsOK
  <2> QED
    BY <1>2, <1>4, <2>1, <2>2
<1>5. CASE ~isSuppressed(e, r)
  <2> SUFFICES ASSUME NEW l \in Delivered, KeyOf(l[1]) = KeyOf(e),
                      daNow - deliveryLogs[l].at < AlertRule[r].window
               PROVE  deliveryLogs[l].at >= daNow
    BY <1>5
  <2>1. CASE deliveryLogs[l].at = daNow
    BY <1>2, <2>1
  <2>2. CASE deliveryLogs[l].at # daNow
    <3>1. /\ KeyOf(e) \in DOMAIN suppressions
          /\ suppressions[KeyOf(e)] >= deliveryLogs[l].at
      BY <1>1, <2>2 DEF SuppressionsOK
    <3>2. PICK m \in Delivered : deliveryLogs[m].at = suppressions[KeyOf(e)]
      BY <1>1, <3>1 DEF SuppressionsOK
    <3>3. /\ deliveryLogs[l].at \in Nat /\ deliveryLogs[l].at <= daNow
          /\ suppressions[KeyOf(e)] \in Nat
      BY <1>2, <3>2
    <3>4. /\ AlertRule[r].window > 0
          /\ daNow - suppressions[KeyOf(e)] < AlertRule[r].window
      BY <1>2, <1>3, <3>1, <3>3
    <3> QED
      BY <1>5, <3>1, <3>4 DEF isSuppressed
  <2> QED
    BY <2>1, <2>2
<1> QED
  BY <1>4, <1>5

LEMMA EvaluateStep ==
  ASSUME DaInv, NEW c \in Call, EvaluateRules(c) PROVE DaInv'
<1> PICK e : e = call[c].event
  OBVIOUS
<1> PICK applying : applying = {r \in Rules : RuleApplies(r, e)}
  OBVIOUS
<1> PICK matched : matched = {r \in applying : ~isSuppressed(e, r)}
  OBVIOUS
<1>1. /\ e = call[c].event
      /\ applying = {r \in Rules : RuleApplies(r, e)}
      /\ matched = {r \in applying : ~isSuppressed(e, r)}
      /\ call' = [call EXCEPT ![c].pc = "dispatching", ![c].rules = matched]
      /\ verdicts' = [k \in DOMAIN verdicts \cup ({e} \X applying) |->
                        IF k \in DOMAIN verdicts THEN verdicts[k]
                        ELSE [matched |-> k[2] \in matched, at |-> daNow]]
  BY DEF EvaluateRules, Rules
<1>2. /\ call[c].pc = "evaluating" /\ call[c] # NoCall
      /\ UNCHANGED <<daNow, driftEvents, suppressions, deliveryLogs>>
  BY NoCallIsNone DEF EvaluateRules, At
<1>3. /\ CallOK(call[c]) /\ DOMAIN call = Call /\ c \in Active
      /\ call[c].event \in Nat \ {0} /\ call[c].last \in Nat /\ call[c].event <= call[c].last
  BY <1>2, ActiveIsOK
<1>4. PICK t : t = [call[c] EXCEPT !.pc = "dispatching", !.rules = matched]
  OBVIOUS
<1>5. call' = [call EXCEPT ![c] = t]
  BY <1>1, <1>3, <1>4
<1>6. /\ DOMAIN t = Fields /\ t.pc = "dispatching" /\ t.event = e
      /\ t.last = call[c].last /\ t.rules = matched /\ t.rule = "" /\ t.attempt = call[c].attempt
  <2>1. call[c].rule = "" /\ DOMAIN call[c] = Fields
    BY <1>2, <1>3 DEF CallOK
  <2> QED
    BY <1>1, <1>4, <2>1 DEF Fields
<1>7. matched \in SUBSET applying /\ applying \in SUBSET Rules
  BY <1>1
<1>8. CallOK(t) /\ t # NoCall
  <2>1. CallOK(t)
    BY <1>1, <1>3, <1>6, <1>7 DEF CallOK
  <2> QED
    BY <2>1, NoCallIsNone
<1>9. CallsOK'
  <2>1. call[c].event <= t.event
    <3>1. t.event = call[c].event /\ call[c].event \in Nat
      BY <1>1, <1>3, <1>6
    <3> QED
      BY <3>1
  <2> QED
    BY <1>2, <1>5, <1>6, <1>8, <2>1, CallsMove DEF DaInv
<1>10. \A k \in DOMAIN verdicts : k[1] # e
  <2>1. e \in Pending(call[c])
    BY <1>1, <1>2, <1>3 DEF Pending
  <2> QED
    BY <1>3, <2>1 DEF DaInv, WorkOK
<1>11. /\ DOMAIN verdicts' = DOMAIN verdicts \cup ({e} \X applying)
       /\ \A k \in DOMAIN verdicts : verdicts'[k] = verdicts[k]
  BY <1>1
<1>12. \A r \in applying :
         /\ <<e, r>> \notin DOMAIN verdicts
         /\ verdicts'[<<e, r>>] = [matched |-> r \in matched, at |-> daNow]
  BY <1>1, <1>10
<1>13. \A r \in applying :
         /\ verdicts'[<<e, r>>].at = daNow
         /\ verdicts'[<<e, r>>].matched <=> ~isSuppressed(e, r)
  <2> TAKE r \in applying
  <2>1. PICK v : v = [matched |-> r \in matched, at |-> daNow]
    OBVIOUS
  <2>2. v.at = daNow
    BY <2>1
  <2>3. v.matched = (r \in matched)
    BY <2>1
  <2>4. verdicts'[<<e, r>>] = v
    BY <1>12, <2>1
  <2>5. (r \in matched) <=> ~isSuppressed(e, r)
    BY <1>1
  <2>6. v.matched <=> r \in matched
    <3>1. CASE r \in matched
      <4>1. (r \in matched) = TRUE
        BY <3>1, Zenon
      <4> QED
        BY <2>3, <3>1, <4>1
    <3>2. CASE r \notin matched
      <4>1. (r \in matched) = FALSE
        BY <3>2
      <4> QED
        BY <2>3, <3>2, <4>1
    <3> QED
      BY <3>1, <3>2
  <2> QED
    BY <2>2, <2>4, <2>5, <2>6
<1>14. e \in 1..Len(driftEvents) /\ \A k \in {e} \X applying : \E r \in applying : k = <<e, r>>
  <2>1. e <= Len(driftEvents) /\ e \in Nat \ {0} /\ Len(driftEvents) \in Nat
    <3>1. IsList(driftEvents)
      BY DEF DaInv, VerdictsOK
    <3>2. Len(driftEvents) \in Nat
      BY <3>1, ListDomain
    <3>3. call[c].last <= Len(driftEvents)
      BY <1>3 DEF CallOK
    <3> QED
      BY <1>1, <1>3, <3>2, <3>3
  <2> QED
    BY <2>1
<1> DEFINE new == {e} \X applying
<1>15. VerdictsOK'
  <2>1. VerdictsOK
    BY DEF DaInv
  <2>2. DOMAIN verdicts' \in SUBSET ((1..Len(driftEvents)) \X Rules)
    BY <1>7, <1>11, <1>14, <2>1 DEF VerdictsOK
  <2>3. \A k \in DOMAIN verdicts' : verdicts'[k].at \in Nat /\ verdicts'[k].at <= daNow
    BY <1>11, <1>13, <1>14, <2>1 DEF VerdictsOK
  <2> QED
    BY <1>2, <2>1, <2>2, <2>3 DEF VerdictsOK
<1>16. LogsOK'
  BY <1>2, <1>11 DEF DaInv, LogsOK
<1>17. SuppressionsOK'
  <2>1. Delivered' = Delivered
    BY <1>2 DEF Delivered
  <2>2. call[c].pc # "marking" /\ t.pc # "marking"
    BY <1>2, <1>6
  <2> QED
    BY <1>2, <1>5, <2>1, <2>2, SuppressionsStay DEF DaInv
<1>18. WorkOK'
  <2>1. /\ call'[c] = t /\ \A d \in Call : d # c => call'[d] = call[d]
    BY <1>3, <1>5
  <2>2. Active' = Active
    BY <1>2, <1>8, <2>1 DEF Active
  <2>3. Unlogged(t) = {<<e, q>> : q \in matched}
    <3>1. matched \cup ({""} \ {""}) = matched
      OBVIOUS
    <3> QED
      BY <1>6, <3>1 DEF Unlogged
  <2>4. Unlogged(call[c]) = {}
    <3>1. call[c].rules \cup {} = {}
      BY <1>2, <1>3 DEF CallOK
    <3> QED
      BY <1>2, <3>1 DEF Unlogged
  <2>5. e \notin Pending(t) /\ Pending(t) \in SUBSET Pending(call[c])
    <3>1. e \in Nat /\ call[c].last \in Nat /\ call[c].event = e
      BY <1>1, <1>3
    <3>2. Pending(t) = (e + 1)..call[c].last /\ Pending(call[c]) = e..call[c].last
      BY <1>2, <1>6, <3>1 DEF Pending
    <3> QED
      BY <3>1, <3>2
  <2>6. \A d \in Active : d # c => e \notin Pending(call[d])
    BY <1>1, <1>3, CallsAreApart DEF DaInv
  <2>7. WorkOK
    BY DEF DaInv
  <2>8. DOMAIN deliveryLogs \in SUBSET DOMAIN verdicts
    BY DEF DaInv, LogsOK
  <2>9. \A d \in Active : \A k \in DOMAIN verdicts' : k[1] \notin Pending(call'[d])
    <3> TAKE d \in Active
    <3>1. \A k \in DOMAIN verdicts : k[1] \notin Pending(call[d])
      BY <2>7 DEF WorkOK
    <3>2. Pending(call'[d]) \in SUBSET Pending(call[d]) /\ e \notin Pending(call'[d])
      BY <2>1, <2>5, <2>6 DEF Active
    <3> QED
      BY <1>11, <1>14, <3>1, <3>2
  <2>10. \A d \in Active : \A k \in Unlogged(call'[d]) :
            k \in DOMAIN verdicts' /\ verdicts'[k].matched /\ k \notin DOMAIN deliveryLogs
    <3> TAKE d \in Active
    <3>1. CASE d = c
      <4>1. \A q \in matched : /\ <<e, q>> \in DOMAIN verdicts' /\ verdicts'[<<e, q>>].matched
                               /\ <<e, q>> \notin DOMAIN deliveryLogs
        BY <1>1, <1>7, <1>11, <1>12, <1>13, <2>8
      <4> QED
        BY <2>1, <2>3, <3>1, <4>1
    <3>2. CASE d # c
      <4>1. call'[d] = call[d]
        BY <2>1, <3>2 DEF Active
      <4> QED
        BY <1>11, <2>7, <4>1 DEF WorkOK
    <3> QED
      BY <3>1, <3>2
  <2>11. \A k \in DOMAIN verdicts' : verdicts'[k].matched /\ k \notin DOMAIN deliveryLogs =>
           \E d \in Active : k \in Unlogged(call'[d])
    <3> SUFFICES ASSUME NEW k \in DOMAIN verdicts', verdicts'[k].matched, k \notin DOMAIN deliveryLogs
                 PROVE  \E d \in Active : k \in Unlogged(call'[d])
      OBVIOUS
    <3>1. CASE k \in DOMAIN verdicts
      <4>1. PICK d \in Active : k \in Unlogged(call[d])
        BY <1>11, <2>7, <3>1 DEF WorkOK
      <4>2. call'[d] = call[d]
        BY <2>1, <2>4, <4>1 DEF Active
      <4> QED
        BY <4>1, <4>2
    <3>2. CASE k \notin DOMAIN verdicts
      <4>1. PICK r \in applying : k = <<e, r>>
        BY <1>11, <1>14, <3>2
      <4>2. r \in matched
        BY <1>1, <1>13, <4>1
      <4>3. k \in Unlogged(t)
        BY <2>3, <4>1, <4>2
      <4> QED
        BY <1>3, <2>1, <4>3
    <3> QED
      BY <3>1, <3>2
  <2> QED
    BY <1>2, <2>2, <2>9, <2>10, <2>11 DEF WorkOK
<1>19. SuppressionIsExact'
  <2>1. \A x : KeyOf(x)' = KeyOf(x)
    BY <1>2 DEF KeyOf
  <2> SUFFICES ASSUME NEW k \in DOMAIN verdicts'
               PROVE  LET heard == {l \in DOMAIN deliveryLogs :
                            /\ deliveryLogs[l].status = "SUCCESS"
                            /\ KeyOf(l[1]) = KeyOf(k[1])
                            /\ verdicts'[k].at - deliveryLogs[l].at < AlertRule[k[2]].window}
                      IN IF verdicts'[k].matched
                           THEN \A l \in heard : deliveryLogs[l].at >= verdicts'[k].at
                           ELSE \E l \in heard : deliveryLogs[l].at <= verdicts'[k].at
    BY <1>2, <2>1 DEF SuppressionIsExact
  <2>2. CASE k \in DOMAIN verdicts
    <3>1. verdicts'[k] = verdicts[k]
      BY <1>11, <2>2
    <3> QED
      BY <2>2, <3>1 DEF DaInv, SuppressionIsExact
  <2>3. CASE k \notin DOMAIN verdicts
    <3>1. PICK r \in applying : k = <<e, r>>
      BY <1>11, <1>14, <2>3
    <3>2. /\ k[1] = e /\ k[2] = r /\ r \in Rules /\ verdicts'[k].at = daNow
          /\ verdicts'[k].matched <=> ~isSuppressed(e, r)
      BY <1>7, <1>13, <3>1
    <3>3. LET heard == {l \in Delivered :
                 KeyOf(l[1]) = KeyOf(e) /\ daNow - deliveryLogs[l].at < AlertRule[r].window}
          IN IF isSuppressed(e, r)
               THEN \E l \in heard : deliveryLogs[l].at <= daNow
               ELSE \A l \in heard : deliveryLogs[l].at >= daNow
      BY <3>2, SuppressedWhenHeard
    <3>4. CASE isSuppressed(e, r)
      <4>1. PICK l \in Delivered : /\ KeyOf(l[1]) = KeyOf(e)
                                   /\ daNow - deliveryLogs[l].at < AlertRule[r].window
                                   /\ deliveryLogs[l].at <= daNow
        BY <3>3, <3>4
      <4>2. l \in DOMAIN deliveryLogs /\ deliveryLogs[l].status = "SUCCESS"
        BY DEF Delivered
      <4> QED
        BY <3>2, <3>4, <4>1, <4>2
    <3>5. CASE ~isSuppressed(e, r)
      <4>1. \A l \in DOMAIN deliveryLogs : deliveryLogs[l].status = "SUCCESS" => l \in Delivered
        BY DEF Delivered
      <4> QED
        BY <3>2, <3>3, <3>5, <4>1
    <3> QED
      BY <3>4, <3>5
  <2> QED
    BY <2>2, <2>3
<1> QED
  BY <1>9, <1>15, <1>16, <1>17, <1>18, <1>19 DEF DaInv

-----------------------------------------------------------------------------
(* The difference of two snapshots *)

(* The events say nothing of a property. *)
Silent(s, p) == \A i \in DOMAIN s : s[i].property # p

(* They say of a property that it went from one value to another: once, if *)
(* it did.                                                                 *)
Tells(s, p, old, new) ==
  /\ \A i \in DOMAIN s : s[i].property = p => s[i].baseline = old /\ s[i].current = new
  /\ \A i, j \in DOMAIN s : s[i].property = p /\ s[j].property = p => i = j
  /\ old # new => ~Silent(s, p)

LEMMA SilentTogether ==
  ASSUME NEW s, NEW t, IsList(s), IsList(t), NEW p, Silent(s, p), Silent(t, p)
  PROVE  Silent(s \o t, p)
<1>1. /\ \A i \in DOMAIN s : (s \o t)[i] = s[i]
      /\ \A i \in DOMAIN t : (s \o t)[Len(s) + i] = t[i]
      /\ \A i \in DOMAIN (s \o t) : i \in DOMAIN s \/ i - Len(s) \in DOMAIN t
      /\ DOMAIN (s \o t) = 1..(Len(s) + Len(t)) /\ Len(s) \in Nat /\ Len(t) \in Nat
  BY Concatenated, ListDomain
<1>2. PICK u : u = s \o t
  OBVIOUS
<1>3. \A i \in DOMAIN u : i \notin DOMAIN s => u[i] = t[i - Len(s)]
  <2> TAKE i \in DOMAIN u
  <2> HAVE i \notin DOMAIN s
  <2>1. i - Len(s) \in DOMAIN t /\ i \in Nat /\ Len(s) + (i - Len(s)) = i
    BY <1>1, <1>2
  <2> QED
    BY <1>1, <1>2, <2>1
<1>4. \A i \in DOMAIN u : u[i].property # p
  BY <1>1, <1>2, <1>3 DEF Silent
<1> QED
  BY <1>2, <1>4 DEF Silent

LEMMA TellsFirst ==
  ASSUME NEW s, NEW t, IsList(s), IsList(t), NEW p, NEW old, NEW new,
         Tells(s, p, old, new), Silent(t, p)
  PROVE  Tells(s \o t, p, old, new)
<1>1. /\ \A i \in DOMAIN s : (s \o t)[i] = s[i]
      /\ \A i \in DOMAIN t : (s \o t)[Len(s) + i] = t[i]
      /\ \A i \in DOMAIN (s \o t) : i \in DOMAIN s \/ i - Len(s) \in DOMAIN t
      /\ DOMAIN (s \o t) = 1..(Len(s) + Len(t)) /\ Len(s) \in Nat /\ Len(t) \in Nat
      /\ DOMAIN s = 1..Len(s)
  <2>1. DOMAIN s = 1..Len(s)
    BY ListDomain
  <2>2. Len(s) \in Nat /\ Len(t) \in Nat
    BY ListDomain
  <2> QED
    BY <2>1, <2>2, Concatenated
<1>2. PICK u : u = s \o t
  OBVIOUS
<1>3. \A i \in DOMAIN u : u[i].property = p => i \in DOMAIN s /\ u[i] = s[i]
  <2> TAKE i \in DOMAIN u
  <2> HAVE u[i].property = p
  <2>1. i \in Nat /\ Len(s) + (i - Len(s)) = i
    BY <1>1, <1>2
  <2>2. i - Len(s) \in DOMAIN t => u[i] = t[i - Len(s)]
    BY <1>1, <1>2, <2>1
  <2>3. i \in DOMAIN s
    BY <1>1, <1>2, <2>2 DEF Silent
  <2> QED
    BY <1>1, <1>2, <2>3
<1>4. \A i \in DOMAIN s : i \in DOMAIN u /\ u[i] = s[i]
  BY <1>1, <1>2
<1>5. Tells(u, p, old, new)
  BY <1>3, <1>4 DEF Tells, Silent
<1> QED
  BY <1>2, <1>5

LEMMA TellsSecond ==
  ASSUME NEW s, NEW t, IsList(s), IsList(t), NEW p, NEW old, NEW new,
         Silent(s, p), Tells(t, p, old, new)
  PROVE  Tells(s \o t, p, old, new)
<1>1. /\ \A i \in DOMAIN s : (s \o t)[i] = s[i]
      /\ \A i \in DOMAIN t : (s \o t)[Len(s) + i] = t[i]
      /\ \A i \in DOMAIN (s \o t) : i \in DOMAIN s \/ i - Len(s) \in DOMAIN t
      /\ DOMAIN (s \o t) = 1..(Len(s) + Len(t)) /\ Len(s) \in Nat /\ Len(t) \in Nat
      /\ DOMAIN t = 1..Len(t)
  <2>1. DOMAIN t = 1..Len(t)
    BY ListDomain
  <2>2. Len(s) \in Nat /\ Len(t) \in Nat
    BY ListDomain
  <2> QED
    BY <2>1, <2>2, Concatenated
<1>2. PICK u : u = s \o t
  OBVIOUS
<1>3. \A i \in DOMAIN u : u[i].property = p =>
        i - Len(s) \in DOMAIN t /\ u[i] = t[i - Len(s)] /\ i \in Nat
  <2> TAKE i \in DOMAIN u
  <2> HAVE u[i].property = p
  <2>1. i \in Nat /\ Len(s) + (i - Len(s)) = i
    BY <1>1, <1>2
  <2>2. i - Len(s) \in DOMAIN t
    BY <1>1, <1>2 DEF Silent
  <2>3. u[i] = t[i - Len(s)]
    BY <1>1, <1>2, <2>1, <2>2
  <2> QED
    BY <2>1, <2>2, <2>3
<1>4. \A i \in DOMAIN t : Len(s) + i \in DOMAIN u /\ u[Len(s) + i] = t[i]
  BY <1>1, <1>2
<1>5. \A i \in DOMAIN u : u[i].property = p => u[i].baseline = old /\ u[i].current = new
  BY <1>3 DEF Tells
<1>6. \A i, j \in DOMAIN u : u[i].property = p /\ u[j].property = p => i = j
  <2> SUFFICES ASSUME NEW i \in DOMAIN u, NEW j \in DOMAIN u, u[i].property = p, u[j].property = p
               PROVE  i = j
    OBVIOUS
  <2>1. i - Len(s) = j - Len(s)
    BY <1>3 DEF Tells
  <2> QED
    BY <1>1, <1>3, <2>1
<1>7. old # new => ~Silent(u, p)
  BY <1>4 DEF Tells, Silent
<1>8. Tells(u, p, old, new)
  BY <1>5, <1>6, <1>7 DEF Tells
<1> QED
  BY <1>2, <1>8

(* The changes of some properties. *)
LEMMA ChangesTell ==
  ASSUME NEW category, NEW q, IsList(q), NEW prev, NEW new, NEW p,
         \A i, j \in DOMAIN q : q[i] = q[j] => i = j
  PROVE  LET s == Changes(category, q, prev, new) IN
         /\ IsList(s)
         /\ p \notin Elements(q) => Silent(s, p)
         /\ p \in Elements(q) /\ p \notin OnlyIfKnown =>
              Tells(s, p, ValueOf(prev, p), ValueOf(new, p))
<1> DEFINE Differs(x) == /\ ValueOf(prev, x) # ValueOf(new, x)
                         /\ x \in OnlyIfKnown => ValueOf(prev, x) # ""
<1>1. DOMAIN q = 1..Len(q) /\ Len(q) \in Nat
  BY ListDomain
<1>2. PICK P : P = {i \in DOMAIN q : Differs(q[i])}
  OBVIOUS
<1>3. PICK f : f = Filtered(q, P)
  OBVIOUS
<1>4. Picks(f, q, P)
  <2>1. P \in SUBSET (1..Len(q))
    BY <1>1, <1>2
  <2> QED
    BY <1>1, <1>3, <2>1, FilteredList
<1>5. PICK at : /\ \A i \in DOMAIN f : at[i] \in P /\ f[i] = q[at[i]]
                /\ \A x \in P : \E i \in DOMAIN f : at[i] = x
                /\ \A i, j \in DOMAIN f : i < j <=> at[i] < at[j]
  BY <1>4 DEF Picks
<1>6. PICK s : s = Changes(category, q, prev, new)
  OBVIOUS
<1>7. /\ DOMAIN s = DOMAIN f
      /\ s = [i \in DOMAIN f |->
               Event(category, f[i], Severity(f[i], ValueOf(prev, f[i]), ValueOf(new, f[i])),
                     ValueOf(prev, f[i]), ValueOf(new, f[i]))]
  BY <1>2, <1>3, <1>6 DEF Changes
<1>8. \A i \in DOMAIN s : /\ s[i].property = f[i] /\ s[i].baseline = ValueOf(prev, f[i])
                          /\ s[i].current = ValueOf(new, f[i])
                          /\ s[i].property = q[at[i]] /\ at[i] \in DOMAIN q /\ at[i] \in Nat
  <2> TAKE i \in DOMAIN s
  <2>1. /\ s[i].property = f[i] /\ s[i].baseline = ValueOf(prev, f[i])
        /\ s[i].current = ValueOf(new, f[i])
    BY <1>7 DEF Event
  <2>2. f[i] = q[at[i]] /\ at[i] \in DOMAIN q
    BY <1>2, <1>5, <1>7
  <2> QED
    BY <1>1, <2>1, <2>2
<1>9. IsList(s)
  <2>1. s = [i \in DOMAIN s |-> s[i]]
    BY <1>7
  <2> QED
    BY <1>4, <1>7, <2>1, MappedList DEF Picks
<1>10. p \notin Elements(q) => Silent(s, p)
  BY <1>8 DEF Silent, Elements
<1>11. ASSUME p \in Elements(q), p \notin OnlyIfKnown
       PROVE  Tells(s, p, ValueOf(prev, p), ValueOf(new, p))
  <2>1. \A i, j \in DOMAIN s : s[i].property = p /\ s[j].property = p => i = j
    <3> SUFFICES ASSUME NEW i \in DOMAIN s, NEW j \in DOMAIN s,
                        s[i].property = p, s[j].property = p
                 PROVE  i = j
      OBVIOUS
    <3>1. at[i] = at[j] /\ at[i] \in Nat
      BY <1>8
    <3>2. i \in Nat /\ j \in Nat /\ ~(i < j) /\ ~(j < i)
      BY <1>4, <1>5, <1>7, <3>1 DEF Picks
    <3> QED
      BY <3>2
  <2>2. ValueOf(prev, p) # ValueOf(new, p) => ~Silent(s, p)
    <3> HAVE ValueOf(prev, p) # ValueOf(new, p)
    <3>1. PICK x \in DOMAIN q : q[x] = p
      BY <1>11 DEF Elements
    <3>2. x \in P
      BY <1>2, <1>11, <3>1
    <3>3. PICK i \in DOMAIN f : at[i] = x
      BY <1>5, <3>2
    <3> QED
      BY <1>5, <1>7, <1>8, <3>1, <3>3 DEF Silent
  <2> QED
    BY <1>8, <2>1, <2>2 DEF Tells
<1> QED
  BY <1>6, <1>9, <1>10, <1>11

(* The properties that are compared, each once. *)
Distinct(q) == IsList(q) /\ \A i, j \in DOMAIN q : q[i] = q[j] => i = j

LEMMA DistinctTogether ==
  ASSUME NEW s, NEW t, Distinct(s), Distinct(t), Elements(s) \cap Elements(t) = {}
  PROVE  Distinct(s \o t) /\ Elements(s \o t) = Elements(s) \cup Elements(t)
<1>1. /\ \A i \in DOMAIN s : (s \o t)[i] = s[i]
      /\ \A i \in DOMAIN t : (s \o t)[Len(s) + i] = t[i]
      /\ \A i \in DOMAIN (s \o t) : i \in DOMAIN s \/ i - Len(s) \in DOMAIN t
      /\ DOMAIN (s \o t) = 1..(Len(s) + Len(t)) /\ Len(s) \in Nat /\ Len(t) \in Nat
      /\ IsList(s \o t)
  <2>1. Len(s) \in Nat /\ Len(t) \in Nat
    BY ListDomain DEF Distinct
  <2> QED
    BY <2>1, Concatenated DEF Distinct
<1>2. DOMAIN s = 1..Len(s) /\ DOMAIN t = 1..Len(t)
  BY ListDomain DEF Distinct
<1>3. PICK u : u = s \o t
  OBVIOUS
<1>4. \A i \in DOMAIN u :
        /\ i \in Nat
        /\ \/ i \in DOMAIN s /\ u[i] = s[i] /\ u[i] \in Elements(s)
           \/ i - Len(s) \in DOMAIN t /\ u[i] = t[i - Len(s)] /\ u[i] \in Elements(t)
  <2> TAKE i \in DOMAIN u
  <2>1. i \in Nat /\ Len(s) + (i - Len(s)) = i
    BY <1>1, <1>3
  <2>2. CASE i \in DOMAIN s
    BY <1>1, <1>3, <2>1, <2>2 DEF Elements
  <2>3. CASE i \notin DOMAIN s
    <3>1. i - Len(s) \in DOMAIN t
      BY <1>1, <1>3, <2>3
    <3>2. u[i] = t[i - Len(s)]
      BY <1>1, <1>3, <2>1, <3>1
    <3> QED
      BY <2>1, <3>1, <3>2 DEF Elements
  <2> QED
    BY <2>2, <2>3
<1>5. \A i, j \in DOMAIN u : u[i] = u[j] => i = j
  <2> SUFFICES ASSUME NEW i \in DOMAIN u, NEW j \in DOMAIN u, u[i] = u[j] PROVE i = j
    OBVIOUS
  <2>1. CASE u[i] \in Elements(s)
    <3>1. i \in DOMAIN s /\ j \in DOMAIN s /\ s[i] = s[j]
      BY <1>4, <2>1
    <3> QED
      BY <3>1 DEF Distinct
  <2>2. CASE u[i] \notin Elements(s)
    <3>1. /\ i - Len(s) \in DOMAIN t /\ j - Len(s) \in DOMAIN t
          /\ t[i - Len(s)] = t[j - Len(s)] /\ i \in Nat /\ j \in Nat
      BY <1>4, <2>2
    <3>2. i - Len(s) = j - Len(s)
      BY <3>1 DEF Distinct
    <3> QED
      BY <1>1, <3>1, <3>2
  <2> QED
    BY <2>1, <2>2
<1>6. Elements(u) = Elements(s) \cup Elements(t)
  <2>1. \A i \in DOMAIN s : i \in DOMAIN u /\ u[i] = s[i]
    BY <1>1, <1>2, <1>3
  <2>2. \A i \in DOMAIN t : Len(s) + i \in DOMAIN u /\ u[Len(s) + i] = t[i]
    BY <1>1, <1>2, <1>3
  <2>3. Elements(s) \subseteq Elements(u)
    BY <2>1 DEF Elements
  <2>4. Elements(t) \subseteq Elements(u)
    BY <2>2 DEF Elements
  <2>5. Elements(u) \subseteq Elements(s) \cup Elements(t)
    <3>1. \A i \in DOMAIN u : u[i] \in Elements(s) \cup Elements(t)
      BY <1>4
    <3> QED
      BY <3>1 DEF Elements
  <2> QED
    BY <2>3, <2>4, <2>5
<1> QED
  BY <1>1, <1>3, <1>5, <1>6 DEF Distinct

LEMMA SecurityBaselineProperties ==
  /\ Distinct(SecurityBaseline)
  /\ Elements(SecurityBaseline) =
        {"bitlocker.protection_status", "bitlocker.encryption_method",
         "defender.antivirus_enabled", "defender.realtime_protection_enabled",
         "defender.tamper_protection_enabled", "defender.behavior_monitor_enabled",
         "smb1_enabled", "lsa_protection_enabled", "credential_guard_running"}
<1>1. PICK q : q = SecurityBaseline
  OBVIOUS
<1>2. /\ Len(q) = 9 /\ DOMAIN q = 1..9
      /\ q[1] = "bitlocker.protection_status" /\ q[2] = "bitlocker.encryption_method"
      /\ q[3] = "defender.antivirus_enabled" /\ q[4] = "defender.realtime_protection_enabled"
      /\ q[5] = "defender.tamper_protection_enabled"
      /\ q[6] = "defender.behavior_monitor_enabled" /\ q[7] = "smb1_enabled"
      /\ q[8] = "lsa_protection_enabled" /\ q[9] = "credential_guard_running"
  BY <1>1 DEF SecurityBaseline
<1>3. q = [i \in 1..9 |-> q[i]]
  BY <1>1 DEF SecurityBaseline
<1>4. IsList(q)
  BY <1>3 DEF IsList
<1>5. \A i, j \in 1..9 : q[i] = q[j] => i = j
  BY <1>2
<1> QED
  BY <1>1, <1>2, <1>4, <1>5 DEF Distinct, Elements

LEMMA FirewallProfilesProperties ==
  /\ Distinct(FirewallProfiles)
  /\ Elements(FirewallProfiles) =
        {"firewall.domain.enabled", "firewall.domain.default_inbound",
         "firewall.private.enabled", "firewall.private.default_inbound",
         "firewall.public.enabled", "firewall.public.default_inbound"}
<1>1. PICK q : q = FirewallProfiles
  OBVIOUS
<1>2. /\ Len(q) = 6 /\ DOMAIN q = 1..6
      /\ q[1] = "firewall.domain.enabled" /\ q[2] = "firewall.domain.default_inbound"
      /\ q[3] = "firewall.private.enabled" /\ q[4] = "firewall.private.default_inbound"
      /\ q[5] = "firewall.public.enabled" /\ q[6] = "firewall.public.default_inbound"
  BY <1>1 DEF FirewallProfiles
<1>3. q = [i \in 1..6 |-> q[i]]
  BY <1>1 DEF FirewallProfiles
<1>4. IsList(q)
  BY <1>3 DEF IsList
<1>5. \A i, j \in 1..6 : q[i] = q[j] => i = j
  BY <1>2
<1> QED
  BY <1>1, <1>2, <1>4, <1>5 DEF Distinct, Elements

LEMMA FirmwareProperties ==
  /\ Distinct(Firmware)
  /\ Elements(Firmware) =
        {"secure_boot_enabled", "uefi_mode", "bios_version"}
<1>1. PICK q : q = Firmware
  OBVIOUS
<1>2. /\ Len(q) = 3 /\ DOMAIN q = 1..3
      /\ q[1] = "secure_boot_enabled" /\ q[2] = "uefi_mode" /\ q[3] = "bios_version"
  BY <1>1 DEF Firmware
<1>3. q = [i \in 1..3 |-> q[i]]
  BY <1>1 DEF Firmware
<1>4. IsList(q)
  BY <1>3 DEF IsList
<1>5. \A i, j \in 1..3 : q[i] = q[j] => i = j
  BY <1>2
<1> QED
  BY <1>1, <1>2, <1>4, <1>5 DEF Distinct, Elements

LEMMA TPMProperties ==
  /\ Distinct(TPM)
  /\ Elements(TPM) =
        {"tpm.present", "tpm.is_enabled"}
<1>1. PICK q : q = TPM
  OBVIOUS
<1>2. /\ Len(q) = 2 /\ DOMAIN q = 1..2
      /\ q[1] = "tpm.present" /\ q[2] = "tpm.is_enabled"
  BY <1>1 DEF TPM
<1>3. q = [i \in 1..2 |-> q[i]]
  BY <1>1 DEF TPM
<1>4. IsList(q)
  BY <1>3 DEF IsList
<1>5. \A i, j \in 1..2 : q[i] = q[j] => i = j
  BY <1>2
<1> QED
  BY <1>1, <1>2, <1>4, <1>5 DEF Distinct, Elements

LEMMA ProcessorProperties ==
  /\ Distinct(Processor)
  /\ Elements(Processor) =
        {"vbs_status", "hvci_status"}
<1>1. PICK q : q = Processor
  OBVIOUS
<1>2. /\ Len(q) = 2 /\ DOMAIN q = 1..2
      /\ q[1] = "vbs_status" /\ q[2] = "hvci_status"
  BY <1>1 DEF Processor
<1>3. q = [i \in 1..2 |-> q[i]]
  BY <1>1 DEF Processor
<1>4. IsList(q)
  BY <1>3 DEF IsList
<1>5. \A i, j \in 1..2 : q[i] = q[j] => i = j
  BY <1>2
<1> QED
  BY <1>1, <1>2, <1>4, <1>5 DEF Distinct, Elements

LEMMA AccessProperties ==
  /\ Distinct(Access)
  /\ Elements(Access) =
        {"guest_account_disabled"}
<1>1. PICK q : q = Access
  OBVIOUS
<1>2. /\ Len(q) = 1 /\ DOMAIN q = 1..1
      /\ q[1] = "guest_account_disabled"
  BY <1>1 DEF Access
<1>3. q = [i \in 1..1 |-> q[i]]
  BY <1>1 DEF Access
<1>4. IsList(q)
  BY <1>3 DEF IsList
<1>5. \A i, j \in 1..1 : q[i] = q[j] => i = j
  BY <1>2
<1> QED
  BY <1>1, <1>2, <1>4, <1>5 DEF Distinct, Elements

LEMMA HardwareProperties ==
  /\ Distinct(Hardware)
  /\ Elements(Hardware) =
        {"memory.total_capacity_bytes", "storage.disk_count"}
<1>1. PICK q : q = Hardware
  OBVIOUS
<1>2. /\ Len(q) = 2 /\ DOMAIN q = 1..2
      /\ q[1] = "memory.total_capacity_bytes" /\ q[2] = "storage.disk_count"
  BY <1>1 DEF Hardware
<1>3. q = [i \in 1..2 |-> q[i]]
  BY <1>1 DEF Hardware
<1>4. IsList(q)
  BY <1>3 DEF IsList
<1>5. \A i, j \in 1..2 : q[i] = q[j] => i = j
  BY <1>2
<1> QED
  BY <1>1, <1>2, <1>4, <1>5 DEF Distinct, Elements

-----------------------------------------------------------------------------
(* A list of events tells of the properties of a set, and of them alone.   *)
Covers(s, Q, p, old, new) ==
  /\ IsList(s)
  /\ p \in Q => Tells(s, p, old, new)
  /\ p \notin Q => Silent(s, p)

LEMMA CoversTogether ==
  ASSUME NEW s, NEW t, NEW Q, NEW R, NEW p, NEW old, NEW new,
         Covers(s, Q, p, old, new), Covers(t, R, p, old, new), p \notin Q \cap R
  PROVE  Covers(s \o t, Q \cup R, p, old, new)
<1>1. IsList(s) /\ IsList(t) /\ IsList(s \o t)
  BY Concatenated DEF Covers
<1>2. CASE p \in Q
  BY <1>1, <1>2, TellsFirst DEF Covers
<1>3. CASE p \in R
  BY <1>1, <1>3, TellsSecond DEF Covers
<1>4. CASE p \notin Q \cup R
  BY <1>1, <1>4, SilentTogether DEF Covers
<1> QED
  BY <1>2, <1>3, <1>4

LEMMA ChangesCover ==
  ASSUME NEW category, NEW q, Distinct(q), NEW prev, NEW new, NEW p, p \notin OnlyIfKnown
  PROVE  Covers(Changes(category, q, prev, new), Elements(q), p, ValueOf(prev, p), ValueOf(new, p))
<1>1. PICK s : s = Changes(category, q, prev, new)
  OBVIOUS
<1>2. /\ IsList(s)
      /\ p \notin Elements(q) => Silent(s, p)
      /\ p \in Elements(q) => Tells(s, p, ValueOf(prev, p), ValueOf(new, p))
  BY <1>1, ChangesTell DEF Distinct
<1> QED
  BY <1>1, <1>2 DEF Covers

(* The properties of the events about lists. *)
Lists == {"admins.added", "admins.removed", "network.adapters",
          "applications.installed", "applications.uninstalled"}

LEMMA WhenCovers ==
  ASSUME NEW condition, NEW category, NEW q \in Lists, NEW severity, NEW a, NEW b,
         NEW p, p \notin Lists, NEW old, NEW new
  PROVE  Covers(When(condition, Event(category, q, severity, a, b)), {}, p, old, new)
<1>1. PICK e : e = Event(category, q, severity, a, b)
  OBVIOUS
<1>2. e.property # p
  BY <1>1 DEF Event
<1>3. CASE condition
  <2>1. When(condition, e) = <<e>>
    BY <1>3 DEF When
  <2>2. IsList(<<e>>) /\ DOMAIN <<e>> = {1} /\ <<e>>[1] = e
    BY ShortLists
  <2> QED
    BY <1>1, <1>2, <2>1, <2>2 DEF Covers, Silent
<1>4. CASE ~condition
  <2>1. When(condition, e) = << >>
    BY <1>4 DEF When
  <2>2. IsList(<< >>) /\ DOMAIN << >> = {}
    BY ShortLists
  <2> QED
    BY <1>1, <2>1, <2>2 DEF Covers, Silent
<1> QED
  BY <1>3, <1>4

(* A switch and a status is compared once, in every case. *)
LEMMA ToldProperties ==
  /\ Distinct(SecurityBaseline \o FirewallProfiles)
  /\ \A p \in Switches \cup Statuses :
       LET baseline == Elements(SecurityBaseline \o FirewallProfiles) IN
       /\ p \notin OnlyIfKnown /\ p \notin Elements(Hardware) /\ p \notin Lists
       /\ \/ p \in baseline \/ p \in Elements(Firmware) \/ p \in Elements(TPM)
          \/ p \in Elements(Processor) \/ p \in Elements(Access)
       /\ p \in baseline =>
            /\ p \notin Elements(Firmware) /\ p \notin Elements(TPM)
            /\ p \notin Elements(Processor) /\ p \notin Elements(Access)
       /\ p \in Elements(Firmware) =>
            p \notin Elements(TPM) /\ p \notin Elements(Processor) /\ p \notin Elements(Access)
       /\ p \in Elements(TPM) => p \notin Elements(Processor) /\ p \notin Elements(Access)
       /\ p \in Elements(Processor) => p \notin Elements(Access)
<1> DEFINE q1 == SecurityBaseline \o FirewallProfiles
           q2 == q1 \o Firmware
           q3 == q2 \o TPM
           q4 == q3 \o Access
<1>1. /\ Distinct(q1)
      /\ Elements(q1) = Elements(SecurityBaseline) \cup Elements(FirewallProfiles)
  BY SecurityBaselineProperties, FirewallProfilesProperties, DistinctTogether
<1> HIDE DEF q1
<1>2. Distinct(q2) /\ Elements(q2) = Elements(q1) \cup Elements(Firmware)
  <2>1. Elements(q1) \cap Elements(Firmware) = {}
    BY <1>1, SecurityBaselineProperties, FirewallProfilesProperties, FirmwareProperties
  <2> QED
    BY <1>1, <2>1, FirmwareProperties, DistinctTogether
<1> HIDE DEF q2
<1>3. Distinct(q3) /\ Elements(q3) = Elements(q2) \cup Elements(TPM)
  <2>1. Elements(q2) \cap Elements(TPM) = {}
    BY <1>1, <1>2, SecurityBaselineProperties, FirewallProfilesProperties, FirmwareProperties,
       TPMProperties
  <2> QED
    BY <1>2, <2>1, TPMProperties, DistinctTogether
<1> HIDE DEF q3
<1>4. Elements(q4) = Elements(q3) \cup Elements(Access)
  <2>1. Elements(q3) \cap Elements(Access) = {}
    BY <1>1, <1>2, <1>3, SecurityBaselineProperties, FirewallProfilesProperties,
       FirmwareProperties, TPMProperties, AccessProperties
  <2> QED
    BY <1>3, <2>1, AccessProperties, DistinctTogether
<1>5. Switches = Elements(q4) \ OnlyIfKnown
  BY DEF Switches, q1, q2, q3, q4
<1> HIDE DEF q4
<1>6. Statuses \cap OnlyIfKnown = {}
  BY ProcessorProperties, HardwareProperties DEF Statuses, OnlyIfKnown, Inbound
<1>7. \A p \in Switches \cup Statuses :
        /\ \/ p \in Elements(q1) \/ p \in Elements(Firmware) \/ p \in Elements(TPM)
           \/ p \in Elements(Processor) \/ p \in Elements(Access)
        /\ p \notin OnlyIfKnown
  BY <1>2, <1>3, <1>4, <1>5, <1>6 DEF Statuses
<1>8. \A p \in Elements(q1) : /\ p \notin Elements(Firmware) /\ p \notin Elements(TPM)
                             /\ p \notin Elements(Processor) /\ p \notin Elements(Access)
                             /\ p \notin Elements(Hardware) /\ p \notin Lists
  BY <1>1, SecurityBaselineProperties, FirewallProfilesProperties, FirmwareProperties,
     TPMProperties, ProcessorProperties, AccessProperties, HardwareProperties DEF Lists
<1>9. \A p \in Elements(Firmware) :
        /\ p \notin Elements(TPM) /\ p \notin Elements(Processor) /\ p \notin Elements(Access)
        /\ p \notin Elements(Hardware) /\ p \notin Lists
  BY FirmwareProperties, TPMProperties, ProcessorProperties, AccessProperties,
     HardwareProperties DEF Lists
<1>10. \A p \in Elements(TPM) :
         /\ p \notin Elements(Processor) /\ p \notin Elements(Access)
         /\ p \notin Elements(Hardware) /\ p \notin Lists
  BY TPMProperties, ProcessorProperties, AccessProperties, HardwareProperties DEF Lists
<1>11. \A p \in Elements(Processor) :
         p \notin Elements(Access) /\ p \notin Elements(Hardware) /\ p \notin Lists
  BY ProcessorProperties, AccessProperties, HardwareProperties DEF Lists
<1>12. \A p \in Elements(Access) : p \notin Elements(Hardware) /\ p \notin Lists
  BY AccessProperties, HardwareProperties DEF Lists
<1> QED
  BY <1>1, <1>7, <1>8, <1>9, <1>10, <1>11, <1>12 DEF q1

(* The difference tells of each switch and status that moved, once, from   *)
(* what value to what; it is a list, of which the events become alerts.    *)
LEMMA DifferenceTells ==
  ASSUME NEW prev, NEW new
  PROVE  /\ IsList(DiffSnapshots(prev, new))
         /\ \A p \in Switches \cup Statuses :
              Tells(DiffSnapshots(prev, new), p, ValueOf(prev, p), ValueOf(new, p))
<1>1. ASSUME NEW p \in Switches \cup Statuses
      PROVE  /\ IsList(DiffSnapshots(prev, new))
             /\ Tells(DiffSnapshots(prev, new), p, ValueOf(prev, p), ValueOf(new, p))
  <2> PICK old : old = ValueOf(prev, p)
    OBVIOUS
  <2> PICK now : now = ValueOf(new, p)
    OBVIOUS
  <2> DEFINE C(s, Q) == Covers(s, Q, p, old, now)
             Q1 == Elements(SecurityBaseline \o FirewallProfiles)
             s1 == Changes("SecurityBaseline", SecurityBaseline \o FirewallProfiles, prev, new)
             s2 == Changes("Firmware", Firmware, prev, new)
             s3 == Changes("TPM", TPM, prev, new)
             s4 == Changes("Processor", Processor, prev, new)
             s5 == AdminChanges(prev, new)
             s6 == Changes("UserAccess", Access, prev, new)
             s7 == Changes("Hardware", Hardware, prev, new)
             s8 == AdapterChanges(prev, new)
             s9 == SoftwareChanges(prev, new)
  <2>1. /\ p \notin OnlyIfKnown /\ p \notin Lists
        /\ Distinct(SecurityBaseline \o FirewallProfiles) /\ Distinct(Firmware) /\ Distinct(TPM)
        /\ Distinct(Processor) /\ Distinct(Access) /\ Distinct(Hardware)
    BY ToldProperties, FirmwareProperties, TPMProperties, ProcessorProperties, AccessProperties,
       HardwareProperties
  <2>2. /\ C(s1, Q1) /\ C(s2, Elements(Firmware)) /\ C(s3, Elements(TPM))
        /\ C(s4, Elements(Processor)) /\ C(s6, Elements(Access)) /\ C(s7, Elements(Hardware))
    BY <2>1, ChangesCover
  <2>3. C(s5, {}) /\ C(s8, {}) /\ C(s9, {})
    <3>1. \A x, y, z, a, b : \A q \in Lists : C(When(x, Event(y, q, z, a, b)), {})
      BY <2>1, WhenCovers
    <3>2. {} \cup {} = {} /\ p \notin {} \cap {}
      OBVIOUS
    <3>3. Lists = {"admins.added", "admins.removed", "network.adapters",
                   "applications.installed", "applications.uninstalled"}
      BY DEF Lists
    <3>4. C(s8, {})
      BY <3>1, <3>3 DEF AdapterChanges
    <3>5. C(s5, {})
      <4> DEFINE added == new.admins \ prev.admins
                 removed == prev.admins \ new.admins
                 a == When(added # {}, Event("UserAccess", "admins.added", "CRITICAL",
                                             prev.admins, new.admins))
                 b == When(added = {} /\ removed # {},
                           Event("UserAccess", "admins.removed", "INFO", prev.admins, new.admins))
      <4>1. C(a, {}) /\ C(b, {})
        BY <3>1, <3>3
      <4>2. s5 = a \o b
        BY DEF AdminChanges
      <4> HIDE DEF a, b, s5
      <4> QED
        BY <3>2, <4>1, <4>2, CoversTogether
    <3>6. C(s9, {})
      <4> DEFINE a == When(new.apps \ prev.apps # {},
                           Event("Software", "applications.installed", "INFO",
                                 {}, new.apps \ prev.apps))
                 b == When(prev.apps \ new.apps # {},
                           Event("Software", "applications.uninstalled", "INFO",
                                 prev.apps \ new.apps, {}))
      <4>1. C(a, {}) /\ C(b, {})
        BY <3>1, <3>3
      <4>2. s9 = a \o b
        BY DEF SoftwareChanges
      <4> HIDE DEF a, b, s9
      <4> QED
        BY <3>2, <4>1, <4>2, CoversTogether
    <3> QED
      BY <3>4, <3>5, <3>6
  <2>4. DiffSnapshots(prev, new) = s1 \o s2 \o s3 \o s4 \o s5 \o s6 \o s7 \o s8 \o s9
    BY DEF DiffSnapshots
  <2> PICK Q : Q = Q1 OBVIOUS
  <2> PICK Fi : Fi = Elements(Firmware) OBVIOUS
  <2> PICK Tp : Tp = Elements(TPM) OBVIOUS
  <2> PICK Pr : Pr = Elements(Processor) OBVIOUS
  <2> PICK Ac : Ac = Elements(Access) OBVIOUS
  <2> PICK Ha : Ha = Elements(Hardware) OBVIOUS
  <2>5. /\ p \notin Ha
        /\ p \in Q \/ p \in Fi \/ p \in Tp \/ p \in Pr \/ p \in Ac
        /\ p \in Q => p \notin Fi /\ p \notin Tp /\ p \notin Pr /\ p \notin Ac
        /\ p \in Fi => p \notin Tp /\ p \notin Pr /\ p \notin Ac
        /\ p \in Tp => p \notin Pr /\ p \notin Ac
        /\ p \in Pr => p \notin Ac
    BY ToldProperties
  <2>6. /\ C(s1, Q) /\ C(s2, Fi) /\ C(s3, Tp) /\ C(s4, Pr) /\ C(s5, {}) /\ C(s6, Ac)
        /\ C(s7, Ha) /\ C(s8, {}) /\ C(s9, {})
    BY <2>2, <2>3
  <2> HIDE DEF s1, s2, s3, s4, s5, s6, s7, s8, s9
  <2>7. C(s1 \o s2, Q \cup Fi)
    BY <2>5, <2>6, CoversTogether
  <2>8. C(s1 \o s2 \o s3, Q \cup Fi \cup Tp)
    BY <2>5, <2>6, <2>7, CoversTogether
  <2>9. C(s1 \o s2 \o s3 \o s4, Q \cup Fi \cup Tp \cup Pr)
    BY <2>5, <2>6, <2>8, CoversTogether
  <2>10. C(s1 \o s2 \o s3 \o s4 \o s5, Q \cup Fi \cup Tp \cup Pr \cup {})
    BY <2>6, <2>9, CoversTogether
  <2>11. C(s1 \o s2 \o s3 \o s4 \o s5 \o s6, Q \cup Fi \cup Tp \cup Pr \cup {} \cup Ac)
    BY <2>5, <2>6, <2>10, CoversTogether
  <2>12. C(s1 \o s2 \o s3 \o s4 \o s5 \o s6 \o s7,
           Q \cup Fi \cup Tp \cup Pr \cup {} \cup Ac \cup Ha)
    BY <2>5, <2>6, <2>11, CoversTogether
  <2>13. C(s1 \o s2 \o s3 \o s4 \o s5 \o s6 \o s7 \o s8,
           Q \cup Fi \cup Tp \cup Pr \cup {} \cup Ac \cup Ha \cup {})
    BY <2>6, <2>12, CoversTogether
  <2>14. C(s1 \o s2 \o s3 \o s4 \o s5 \o s6 \o s7 \o s8 \o s9,
           Q \cup Fi \cup Tp \cup Pr \cup {} \cup Ac \cup Ha \cup {} \cup {})
    BY <2>6, <2>13, CoversTogether
  <2> QED
    BY <2>4, <2>5, <2>14 DEF Covers
<1>2. "vbs_status" \in Switches \cup Statuses
  BY ProcessorProperties DEF Statuses
<1> QED
  BY <1>1, <1>2

-----------------------------------------------------------------------------
(* A snapshot is processed *)

Found(h, s) ==
  IF latest[h] = "" THEN << >> ELSE DiffSnapshots(Payload[latest[h]], Payload[s])

(* The events that are found follow those that there were. *)
Follow(found, h) ==
  /\ IsList(found) /\ Len(found) \in Nat /\ DOMAIN found = 1..Len(found)
  /\ Len(driftEvents) \in Nat /\ DOMAIN driftEvents = 1..Len(driftEvents)
  /\ IsList(driftEvents') /\ Len(driftEvents') = Len(driftEvents) + Len(found)
  /\ DOMAIN driftEvents' = 1..(Len(driftEvents) + Len(found))
  /\ \A i \in DOMAIN driftEvents : driftEvents'[i] = driftEvents[i]
  /\ \A i \in DOMAIN found :
       LET e == driftEvents'[Len(driftEvents) + i] IN
       /\ e.host = h /\ e.property = found[i].property
       /\ e.baseline = found[i].baseline /\ e.current = found[i].current

LEMMA EventsFollow ==
  ASSUME IsList(driftEvents), NEW c \in Call, NEW h \in DaHost, NEW s \in DOMAIN Payload,
         ProcessSnapshot(c, h, s)
  PROVE  Follow(Found(h, s), h)
<1>1. PICK found : found = Found(h, s)
  OBVIOUS
<1>2. IsList(found)
  BY <1>1, ShortLists, DifferenceTells DEF Found
<1>3. Len(found) \in Nat /\ DOMAIN found = 1..Len(found)
  BY <1>2, ListDomain
<1>4. PICK new : new = [i \in DOMAIN found |-> Detected(h, found[i])]
  OBVIOUS
<1>5. IsList(new) /\ Len(new) = Len(found) /\ DOMAIN new = DOMAIN found
  <2>1. new = [i \in DOMAIN new |-> new[i]] /\ DOMAIN new = DOMAIN found
    BY <1>4
  <2> QED
    BY <1>3, <2>1, MappedList
<1>6. driftEvents' = driftEvents \o new
  BY <1>1, <1>4 DEF ProcessSnapshot, Found
<1>7. Len(driftEvents) \in Nat /\ DOMAIN driftEvents = 1..Len(driftEvents)
  BY ListDomain
<1>8. /\ IsList(driftEvents') /\ Len(driftEvents') = Len(driftEvents) + Len(new)
      /\ DOMAIN driftEvents' = 1..(Len(driftEvents) + Len(new))
      /\ \A i \in DOMAIN driftEvents : driftEvents'[i] = driftEvents[i]
      /\ \A i \in DOMAIN new : driftEvents'[Len(driftEvents) + i] = new[i]
  <2>1. PICK u : u = driftEvents \o new
    OBVIOUS
  <2>2. /\ IsList(u) /\ Len(u) = Len(driftEvents) + Len(new)
        /\ DOMAIN u = 1..(Len(driftEvents) + Len(new))
        /\ \A i \in DOMAIN driftEvents : u[i] = driftEvents[i]
        /\ \A i \in DOMAIN new : u[Len(driftEvents) + i] = new[i]
    <3>1. IsList(new) /\ IsList(driftEvents)
      BY <1>5
    <3> QED
      BY <2>1, <3>1, Concatenated
  <2> QED
    BY <1>6, <2>1, <2>2
<1>9. \A i \in DOMAIN found :
        /\ new[i].host = h /\ new[i].property = found[i].property
        /\ new[i].baseline = found[i].baseline /\ new[i].current = found[i].current
  BY <1>4 DEF Detected
<1> QED
  BY <1>1, <1>2, <1>3, <1>5, <1>7, <1>8, <1>9 DEF Follow

(* With no event there is no call, otherwise one over the new events.      *)
LEMMA CallBegins ==
  ASSUME NEW c \in Call, NEW h \in DaHost, NEW s \in DOMAIN Payload, ProcessSnapshot(c, h, s),
         DOMAIN call = Call, IsList(driftEvents)
  PROVE  \/ call' = call
         \/ \E t : /\ call' = [call EXCEPT ![c] = t] /\ DOMAIN t = Fields /\ t.pc = "evaluating"
                  /\ t.event = Len(driftEvents) + 1
                  /\ t.last = Len(driftEvents) + Len(Found(h, s))
                  /\ t.rules = {} /\ t.rule = "" /\ t.attempt = 0 /\ Len(Found(h, s)) > 0
<1>1. PICK found : found = Found(h, s)
  OBVIOUS
<1>2. Follow(found, h)
  BY <1>1, EventsFollow
<1>3. Len(driftEvents) \in Nat /\ Len(found) \in Nat /\ IsList(found)
  BY <1>2 DEF Follow
<1>4. CASE found = << >>
  BY <1>1, <1>4 DEF ProcessSnapshot, Found
<1>5. CASE found # << >>
  <2>1. PICK t : t = [pc |-> "evaluating", event |-> Len(driftEvents) + 1,
                      last |-> Len(driftEvents) + 1 + Len(found) - 1, cancelled |-> FALSE,
                      rules |-> {}, rule |-> "", attempt |-> 0]
    OBVIOUS
  <2>2. call' = [call EXCEPT ![c] = t]
    BY <1>1, <1>5, <2>1 DEF ProcessSnapshot, Found
  <2>3. /\ DOMAIN t = Fields /\ t.pc = "evaluating" /\ t.event = Len(driftEvents) + 1
        /\ t.last = Len(driftEvents) + 1 + Len(found) - 1 /\ t.rules = {}
        /\ t.rule = "" /\ t.attempt = 0
    BY <2>1 DEF Fields
  <2>4. t.last = Len(driftEvents) + Len(found)
    <3>1. Len(driftEvents) + 1 + Len(found) - 1 = Len(driftEvents) + Len(found)
      BY <1>3
    <3> QED
      BY <2>3, <3>1
  <2>5. Len(found) > 0
    <3>1. Len(found) # 0
      BY <1>3, <1>5, EmptyList
    <3> QED
      BY <1>3, <3>1
  <2> QED
    BY <1>1, <2>2, <2>3, <2>4, <2>5
<1> QED
  BY <1>4, <1>5

LEMMA ProcessStep ==
  ASSUME DaInv, NEW c \in Call, NEW h \in DaHost, NEW s \in DOMAIN Payload,
         ProcessSnapshot(c, h, s)
  PROVE  DaInv'
<1>1. /\ call[c] = NoCall /\ UNCHANGED <<daNow, suppressions, deliveryLogs, verdicts>>
  BY DEF ProcessSnapshot
<1>2. CallsOK /\ VerdictsOK /\ LogsOK /\ WorkOK /\ SuppressionsOK /\ SuppressionIsExact
  BY DEF DaInv
<1>3. IsList(driftEvents) /\ DOMAIN call = Call
  BY <1>2 DEF VerdictsOK, CallsOK
<1>4. PICK n, m : n = Len(driftEvents) /\ m = Len(Found(h, s))
  OBVIOUS
<1>5. /\ n \in Nat /\ m \in Nat /\ IsList(driftEvents') /\ Len(driftEvents') = n + m
      /\ \A e \in 1..n : driftEvents'[e] = driftEvents[e]
  BY <1>3, <1>4, EventsFollow DEF Follow
<1>6. \A e \in 1..n : KeyOf(e)' = KeyOf(e)
  BY <1>5 DEF KeyOf
<1>7. VerdictsOK' /\ LogsOK'
  <2>1. DOMAIN verdicts \in SUBSET ((1..(n + m)) \X Rules)
    <3>1. DOMAIN verdicts \in SUBSET ((1..n) \X Rules)
      BY <1>2, <1>4 DEF VerdictsOK
    <3>2. 1..n \in SUBSET (1..(n + m))
      BY <1>5
    <3> QED
      BY <3>1, <3>2
  <2> QED
    BY <1>1, <1>2, <1>5, <2>1 DEF VerdictsOK, LogsOK
<1>8. \A k \in DOMAIN verdicts : k[1] \in 1..n
  BY <1>2, <1>4 DEF VerdictsOK
<1>9. \A l \in DOMAIN deliveryLogs : l[1] \in 1..n
  BY <1>2, <1>8 DEF LogsOK
<1>10. SuppressionIsExact'
  <2>1. \A k \in DOMAIN verdicts : KeyOf(k[1])' = KeyOf(k[1])
    BY <1>6, <1>8
  <2>2. \A l \in DOMAIN deliveryLogs : KeyOf(l[1])' = KeyOf(l[1])
    BY <1>6, <1>9
  <2> QED
    BY <1>1, <1>2, <2>1, <2>2 DEF SuppressionIsExact
<1>11. \A d \in Active : /\ call[d].event \in 1..n /\ call[d].last \in 1..n
                         /\ call[d].event <= call[d].last /\ d # c
  <2> TAKE d \in Active
  <2>1. CallOK(call[d])
    BY <1>2 DEF CallsOK, Active
  <2>2. /\ call[d].event \in Nat \ {0} /\ call[d].last \in Nat
        /\ call[d].event <= call[d].last /\ call[d].last <= n
    BY <1>4, <2>1 DEF CallOK
  <2> QED
    BY <1>1, <1>5, <2>2 DEF Active
<1>12. \A d \in Active : CallOK(call[d])'
  <2> TAKE d \in Active
  <2>1. CallOK(call[d]) /\ call'[d] = call[d]
    <3>1. call'[d] = call[d]
      <4>1. call' = call \/ \E t : call' = [call EXCEPT ![c] = t]
        BY <1>3, CallBegins
      <4> QED
        BY <1>3, <1>11, <4>1 DEF Active
    <3> QED
      BY <1>2, <3>1 DEF CallsOK, Active
  <2>2. call[d].last <= n + m
    BY <1>5, <1>11
  <2> QED
    BY <1>5, <2>1, <2>2 DEF CallOK
<1>13. CASE call' = call
  <2>1. Active' = Active /\ Delivered' = Delivered
    BY <1>1, <1>13 DEF Active, Delivered
  <2>2. CallsOK'
    BY <1>2, <1>12, <1>13, <2>1 DEF CallsOK, Active
  <2>3. WorkOK'
    BY <1>1, <1>2, <1>13, <2>1 DEF WorkOK
  <2>4. SuppressionsOK'
    <3>1. \A l \in Delivered : KeyOf(l[1])' = KeyOf(l[1])
      BY <1>6, <1>9 DEF Delivered
    <3>2. \A d \in Active : KeyOf(call[d].event)' = KeyOf(call[d].event)
      BY <1>6, <1>11, <1>13
    <3> QED
      BY <1>1, <1>2, <1>13, <2>1, <3>1, <3>2 DEF SuppressionsOK
  <2> QED
    BY <1>7, <1>10, <2>2, <2>3, <2>4 DEF DaInv
<1>14. CASE call' # call
  <2>1. PICK t : /\ call' = [call EXCEPT ![c] = t] /\ DOMAIN t = Fields /\ t.pc = "evaluating"
                 /\ t.event = n + 1 /\ t.last = n + m /\ t.rules = {}
                 /\ t.rule = "" /\ t.attempt = 0 /\ m > 0
    <3>1. \E t : /\ call' = [call EXCEPT ![c] = t] /\ DOMAIN t = Fields /\ t.pc = "evaluating"
                /\ t.event = Len(driftEvents) + 1
                /\ t.last = Len(driftEvents) + Len(Found(h, s))
                /\ t.rules = {} /\ t.rule = "" /\ t.attempt = 0 /\ Len(Found(h, s)) > 0
      BY <1>3, <1>14, CallBegins
    <3> QED
      BY <1>4, <3>1
  <2>2. /\ call'[c] = t /\ \A d \in Call : d # c => call'[d] = call[d]
    BY <1>3, <2>1
  <2>3. CallOK(t)'
    <3>1. t.event \in Nat \ {0} /\ t.last \in Nat /\ t.event <= t.last /\ t.last <= n + m
      <4>1. n + 1 \in Nat \ {0} /\ n + m \in Nat /\ n + 1 <= n + m /\ n + m <= n + m
        <5>1. m > 0
          BY <2>1
        <5> QED
          BY <1>5, <5>1
      <4> QED
        BY <2>1, <4>1
    <3>2. 0 \in 0..MaxAttempts
      BY SomeAttempts
    <3> QED
      BY <1>5, <2>1, <3>1, <3>2 DEF CallOK
  <2>4. t # NoCall
    BY <2>1, NoCallIsNone
  <2>5. Active' = Active \cup {c} /\ Delivered' = Delivered
    BY <1>1, <2>2, <2>4 DEF Active, Delivered
  <2>6. \A d \in Active : call'[d] = call[d]
    BY <1>11, <2>2 DEF Active
  <2>7. CallsOK'
    <3>1. \A d \in Call : call'[d] = NoCall \/ CallOK(call[d])'
      BY <1>12, <2>2, <2>3 DEF Active
    <3>2. \A d, e \in Call : d # e /\ call'[d] # NoCall /\ call'[e] # NoCall =>
            call'[d].last < call'[e].event \/ call'[e].last < call'[d].event
      <4>1. \A d \in Active : call[d].last < t.event
        <5>1. \A x \in 1..n : x < n + 1
          BY <1>5
        <5> QED
          BY <1>11, <2>1, <5>1
      <4>2. \A d \in Call : call'[d] # NoCall => d = c \/ d \in Active
        BY <2>2 DEF Active
      <4>3. \A d, e \in Active :
              d # e => call[d].last < call[e].event \/ call[e].last < call[d].event
        BY <1>2 DEF CallsOK, Active
      <4> QED
        BY <2>2, <2>6, <4>1, <4>2, <4>3
    <3> QED
      BY <1>3, <2>1, <3>1, <3>2 DEF CallsOK
  <2>8. WorkOK'
    <3>1. Unlogged(t) = {}
      <4>1. t.rules \cup {} = {}
        BY <2>1
      <4> QED
        BY <2>1, <4>1 DEF Unlogged
    <3>2. \A k \in DOMAIN verdicts : k[1] \notin Pending(t)
      <4>1. Pending(t) = (n + 1)..(n + m)
        BY <2>1 DEF Pending
      <4>2. \A x \in 1..n : x \notin (n + 1)..(n + m)
        BY <1>5
      <4> QED
        BY <1>8, <4>1, <4>2
    <3>3. \A d \in Active' :
            /\ \A k \in DOMAIN verdicts : k[1] \notin Pending(call'[d])
            /\ \A k \in Unlogged(call'[d]) :
                 k \in DOMAIN verdicts /\ verdicts[k].matched /\ k \notin DOMAIN deliveryLogs
      BY <1>2, <2>2, <2>5, <2>6, <3>1, <3>2 DEF WorkOK
    <3>4. \A k \in DOMAIN verdicts :
            verdicts[k].matched /\ k \notin DOMAIN deliveryLogs =>
              \E d \in Active' : k \in Unlogged(call'[d])
      BY <1>2, <2>5, <2>6 DEF WorkOK
    <3> QED
      BY <1>1, <3>3, <3>4 DEF WorkOK
  <2>9. SuppressionsOK'
    <3>1. \A l \in Delivered : KeyOf(l[1])' = KeyOf(l[1])
      BY <1>6, <1>9 DEF Delivered
    <3>2. \A d \in Active : KeyOf(call[d].event)' = KeyOf(call[d].event)
      <4> TAKE d \in Active
      <4>1. call'[d] = call[d] /\ call[d].event \in 1..n
        BY <1>11, <2>6
      <4> QED
        BY <1>5, <4>1 DEF KeyOf
    <3>3. t.pc # "marking"
      BY <2>1
    <3>4. \A d \in Active' : call'[d].pc = "marking" => d \in Active
      BY <2>2, <2>5, <3>3
    <3> QED
      BY <1>1, <1>2, <2>5, <2>6, <3>1, <3>2, <3>4 DEF SuppressionsOK
  <2> QED
    BY <1>7, <1>10, <2>7, <2>8, <2>9 DEF DaInv
<1> QED
  BY <1>13, <1>14

-----------------------------------------------------------------------------
(* Every match is logged, and suppression is exact *)

LEMMA DaStarts == DaInit => DaInv
<1> SUFFICES ASSUME DaInit PROVE DaInv
  OBVIOUS
<1>1. /\ DOMAIN driftEvents = {} /\ IsList(driftEvents) /\ Len(driftEvents) = 0
      /\ DOMAIN verdicts = {} /\ DOMAIN deliveryLogs = {} /\ DOMAIN suppressions = {}
  BY ShortLists DEF DaInit
<1>2. daNow \in Nat /\ Active = {} /\ DOMAIN call = Call /\ \A c \in Call : call[c] = NoCall
  BY DEF DaInit, Active
<1>3. Delivered = {}
  BY <1>1 DEF Delivered
<1>4. CallsOK
  BY <1>2 DEF CallsOK
<1>5. VerdictsOK /\ LogsOK
  BY <1>1, <1>2 DEF VerdictsOK, LogsOK
<1>6. WorkOK /\ SuppressionsOK
  BY <1>1, <1>2, <1>3 DEF WorkOK, SuppressionsOK
<1>7. SuppressionIsExact
  BY <1>1 DEF SuppressionIsExact
<1> QED
  BY <1>4, <1>5, <1>6, <1>7 DEF DaInv

LEMMA DaHolds == DaInv /\ [DaNext]_daVars => DaInv'
<1> SUFFICES ASSUME DaInv, [DaNext]_daVars PROVE DaInv'
  OBVIOUS
<1>1. CASE UNCHANGED daVars
  <2>1. UNCHANGED <<daNow, driftEvents, suppressions, deliveryLogs, call, verdicts>>
    BY <1>1 DEF daVars
  <2>2. CallsOK' /\ VerdictsOK' /\ LogsOK'
    BY <2>1 DEF DaInv, CallsOK, CallOK, VerdictsOK, LogsOK
  <2>3. WorkOK'
    BY <2>1 DEF DaInv, WorkOK, Active
  <2>4. SuppressionsOK'
    BY <2>1 DEF DaInv, SuppressionsOK, Active, Delivered, KeyOf
  <2>5. SuppressionIsExact'
    BY <2>1 DEF DaInv, SuppressionIsExact, KeyOf
  <2> QED
    BY <2>2, <2>3, <2>4, <2>5 DEF DaInv
<1>2. CASE DaTick
  BY <1>2, TickStep
<1>3. ASSUME NEW c \in Call, Alerting(c) PROVE DaInv'
  <2>1. CASE EvaluateRules(c)
    BY <2>1, EvaluateStep
  <2>2. CASE DispatchBegins(c)
    BY <2>2, DispatchStep
  <2>3. CASE DeliverySucceeds(c)
    BY <2>3, SuccessStep
  <2>4. CASE DeliveryFails(c)
    BY <2>4, RetryStep, FailureStep
  <2>5. CASE DeliveryIsMarked(c)
    BY <2>5, MarkStep
  <2>6. CASE EventIsDone(c)
    BY <2>6, DoneStep
  <2>7. CASE CallerCancels(c)
    BY <2>7, CancelStep
  <2> QED
    BY <1>3, <2>1, <2>2, <2>3, <2>4, <2>5, <2>6, <2>7 DEF Alerting
<1>4. ASSUME NEW c \in Call, NEW h \in DaHost, NEW s \in DOMAIN Payload, ProcessSnapshot(c, h, s)
      PROVE  DaInv'
  BY <1>4, ProcessStep
<1> QED
  BY <1>1, <1>2, <1>3, <1>4 DEF DaNext

LEMMA DaAlways == DaSpec => []DaInv
  BY DaStarts, DaHolds, PTL DEF DaSpec

(* When no call is under way, every rule that matched an event has its     *)
(* delivery log, and a failed one was tried MaxAttempts times: whatever    *)
(* contexts are cancelled, and whatever other calls do in between          *)
(* (EvaluateRules, Dispatch and SaveDeliveryLog).                          *)
THEOREM MatchesAreLogged == DaSpec => []EveryMatchIsLogged
<1>1. DaInv => EveryMatchIsLogged
  <2> SUFFICES ASSUME DaInv, \A c \in Call : call[c] = NoCall, NEW k \in DOMAIN verdicts
               PROVE  /\ verdicts[k].matched <=> k \in DOMAIN deliveryLogs
                      /\ verdicts[k].matched /\ deliveryLogs[k].status = "FAILED" =>
                           deliveryLogs[k].attempts = MaxAttempts
    BY DEF EveryMatchIsLogged
  <2>1. Active = {}
    BY DEF Active
  <2>2. verdicts[k].matched => k \in DOMAIN deliveryLogs
    BY <2>1 DEF DaInv, WorkOK
  <2>3. k \in DOMAIN deliveryLogs =>
          /\ verdicts[k].matched
          /\ deliveryLogs[k].status = "FAILED" => deliveryLogs[k].attempts = MaxAttempts
    BY DEF DaInv, LogsOK
  <2> QED
    BY <2>2, <2>3
<1> QED
  BY <1>1, DaAlways, PTL

(* An alert is held back exactly when one for the same host and property   *)
(* was delivered within the rule's window, but for deliveries of the very  *)
(* hour; a delivery that failed holds back nothing (isSuppressed against   *)
(* MarkAlertDispatched, with calls side by side).                          *)
THEOREM SuppressionHolds == DaSpec => []SuppressionIsExact
<1>1. DaInv => SuppressionIsExact
  BY DEF DaInv
<1> QED
  BY <1>1, DaAlways, PTL

-----------------------------------------------------------------------------
(* The drift log is up to date *)

Told == Switches \cup Statuses

About(h, p) == {i \in DOMAIN driftEvents : driftEvents[i].host = h /\ driftEvents[i].property = p}

(* The newest event about a property tells its value, and of two that      *)
(* follow each other the later begins where the earlier ended.             *)
HistoryOf(h, p) ==
  /\ About(h, p) # {} => latest[h] # ""
  /\ \A i \in About(h, p) :
       (\A j \in About(h, p) : j <= i) =>
         driftEvents[i].current = ValueOf(Payload[latest[h]], p)
  /\ \A i, j \in About(h, p) :
       i < j /\ (\A k \in About(h, p) : k <= i \/ j <= k) =>
         driftEvents[i].current = driftEvents[j].baseline

HistoryOK ==
  /\ IsList(driftEvents) /\ DOMAIN latest = DaHost
  /\ \A h \in DaHost, p \in Told : HistoryOf(h, p)

LEMMA HistoryStarts == DaInit => HistoryOK
<1> SUFFICES ASSUME DaInit PROVE HistoryOK
  OBVIOUS
<1>1. DOMAIN driftEvents = {} /\ IsList(driftEvents) /\ DOMAIN latest = DaHost
  BY ShortLists DEF DaInit
<1>2. \A h, p : About(h, p) = {}
  BY <1>1 DEF About
<1> QED
  BY <1>1, <1>2 DEF HistoryOK, HistoryOf

(* A host whose property has no new event. *)
LEMMA HistoryStays ==
  ASSUME NEW h, NEW p, HistoryOf(h, p), About(h, p)' = About(h, p),
         \A i \in About(h, p) : driftEvents'[i] = driftEvents[i],
         About(h, p) # {} => latest'[h] # "" /\
           ValueOf(Payload[latest'[h]], p) = ValueOf(Payload[latest[h]], p)
  PROVE  HistoryOf(h, p)'
  BY DEF HistoryOf

LEMMA HistoryGrows ==
  ASSUME HistoryOK, NEW c \in Call, NEW h \in DaHost, NEW s \in DOMAIN Payload,
         ProcessSnapshot(c, h, s)
  PROVE  HistoryOK'
<1>1. IsList(driftEvents) /\ DOMAIN latest = DaHost
  BY DEF HistoryOK
<1>2. PICK found : found = Found(h, s)
  OBVIOUS
<1>3. PICK n : n = Len(driftEvents)
  OBVIOUS
<1>4. Follow(found, h)
  BY <1>1, <1>2, EventsFollow
<1>5. /\ n \in Nat /\ DOMAIN driftEvents = 1..n /\ IsList(driftEvents')
      /\ Len(found) \in Nat /\ DOMAIN found = 1..Len(found)
      /\ DOMAIN driftEvents' = 1..(n + Len(found))
      /\ \A i \in 1..n : driftEvents'[i] = driftEvents[i]
  BY <1>3, <1>4 DEF Follow
<1>6. \A i \in DOMAIN found :
        /\ driftEvents'[n + i].host = h
        /\ driftEvents'[n + i].property = found[i].property
        /\ driftEvents'[n + i].baseline = found[i].baseline
        /\ driftEvents'[n + i].current = found[i].current
  BY <1>3, <1>4 DEF Follow
<1>7. \A i \in DOMAIN driftEvents' : i \in 1..n \/ \E m \in DOMAIN found : i = n + m
  <2> TAKE i \in DOMAIN driftEvents'
  <2>1. i \in Nat /\ (i \in 1..n \/ i - n \in 1..Len(found)) /\ i = n + (i - n)
    BY <1>5
  <2> QED
    BY <1>5, <2>1
<1>8. \A m \in DOMAIN found : n + m \in DOMAIN driftEvents' /\ \A i \in 1..n : i < n + m
  BY <1>5
<1>9. /\ latest'[h] = s /\ s # "" /\ DOMAIN latest' = DaHost
      /\ \A g \in DaHost : g # h => latest'[g] = latest[g]
  <2>1. latest' = [latest EXCEPT ![h] = s]
    BY DEF ProcessSnapshot
  <2>2. "" \notin DOMAIN Payload
    BY DriftAssumption
  <2> QED
    BY <1>1, <2>1, <2>2
<1>10. ASSUME NEW g \in DaHost, NEW p \in Told PROVE HistoryOf(g, p)'
  <2>1. HistoryOf(g, p)
    BY DEF HistoryOK
  <2>2. PICK A : A = About(g, p)
    OBVIOUS
  <2>3. A \in SUBSET (1..n)
    BY <1>5, <2>2 DEF About
  <2>4. CASE g # h \/ Silent(found, p)
    <3>1. \A m \in DOMAIN found : n + m \notin About(g, p)'
      BY <1>6, <2>4 DEF About, Silent
    <3>2. About(g, p)' = A
      <4>1. About(g, p)' \subseteq A
        BY <1>5, <1>7, <2>2, <3>1 DEF About
      <4>2. 1..n \in SUBSET (1..(n + Len(found)))
        BY <1>5
      <4>3. A \subseteq About(g, p)'
        BY <1>5, <2>2, <4>2 DEF About
      <4> QED
        BY <4>1, <4>3
    <3>3. A # {} => latest'[g] # "" /\
            ValueOf(Payload[latest'[g]], p) = ValueOf(Payload[latest[g]], p)
      <4> SUFFICES ASSUME A # {} PROVE latest'[g] # "" /\
            ValueOf(Payload[latest'[g]], p) = ValueOf(Payload[latest[g]], p)
        OBVIOUS
      <4>1. latest[g] # ""
        BY <2>1, <2>2 DEF HistoryOf
      <4>2. CASE g # h
        BY <1>9, <4>1, <4>2
      <4>3. CASE g = h
        <5>1. found = DiffSnapshots(Payload[latest[h]], Payload[s])
          BY <1>2, <4>1, <4>3 DEF Found
        <5>2. Tells(found, p, ValueOf(Payload[latest[h]], p), ValueOf(Payload[s], p))
          BY <5>1, DifferenceTells DEF Told
        <5>3. ValueOf(Payload[latest[h]], p) = ValueOf(Payload[s], p)
          BY <2>4, <4>3, <5>2 DEF Tells
        <5> QED
          BY <1>9, <4>3, <5>3
      <4> QED
        BY <4>2, <4>3
    <3>4. \A i \in A : driftEvents'[i] = driftEvents[i]
      BY <1>5, <2>3
    <3> QED
      BY <2>1, <2>2, <3>2, <3>3, <3>4, HistoryStays
  <2>5. CASE g = h /\ ~Silent(found, p)
    <3>1. latest[h] # "" /\ found = DiffSnapshots(Payload[latest[h]], Payload[s])
      <4>1. CASE latest[h] = ""
        <5>1. found = << >> /\ DOMAIN << >> = {}
          BY <1>2, <4>1, ShortLists DEF Found
        <5> QED
          BY <2>5, <5>1 DEF Silent
      <4>2. CASE latest[h] # ""
        BY <1>2, <4>2 DEF Found
      <4> QED
        BY <4>1, <4>2
    <3>2. PICK old, new : old = ValueOf(Payload[latest[h]], p) /\ new = ValueOf(Payload[s], p)
      OBVIOUS
    <3>3. Tells(found, p, old, new)
      BY <3>1, <3>2, DifferenceTells DEF Told
    <3>4. PICK m \in DOMAIN found : found[m].property = p
      BY <2>5 DEF Silent
    <3>5. /\ found[m].baseline = old /\ found[m].current = new
          /\ \A i \in DOMAIN found : found[i].property = p => i = m
      BY <3>3, <3>4 DEF Tells
    <3>6. PICK last : last = n + m
      OBVIOUS
    <3>7. About(g, p)' = A \cup {last}
      <4>1. \A i \in 1..n : i \in DOMAIN driftEvents'
        BY <1>5
      <4>2. A \cup {last} \subseteq About(g, p)'
        BY <1>5, <1>6, <1>8, <2>2, <2>3, <2>5, <3>4, <3>6, <4>1 DEF About
      <4>3. About(g, p)' \subseteq A \cup {last}
        <5> SUFFICES ASSUME NEW i \in About(g, p)' PROVE i \in A \cup {last}
          OBVIOUS
        <5>1. i \in DOMAIN driftEvents' /\ driftEvents'[i].host = g /\ driftEvents'[i].property = p
          BY DEF About
        <5>2. CASE i \in 1..n
          BY <1>5, <2>2, <5>1, <5>2 DEF About
        <5>3. CASE i \notin 1..n
          <6>1. PICK k \in DOMAIN found : i = n + k
            BY <1>7, <5>1, <5>3
          <6>2. found[k].property = p
            BY <1>6, <5>1, <6>1
          <6> QED
            BY <3>5, <3>6, <6>1, <6>2
        <5> QED
          BY <5>2, <5>3
      <4> QED
        BY <4>2, <4>3
    <3>8. /\ driftEvents'[last].baseline = old /\ driftEvents'[last].current = new
          /\ \A i \in A : driftEvents'[i] = driftEvents[i] /\ i < last /\ i \in Nat
          /\ last \in Nat
      BY <1>5, <1>6, <1>8, <2>3, <3>4, <3>5, <3>6
    <3>9. \A i \in A : (\A j \in A : j <= i) => driftEvents[i].current = old
      BY <2>1, <2>2, <2>5, <3>2 DEF HistoryOf
    <3>10. \A i, j \in A : i < j /\ (\A k \in A : k <= i \/ j <= k) =>
             driftEvents[i].current = driftEvents[j].baseline
      BY <2>1, <2>2 DEF HistoryOf
    <3>11. latest'[g] # "" /\ ValueOf(Payload[latest'[g]], p) = new
      BY <1>9, <2>5, <3>2
    <3>12. \A i \in A \cup {last} :
             (\A j \in A \cup {last} : j <= i) => driftEvents'[i].current = new
      <4>1. \A i \in A : ~(last <= i)
        BY <3>8
      <4> QED
        BY <3>8, <4>1
    <3>13. \A i, j \in A \cup {last} :
             i < j /\ (\A k \in A \cup {last} : k <= i \/ j <= k) =>
               driftEvents'[i].current = driftEvents'[j].baseline
      <4> SUFFICES ASSUME NEW i \in A \cup {last}, NEW j \in A \cup {last}, i < j,
                          \A k \in A \cup {last} : k <= i \/ j <= k
                   PROVE  driftEvents'[i].current = driftEvents'[j].baseline
        OBVIOUS
      <4>1. i \in A
        <5>1. ~(last < last) /\ \A x \in A : ~(last < x)
          BY <3>8
        <5> QED
          BY <5>1
      <4>2. CASE j \in A
        BY <3>8, <3>10, <4>1, <4>2
      <4>3. CASE j = last
        <5>1. \A k \in A : k <= i
          <6> TAKE k \in A
          <6>1. ~(last <= k)
            BY <3>8
          <6> QED
            BY <4>3, <6>1
        <5>2. driftEvents[i].current = old
          BY <3>9, <4>1, <5>1
        <5> QED
          BY <3>8, <4>1, <4>3, <5>2
      <4> QED
        BY <4>2, <4>3
    <3> QED
      BY <3>7, <3>11, <3>12, <3>13 DEF HistoryOf
  <2> QED
    BY <2>4, <2>5
<1> QED
  BY <1>5, <1>9, <1>10 DEF HistoryOK

LEMMA HistoryHolds == HistoryOK /\ [DaNext]_daVars => HistoryOK'
<1> SUFFICES ASSUME HistoryOK, [DaNext]_daVars PROVE HistoryOK'
  OBVIOUS
<1>1. CASE UNCHANGED <<driftEvents, latest>>
  <2>1. \A h, p : About(h, p)' = About(h, p)
    BY <1>1 DEF About
  <2>2. \A h \in DaHost, p \in Told : HistoryOf(h, p)'
    <3> TAKE h \in DaHost, p \in Told
    <3>1. HistoryOf(h, p)
      BY DEF HistoryOK
    <3>2. About(h, p) # {} => latest[h] # ""
      BY <3>1 DEF HistoryOf
    <3> QED
      BY <1>1, <2>1, <3>1, <3>2, HistoryStays
  <2> QED
    BY <1>1, <2>2 DEF HistoryOK
<1>2. ASSUME NEW c \in Call, NEW h \in DaHost, NEW s \in DOMAIN Payload, ProcessSnapshot(c, h, s)
      PROVE  HistoryOK'
  BY <1>2, HistoryGrows
<1>3. ASSUME NEW c \in Call, Alerting(c) PROVE UNCHANGED <<driftEvents, latest>>
  BY <1>3 DEF Alerting, EvaluateRules, DispatchBegins, DeliverySucceeds, DeliveryFails,
     DeliveryIsMarked, EventIsDone, CallerCancels
<1>4. UNCHANGED daVars => UNCHANGED <<driftEvents, latest>>
  BY DEF daVars
<1>5. DaTick => UNCHANGED <<driftEvents, latest>>
  BY DEF DaTick
<1> QED
  BY <1>1, <1>2, <1>3, <1>4, <1>5 DEF DaNext

(* Events, the newest first. *)
LEMMA NewestInOrder ==
  ASSUME NEW P, NEW n \in Nat, P \in SUBSET (1..n)
  PROVE  Enumerates(InOrder(P, DetectedAfter), P, [x \in P |-> {y \in P : y > x}])
<1> DEFINE before == [x \in P |-> {y \in P : y > x}]
           at == InOrder(P, DetectedAfter)
<1>1. IsFiniteSet(P) /\ P \in SUBSET Nat
  <2>1. IsFiniteSet(1..n)
    BY FS_Interval
  <2>2. IsFiniteSet(P)
    BY <2>1, FS_Subset
  <2> QED
    BY <2>2
<1>2. OrdersAll(P, before)
  <2>1. \A x, y \in P : x = y \/ x \in before[y] \/ y \in before[x]
    BY <1>1
  <2>2. \A x \in P : x \notin before[x] /\ \A y \in before[x] : before[y] \subseteq before[x]
    <3> TAKE x \in P
    <3>1. \A y \in P : y > x => \A z \in P : z > y => z > x
      BY <1>1
    <3>2. ~(x > x)
      BY <1>1
    <3> QED
      BY <3>1, <3>2
  <2> QED
    BY <1>1, <2>1, <2>2 DEF OrdersAll
<1>3. \A m \in 1..Cardinality(P) :
        \E x \in P : Cardinality({y \in P : y > x}) = m - 1
  <2> TAKE m \in 1..Cardinality(P)
  <2>1. PICK x \in P : Cardinality(before[x]) = m - 1
    <3> HIDE DEF before
    <3> QED
      BY <1>2, EveryPlaceIsTaken
  <2> QED
    BY <2>1
<1>4. \A m \in 1..Cardinality(P) :
        at[m] \in P /\ Cardinality({y \in P : y > at[m]}) = m - 1
  BY <1>3 DEF InOrder, DetectedAfter
<1>5. at \in [1..Cardinality(P) -> P]
  BY <1>4 DEF InOrder
<1>6. \A m \in 1..Cardinality(P) : Cardinality(before[at[m]]) = m - 1
  BY <1>4
<1> HIDE DEF before, at
<1>7. Enumerates(at, P, before)
  BY <1>2, <1>5, <1>6, PlacedInOrder
<1> QED
  BY <1>7 DEF before, at

LEMMA HistoryIsRead == HistoryOK => DriftLogIsCurrent
<1> SUFFICES ASSUME HistoryOK, NEW h \in DaHost, NEW p \in Told
             PROVE  LET log == QueryDriftEvents(h)
                        about == Filtered(log, {i \in DOMAIN log : log[i].property = p}) IN
                    /\ about # << >> => about[1].current = ValueOf(Payload[latest[h]], p)
                    /\ \A i \in DOMAIN about : i > 1 => about[i].current = about[i - 1].baseline
  BY DEF DriftLogIsCurrent, Told
<1>1. HistoryOf(h, p) /\ IsList(driftEvents)
  BY DEF HistoryOK
<1>2. PICK n \in Nat : DOMAIN driftEvents = 1..n
  BY <1>1, ListDomain
<1>3. PICK H : H = {i \in DOMAIN driftEvents : driftEvents[i].host = h}
  OBVIOUS
<1>4. PICK ids : ids = InOrder(H, DetectedAfter)
  OBVIOUS
<1>5. H \in SUBSET (1..n)
  BY <1>2, <1>3
<1>6. Enumerates(ids, H, [x \in H |-> {y \in H : y > x}])
  BY <1>4, <1>5, NewestInOrder
<1>7. PICK N : N = Cardinality(H)
  OBVIOUS
<1>8. /\ N \in Nat /\ ids \in [1..N -> H] /\ \A x \in H : \E k \in 1..N : ids[k] = x
      /\ \A i, j \in 1..N : i < j <=> ids[i] > ids[j]
  <2>1. /\ N \in Nat /\ ids \in [1..N -> H] /\ \A x \in H : \E k \in 1..N : ids[k] = x
        /\ \A i, j \in 1..N : i < j <=> ids[i] \in [x \in H |-> {y \in H : y > x}][ids[j]]
    BY <1>6, <1>7 DEF Enumerates
  <2>2. \A j \in 1..N : ids[j] \in H
    BY <2>1
  <2> QED
    BY <2>1, <2>2
<1>9. PICK log : log = QueryDriftEvents(h)
  OBVIOUS
<1>10. DOMAIN log = 1..N /\ \A k \in 1..N : log[k] = driftEvents[ids[k]]
  BY <1>3, <1>4, <1>8, <1>9 DEF QueryDriftEvents
<1>11. PICK Q : Q = {i \in DOMAIN log : log[i].property = p}
  OBVIOUS
<1>12. PICK about : about = Filtered(log, Q)
  OBVIOUS
<1>13. Picks(about, log, Q)
  <2>1. Q \in SUBSET (1..N)
    BY <1>10, <1>11
  <2> QED
    BY <1>8, <1>12, <2>1, FilteredList
<1>14. PICK M : M = Cardinality(Q)
  OBVIOUS
<1>15. PICK at : /\ \A i \in DOMAIN about : at[i] \in Q /\ about[i] = log[at[i]]
                 /\ \A x \in Q : \E i \in DOMAIN about : at[i] = x
                 /\ \A i, j \in DOMAIN about : i < j <=> at[i] < at[j]
  BY <1>13 DEF Picks
<1>16. M \in Nat /\ DOMAIN about = 1..M /\ (about # << >> => M > 0)
  <2>1. IsList(about) /\ Len(about) = M /\ M \in Nat /\ DOMAIN about = 1..M
    BY <1>13, <1>14 DEF Picks
  <2>2. about # << >> => M # 0
    BY <2>1, EmptyList
  <2> QED
    BY <2>1, <2>2
<1>17. PICK A : A = About(h, p)
  OBVIOUS
<1>18. PICK pos : pos = [i \in 1..M |-> ids[at[i]]]
  OBVIOUS
<1>19. \A i \in 1..M : /\ at[i] \in 1..N /\ pos[i] = ids[at[i]] /\ pos[i] \in A /\ pos[i] \in Nat
                       /\ about[i] = driftEvents[pos[i]]
  <2> TAKE i \in 1..M
  <2>1. at[i] \in Q /\ about[i] = log[at[i]]
    BY <1>15, <1>16
  <2>2. at[i] \in 1..N /\ log[at[i]].property = p
    BY <1>10, <1>11, <2>1
  <2>3. ids[at[i]] \in H /\ log[at[i]] = driftEvents[ids[at[i]]]
    BY <1>8, <1>10, <2>2
  <2> QED
    BY <1>3, <1>5, <1>17, <1>18, <2>1, <2>2, <2>3 DEF About
<1>20. \A x \in A : \E i \in 1..M : pos[i] = x
  <2> TAKE x \in A
  <2>1. x \in H /\ driftEvents[x].property = p
    BY <1>3, <1>17 DEF About
  <2>2. PICK k \in 1..N : ids[k] = x
    BY <1>8, <2>1
  <2>3. k \in Q
    BY <1>10, <1>11, <2>1, <2>2
  <2>4. PICK i \in 1..M : at[i] = k
    BY <1>15, <1>16, <2>3
  <2> QED
    BY <1>18, <2>2, <2>4
<1>21. \A i, j \in 1..M : i < j <=> pos[i] > pos[j]
  <2> TAKE i \in 1..M, j \in 1..M
  <2>1. i < j <=> at[i] < at[j]
    BY <1>15, <1>16
  <2>2. at[i] < at[j] <=> ids[at[i]] > ids[at[j]]
    BY <1>8, <1>19
  <2> QED
    BY <1>19, <2>1, <2>2
<1>22. about # << >> => about[1].current = ValueOf(Payload[latest[h]], p)
  <2> HAVE about # << >>
  <2>1. 1 \in 1..M
    BY <1>16
  <2>2. \A x \in A : x <= pos[1]
    <3> TAKE x \in A
    <3>1. PICK i \in 1..M : pos[i] = x
      BY <1>20
    <3>2. ~(i < 1)
      BY <1>16
    <3> QED
      BY <1>19, <1>21, <2>1, <3>1, <3>2
  <2> QED
    BY <1>1, <1>17, <1>19, <2>1, <2>2 DEF HistoryOf
<1>23. \A i \in DOMAIN about : i > 1 => about[i].current = about[i - 1].baseline
  <2> SUFFICES ASSUME NEW i \in 1..M, i > 1 PROVE about[i].current = about[i - 1].baseline
    BY <1>16
  <2>1. i - 1 \in 1..M /\ i - 1 < i
    BY <1>16
  <2>2. PICK a, b : a = pos[i] /\ b = pos[i - 1]
    OBVIOUS
  <2>3. a \in A /\ b \in A /\ a < b
    <3>1. b > a
      BY <1>21, <2>1, <2>2
    <3> QED
      BY <1>19, <2>1, <2>2, <3>1
  <2>4. \A x \in A : x <= a \/ b <= x
    <3> TAKE x \in A
    <3>1. PICK j \in 1..M : pos[j] = x
      BY <1>20
    <3>2. ~(j < i) \/ ~(i - 1 < j)
      BY <1>16
    <3>3. j < i <=> x > a
      BY <1>21, <2>2, <3>1
    <3>4. i - 1 < j <=> b > x
      BY <1>21, <2>1, <2>2, <3>1
    <3>5. x \in Nat /\ a \in Nat /\ b \in Nat
      BY <1>19, <2>1, <2>2, <3>1
    <3> QED
      BY <3>2, <3>3, <3>4, <3>5
  <2>5. driftEvents[a].current = driftEvents[b].baseline
    BY <1>1, <1>17, <2>3, <2>4 DEF HistoryOf
  <2>6. about[i] = driftEvents[a] /\ about[i - 1] = driftEvents[b]
    BY <1>19, <2>1, <2>2
  <2> QED
    BY <2>5, <2>6
<1> QED
  BY <1>9, <1>11, <1>12, <1>22, <1>23

(* The drift log of a host, as QueryDriftEvents hands it out, tells the    *)
(* values of its latest snapshot: the newest event of a switch or status   *)
(* ends with its value, and each begins where the one before it ended      *)
(* (DiffSnapshots, SaveDriftEvents and the order of the query).            *)
THEOREM LogTellsThePresent == DaSpec => []DriftLogIsCurrent
<1>1. DaSpec => []HistoryOK
  BY HistoryStarts, HistoryHolds, PTL DEF DaSpec
<1> QED
  BY <1>1, HistoryIsRead, PTL
=============================================================================
