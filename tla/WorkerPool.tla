----------------------------- MODULE WorkerPool -----------------------------
(***************************************************************************)
(* One scan of a collector gateway: BoundedWorkerPool.Execute of           *)
(* apps/gateway/internal/scanner/workerpool.go.  A feeder goroutine puts   *)
(* the targets into tasksCh and closes it, a fixed number of workers probe *)
(* them with retries and backoff and put the results into resultsCh, a     *)
(* collector goroutine closes resultsCh when every worker has returned,    *)
(* and Execute itself drains resultsCh.  The context may be cancelled at   *)
(* any moment.                                                             *)
(*                                                                         *)
(* A probe's error is abstracted to what the pool tells apart, and to what *)
(* it should tell apart: whether the host rejected the credentials         *)
(* (rejected), whether the text of the error contains one of the words     *)
(* isAuthenticationFailure looks for (word), and whether the scanner       *)
(* returned a result next to the error (result).                           *)
(***************************************************************************)
EXTENDS Integers, Sequences, FiniteSets

CONSTANTS
  NumTargets,   \* len(targets)
  Worker,       \* the goroutines, opts.Concurrency many
  MaxRetries,   \* opts.MaxRetries
  TaskBuffer,   \* capacity of tasksCh (1024 in the code)
  ResultBuffer, \* capacity of resultsCh (1024 in the code)
  ProbeErrors,  \* the errors the scanner in use returns
  MayCancel     \* whether the context is ever cancelled

ErrorKind == [rejected : BOOLEAN, word : BOOLEAN, result : BOOLEAN]

ASSUME PoolAssumption ==
  /\ NumTargets \in Nat
  /\ IsFiniteSet(Worker) /\ Worker # {}
  /\ MaxRetries \in Nat
  /\ TaskBuffer \in Nat \ {0}
  /\ ResultBuffer \in Nat \ {0}
  /\ ProbeErrors \subseteq ErrorKind
  /\ MayCancel \in BOOLEAN

Target == 1..NumTargets
NoTarget == 0

VARIABLES
  fed,           \* how many targets the feeder has sent
  feeder,        \* the feeder goroutine: feeding, closed or stopped
  tasksCh,       \* the buffered task channel, closed when feeder = "closed"
  pc,            \* per worker: idle, taken, probing, backoff, sending, exited
  cur,           \* per worker, the target in hand
  attempt,       \* per worker, the loop variable of processTaskWithRetry
  outcome,       \* per worker, the status of the result it is about to send
  resultsCh,     \* the buffered result channel
  resultsClosed, \* closed by the collector goroutine
  results,       \* what Execute has aggregated
  main,          \* Execute itself: collecting or returned
  cancelled,     \* ctx.Done() is closed
  probes,        \* per target, how often scanFn was called
  rejections     \* per target, how often the host rejected the credentials

channels   == <<tasksCh, resultsCh, resultsClosed>>
feederVars == <<fed, feeder>>
workerVars == <<pc, cur, attempt, outcome>>
mainVars   == <<results, main>>
probeVars  == <<probes, rejections>>
vars == <<channels, feederVars, workerVars, mainVars, cancelled, probeVars>>

Statuses == {"online", "error", "auth_error", "offline"}
Result   == [target : Target, status : Statuses]

Init ==
  /\ fed = 0
  /\ feeder = "feeding"
  /\ tasksCh = <<>>
  /\ pc = [w \in Worker |-> "idle"]
  /\ cur = [w \in Worker |-> NoTarget]
  /\ attempt = [w \in Worker |-> 0]
  /\ outcome = [w \in Worker |-> "online"]
  /\ resultsCh = <<>>
  /\ resultsClosed = FALSE
  /\ results = <<>>
  /\ main = "collecting"
  /\ cancelled = FALSE
  /\ probes = [t \in Target |-> 0]
  /\ rejections = [t \in Target |-> 0]

(* NewBoundedWorkerPool and the first lines of Execute, for the next job of *)
(* a gateway: new channels, new goroutines, the context of the gateway.     *)
Launch ==
  /\ fed' = 0
  /\ feeder' = "feeding"
  /\ tasksCh' = <<>>
  /\ pc' = [w \in Worker |-> "idle"]
  /\ cur' = [w \in Worker |-> NoTarget]
  /\ attempt' = [w \in Worker |-> 0]
  /\ outcome' = [w \in Worker |-> "online"]
  /\ resultsCh' = <<>>
  /\ resultsClosed' = FALSE
  /\ results' = <<>>
  /\ main' = "collecting"
  /\ probes' = [t \in Target |-> 0]
  /\ rejections' = [t \in Target |-> 0]

-----------------------------------------------------------------------------
(* The feeder sends the next target.  Its select takes either ready case,  *)
(* so it may still send after the cancellation.                            *)
Feed ==
  /\ feeder = "feeding"
  /\ fed < NumTargets
  /\ Len(tasksCh) < TaskBuffer
  /\ fed' = fed + 1
  /\ tasksCh' = Append(tasksCh, fed + 1)
  /\ UNCHANGED <<feeder, resultsCh, resultsClosed, workerVars, mainVars, cancelled, probeVars>>

(* Fault: the channel is left open after the last target. *)
FeederForgetsClose ==
  /\ feeder = "feeding" /\ fed = NumTargets
  /\ feeder' = "stopped"
  /\ UNCHANGED <<fed, channels, workerVars, mainVars, cancelled, probeVars>>

(* Every target is sent: close(tasksCh). *)
FeederCloses ==
  /\ feeder = "feeding"
  /\ fed = NumTargets
  /\ feeder' = "closed"
  /\ UNCHANGED <<fed, channels, workerVars, mainVars, cancelled, probeVars>>

(* The feeder sees the cancellation and returns without closing tasksCh. *)
FeederStops ==
  /\ feeder = "feeding"
  /\ fed < NumTargets
  /\ cancelled
  /\ feeder' = "stopped"
  /\ UNCHANGED <<fed, channels, workerVars, mainVars, cancelled, probeVars>>

-----------------------------------------------------------------------------
Goto(w, from, to) == pc[w] = from /\ pc' = [pc EXCEPT ![w] = to]

(* for task := range p.tasksCh *)
Receive(w) ==
  /\ tasksCh # <<>>
  /\ Goto(w, "idle", "taken")
  /\ cur' = [cur EXCEPT ![w] = Head(tasksCh)]
  /\ tasksCh' = Tail(tasksCh)
  /\ UNCHANGED <<attempt, outcome, resultsCh, resultsClosed, feederVars, mainVars,
                 cancelled, probeVars>>

(* The range loop ends when the channel is closed and drained. *)
RangeEnds(w) ==
  /\ tasksCh = <<>>
  /\ feeder = "closed"
  /\ Goto(w, "idle", "exited")
  /\ UNCHANGED <<cur, attempt, outcome, channels, feederVars, mainVars, cancelled, probeVars>>

(* A worker that holds a task returns with it if the context is cancelled, *)
(* and starts probing otherwise.                                           *)
Begin(w) ==
  /\ IF cancelled THEN Goto(w, "taken", "exited") ELSE Goto(w, "taken", "probing")
  /\ attempt' = [attempt EXCEPT ![w] = 0]
  /\ UNCHANGED <<cur, outcome, channels, feederVars, mainVars, cancelled, probeVars>>

(* isAuthenticationFailure looks at the text of the error only. *)
isAuthenticationFailure(e) == e.word

(* Fault: one attempt too few. *)
GivesUpEarly(e, n) == isAuthenticationFailure(e) \/ n + 1 >= MaxRetries

(* Whether processTaskWithRetry returns after error e of its n-th attempt. *)
GivesUp(e, n) == isAuthenticationFailure(e) \/ n >= MaxRetries

(* The status of the result processTaskWithRetry returns with error e: the *)
(* scanner's own result if there is one.                                   *)
StatusOf(e) ==
  IF e.result THEN "error" ELSE IF isAuthenticationFailure(e) THEN "auth_error" ELSE "offline"

(* scanFn returns without an error. *)
ProbeSucceeds(w) ==
  /\ Goto(w, "probing", "sending")
  /\ outcome' = [outcome EXCEPT ![w] = "online"]
  /\ probes' = [probes EXCEPT ![cur[w]] = @ + 1]
  /\ UNCHANGED <<cur, attempt, channels, feederVars, mainVars, cancelled, rejections>>

(* scanFn returns error e. *)
ProbeFails(w, e) ==
  /\ IF GivesUp(e, attempt[w])
       THEN /\ Goto(w, "probing", "sending")
            /\ outcome' = [outcome EXCEPT ![w] = StatusOf(e)]
       ELSE Goto(w, "probing", "backoff") /\ UNCHANGED outcome
  /\ probes' = [probes EXCEPT ![cur[w]] = @ + 1]
  /\ rejections' = [rejections EXCEPT ![cur[w]] = IF e.rejected THEN @ + 1 ELSE @]
  /\ UNCHANGED <<cur, attempt, channels, feederVars, mainVars, cancelled>>

(* Fault: the timer ends the attempts instead of starting the next. *)
BackoffGivesUp(w) ==
  /\ Goto(w, "backoff", "idle")
  /\ UNCHANGED <<cur, attempt, outcome, channels, feederVars, mainVars, cancelled, probeVars>>

(* The backoff timer fires: next attempt. *)
BackoffOver(w) ==
  /\ Goto(w, "backoff", "probing")
  /\ attempt' = [attempt EXCEPT ![w] = @ + 1]
  /\ UNCHANGED <<cur, outcome, channels, feederVars, mainVars, cancelled, probeVars>>

(* Cancelled while backing off: a nil result, and the loop goes on. *)
BackoffCancelled(w) ==
  /\ cancelled
  /\ Goto(w, "backoff", "idle")
  /\ UNCHANGED <<cur, attempt, outcome, channels, feederVars, mainVars, cancelled, probeVars>>

(* p.resultsCh <- res *)
SendResult(w) ==
  /\ Len(resultsCh) < ResultBuffer
  /\ Goto(w, "sending", "idle")
  /\ resultsCh' = Append(resultsCh, [target |-> cur[w], status |-> outcome[w]])
  /\ UNCHANGED <<cur, attempt, outcome, tasksCh, resultsClosed, feederVars, mainVars,
                 cancelled, probeVars>>

-----------------------------------------------------------------------------
(* Fault: the collector waits for one worker only. *)
CloseResultsEarly ==
  /\ \E w \in Worker : pc[w] = "exited"
  /\ ~resultsClosed /\ resultsClosed' = TRUE
  /\ UNCHANGED <<tasksCh, resultsCh, feederVars, workerVars, mainVars, cancelled, probeVars>>

(* p.wg.Wait(); close(p.resultsCh) *)
CloseResults ==
  /\ \A w \in Worker : pc[w] = "exited"
  /\ ~resultsClosed
  /\ resultsClosed' = TRUE
  /\ UNCHANGED <<tasksCh, resultsCh, feederVars, workerVars, mainVars, cancelled, probeVars>>

(* for res := range p.resultsCh *)
Collect ==
  /\ main = "collecting"
  /\ resultsCh # <<>>
  /\ results' = Append(results, Head(resultsCh))
  /\ resultsCh' = Tail(resultsCh)
  /\ UNCHANGED <<main, tasksCh, resultsClosed, feederVars, workerVars, cancelled, probeVars>>

Return ==
  /\ main = "collecting"
  /\ resultsCh = <<>>
  /\ resultsClosed
  /\ main' = "returned"
  /\ UNCHANGED <<results, channels, feederVars, workerVars, cancelled, probeVars>>

(* The gateway is told to shut down, cancel() in cmd/gateway/main.go. *)
Cancel ==
  /\ MayCancel
  /\ ~cancelled
  /\ main = "collecting"
  /\ cancelled' = TRUE
  /\ UNCHANGED <<channels, feederVars, workerVars, mainVars, probeVars>>

FeederNext == Feed \/ FeederCloses \/ FeederStops
Probe(w) == ProbeSucceeds(w) \/ \E e \in ProbeErrors : ProbeFails(w, e)
WorkerNext(w) ==
  \/ Receive(w) \/ RangeEnds(w) \/ Begin(w)
  \/ Probe(w)
  \/ BackoffOver(w) \/ BackoffCancelled(w)
  \/ SendResult(w)
MainNext == Collect \/ Return

Next ==
  \/ FeederNext
  \/ \E w \in Worker : WorkerNext(w)
  \/ CloseResults
  \/ MainNext
  \/ Cancel

Spec == Init /\ [][Next]_vars

(* The Go scheduler runs every goroutine that can run; a probe ends within *)
(* TargetTimeout and a timer fires.                                        *)
Fairness ==
  /\ WF_vars(FeederNext)
  /\ \A w \in Worker : WF_vars(WorkerNext(w))
  /\ WF_vars(CloseResults)
  /\ WF_vars(MainNext)

FairSpec == Spec /\ Fairness

-----------------------------------------------------------------------------
(* Every variable stays within its declared range. *)
TypeOK ==
  /\ fed \in 0..NumTargets
  /\ feeder \in {"feeding", "closed", "stopped"}
  /\ tasksCh \in Seq(Target) /\ Len(tasksCh) <= TaskBuffer
  /\ pc \in [Worker -> {"idle", "taken", "probing", "backoff", "sending", "exited"}]
  /\ cur \in [Worker -> Target \cup {NoTarget}]
  /\ attempt \in [Worker -> 0..MaxRetries]
  /\ outcome \in [Worker -> Statuses]
  /\ resultsCh \in Seq(Result) /\ Len(resultsCh) <= ResultBuffer
  /\ resultsClosed \in BOOLEAN
  /\ results \in Seq(Result)
  /\ main \in {"collecting", "returned"}
  /\ cancelled \in BOOLEAN
  /\ probes \in [Target -> Nat]
  /\ rejections \in [Target -> Nat]

Busy(w)    == pc[w] \in {"taken", "probing", "backoff", "sending"}
InHand(t)  == {w \in Worker : Busy(w) /\ cur[w] = t}
Queued(t)  == {i \in DOMAIN tasksCh : tasksCh[i] = t}
Sent(t)    == {i \in DOMAIN resultsCh : resultsCh[i].target = t}
Results(t) == {i \in DOMAIN results : results[i].target = t}

(* How many traces of target t the pool holds, past the feeder. *)
Traces(t) ==
  Cardinality(Queued(t)) + Cardinality(InHand(t)) + Cardinality(Sent(t)) + Cardinality(Results(t))

(* Whatever the interleaving, a target the feeder has sent is in exactly   *)
(* one place: queued, in one worker's hand, sent or collected.  Only a     *)
(* cancellation may drop it, and nothing ever duplicates it, so no host is *)
(* probed by two workers or reported twice.                                *)
NoHostLostOrDoubled ==
  \A t \in Target :
    /\ Traces(t) <= IF t <= fed THEN 1 ELSE 0
    /\ ~cancelled /\ t <= fed => Traces(t) = 1

(* No worker can still send when the collector has closed resultsCh: a     *)
(* send on a closed channel would panic the gateway.                       *)
NoSendAfterClose == resultsClosed => \A w \in Worker : ~Busy(w)

(* A host is reported unreachable only after all its attempts, and is      *)
(* never probed more often than the retry limit allows.                    *)
RetriesAreUsedUp ==
  \A t \in Target :
    /\ probes[t] <= MaxRetries + 1
    /\ \A i \in Results(t) : results[i].status = "offline" => probes[t] = MaxRetries + 1

(* "Never retry 401/403 to prevent Active Directory account lockout" (the  *)
(* comment in processTaskWithRetry): no host rejects the credentials of    *)
(* one scan twice.                                                         *)
OneRejectionPerHost == \A t \in Target : rejections[t] <= 1

(* Execute returns unless the scan is cancelled, and from the moment on    *)
(* the feeder has closed tasksCh it returns whatever is cancelled.         *)
PoolReturns ==
  /\ <>(main = "returned" \/ cancelled)
  /\ feeder = "closed" ~> main = "returned"

(* "Collector Goroutine to wait and close results channel" (the comment in *)
(* Execute): the wait ends and Execute returns, cancelled or not.          *)
ExecuteReturns == <>(main = "returned")
=============================================================================
