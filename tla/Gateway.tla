------------------------------- MODULE Gateway -------------------------------
(***************************************************************************)
(* A collector gateway, apps/gateway/cmd/gateway/main.go: the dispatch     *)
(* loop (poller, orchestrator, worker pool, result streamer), the          *)
(* heartbeat daemon and the shutdown, which share one context.  The scan   *)
(* of a job is the whole of WorkerPool, whose variables this module takes  *)
(* over; a new pool is launched for every job.                             *)
(*                                                                         *)
(* The control plane is external: it hands each job to the gateway once.   *)
(* All HTTP calls of the gateway use the shared context, so that none of   *)
(* them succeeds once it is cancelled.                                     *)
(***************************************************************************)
EXTENDS WorkerPool

CONSTANTS
  Job,          \* jobs the control plane has for this gateway
  NeedsSecret,  \* those with a VaultSecretRef
  ZeroLimit,    \* the cap on consecutiveZero (10 in the code)
  MinInterval,  \* poller.minInterval
  MaxInterval   \* poller.maxInterval

ASSUME GatewayAssumption ==
  /\ NeedsSecret \subseteq Job
  /\ ZeroLimit \in Nat
  /\ MinInterval \in Nat \ {0}
  /\ MaxInterval \in Nat

VARIABLES
  fate,            \* per job: queued, polled, streamed or lost
  loop,            \* dispatch loop: ready, polling, next, scanning, streaming, sleeping, stopped
  todo,            \* jobs of the last poll not taken up yet, in order
  job,             \* the job in hand, or the last one
  consecutiveZero, \* Poller.consecutiveZero
  delay,           \* what NextDelay returned last
  beat,            \* heartbeat daemon: sending, waiting or stopped
  proc             \* main goroutine: running, cancelled, stopping or exited

poolVars == <<channels, feederVars, workerVars, mainVars, probeVars>>
loopVars == <<fate, loop, todo, job, consecutiveZero, delay>>
gwVars   == <<poolVars, cancelled, loopVars, beat, proc>>

Smaller(m, n) == IF m < n THEN m ELSE n

(* NextDelay: somewhere between minInterval and the backed-off interval,   *)
(* and never below minInterval.                                            *)
NextDelay(zeros) ==
  LET base == Smaller(MinInterval * 2^zeros, MaxInterval)
  IN  IF base <= MinInterval THEN {MinInterval} ELSE MinInterval..base

GwInit ==
  /\ Init
  /\ fate = [j \in Job |-> "queued"]
  /\ loop = "ready"
  /\ todo = <<>>
  /\ job \in Job
  /\ consecutiveZero = 0
  /\ delay = MinInterval
  /\ beat = "sending"
  /\ proc = "running"

Alive == proc # "exited"

(* The top of the loop looks at the context. *)
Ready ==
  /\ Alive /\ loop = "ready"
  /\ loop' = IF cancelled THEN "stopped" ELSE "polling"
  /\ UNCHANGED <<poolVars, cancelled, fate, todo, job, consecutiveZero, delay, beat, proc>>

(* After PollOnce and after the last job: NextDelay. *)
GoToSleep(zeros) == loop' = "sleeping" /\ delay' \in NextDelay(zeros)

(* PollOnce brings jobs, in some order. *)
PollJobs(s) ==
  /\ Alive /\ loop = "polling" /\ ~cancelled
  /\ s # <<>>
  /\ \A i \in DOMAIN s : fate[s[i]] = "queued"
  /\ \A i, k \in DOMAIN s : s[i] = s[k] => i = k
  /\ fate' = [j \in Job |-> IF \E i \in DOMAIN s : s[i] = j THEN "polled" ELSE fate[j]]
  /\ todo' = s
  /\ consecutiveZero' = 0
  /\ loop' = "next"
  /\ UNCHANGED <<poolVars, cancelled, job, delay, beat, proc>>

(* PollOnce gets an answer without jobs: 204, an error status, or a body   *)
(* it cannot decode.                                                       *)
PollNothing ==
  /\ Alive /\ loop = "polling" /\ ~cancelled
  /\ consecutiveZero' = Smaller(consecutiveZero + 1, ZeroLimit)
  /\ GoToSleep(consecutiveZero')
  /\ UNCHANGED <<poolVars, cancelled, fate, todo, job, beat, proc>>

(* PollOnce gets no answer: the result is not recorded. *)
PollFails ==
  /\ Alive /\ loop = "polling"
  /\ GoToSleep(consecutiveZero)
  /\ UNCHANGED <<poolVars, cancelled, fate, todo, job, consecutiveZero, beat, proc>>

(* Fault: the loop returns after its jobs. *)
NoMoreJobsReturns ==
  /\ Alive /\ loop = "next" /\ todo = <<>>
  /\ loop' = "stopped"
  /\ UNCHANGED <<poolVars, cancelled, fate, todo, job, consecutiveZero, delay, beat, proc>>

(* The loop over the polled jobs ends; it does not look at the context. *)
NoMoreJobs ==
  /\ Alive /\ loop = "next" /\ todo = <<>>
  /\ GoToSleep(consecutiveZero)
  /\ UNCHANGED <<poolVars, cancelled, fate, todo, job, consecutiveZero, beat, proc>>

(* ExecuteScanJob starts: the secret, if any, is resolved, and the pool is *)
(* launched on the targets.                                                *)
ScanStarts ==
  /\ Alive /\ loop = "next" /\ todo # <<>>
  /\ job' = Head(todo) /\ todo' = Tail(todo)
  /\ job' \in NeedsSecret => ~cancelled
  /\ Launch
  /\ loop' = "scanning"
  /\ UNCHANGED <<cancelled, fate, consecutiveZero, delay, beat, proc>>

(* Fault: the job is dropped without a word. *)
SecretFailsSilently ==
  /\ Alive /\ loop = "next" /\ todo # <<>>
  /\ job' = Head(todo) /\ todo' = Tail(todo)
  /\ job' \in NeedsSecret
  /\ UNCHANGED <<poolVars, cancelled, fate, loop, consecutiveZero, delay, beat, proc>>

(* ExecuteScanJob fails to resolve the secret: the job is given up. *)
SecretFails ==
  /\ Alive /\ loop = "next" /\ todo # <<>>
  /\ job' = Head(todo) /\ todo' = Tail(todo)
  /\ job' \in NeedsSecret
  /\ fate' = [fate EXCEPT ![job'] = "lost"]
  /\ UNCHANGED <<poolVars, cancelled, loop, consecutiveZero, delay, beat, proc>>

(* The goroutines of the pool work while the loop waits in Execute. *)
InPool(step) ==
  /\ Alive /\ loop = "scanning"
  /\ step
  /\ UNCHANGED <<loopVars, beat, proc>>

PoolStep ==
  InPool(FeederNext \/ (\E w \in Worker : WorkerNext(w)) \/ CloseResults \/ MainNext)

(* Execute has returned: the batch goes to the streamer. *)
ScanEnds ==
  /\ Alive /\ loop = "scanning" /\ main = "returned"
  /\ loop' = "streaming"
  /\ UNCHANGED <<poolVars, cancelled, fate, todo, job, consecutiveZero, delay, beat, proc>>

(* Fault: the upload does not use the gateway's context. *)
StreamSucceedsDetached ==
  /\ Alive /\ loop = "streaming"
  /\ fate' = [fate EXCEPT ![job] = "streamed"]
  /\ loop' = "next"
  /\ UNCHANGED <<poolVars, cancelled, todo, job, consecutiveZero, delay, beat, proc>>

(* StreamResults: a 2xx answer. *)
StreamSucceeds ==
  /\ Alive /\ loop = "streaming" /\ ~cancelled
  /\ fate' = [fate EXCEPT ![job] = "streamed"]
  /\ loop' = "next"
  /\ UNCHANGED <<poolVars, cancelled, todo, job, consecutiveZero, delay, beat, proc>>

(* StreamResults fails: logged, and the batch is gone. *)
StreamFails ==
  /\ Alive /\ loop = "streaming"
  /\ fate' = [fate EXCEPT ![job] = "lost"]
  /\ loop' = "next"
  /\ UNCHANGED <<poolVars, cancelled, todo, job, consecutiveZero, delay, beat, proc>>

(* The delay is over, or the context is cancelled. *)
Wake ==
  /\ Alive /\ loop = "sleeping"
  /\ \/ loop' = "ready"
     \/ cancelled /\ loop' = "stopped"
  /\ UNCHANGED <<poolVars, cancelled, fate, todo, job, consecutiveZero, delay, beat, proc>>

-----------------------------------------------------------------------------
(* Daemon.Start: a heartbeat at once, then one per tick, whatever became   *)
(* of the last one; the loop ends on the context or on Stop.               *)
BeatSent ==
  /\ Alive /\ beat = "sending"
  /\ beat' = "waiting"
  /\ UNCHANGED <<poolVars, cancelled, loopVars, proc>>

BeatDue ==
  /\ Alive /\ beat = "waiting"
  /\ beat' = "sending"
  /\ UNCHANGED <<poolVars, cancelled, loopVars, proc>>

BeatStops ==
  /\ Alive /\ beat = "waiting"
  /\ cancelled \/ proc = "stopping"
  /\ beat' = "stopped"
  /\ UNCHANGED <<poolVars, cancelled, loopVars, proc>>

(* The signal: cancel(), then Daemon.Stop, then 300 ms, then the process   *)
(* ends with whatever still runs in it.                                    *)
ShutdownSignal ==
  /\ MayCancel
  /\ proc = "running"
  /\ proc' = "cancelled"
  /\ cancelled' = TRUE
  /\ UNCHANGED <<poolVars, loopVars, beat>>

StopHeartbeat ==
  /\ proc = "cancelled"
  /\ proc' = "stopping"
  /\ UNCHANGED <<poolVars, cancelled, loopVars, beat>>

Exit ==
  /\ proc = "stopping"
  /\ proc' = "exited"
  /\ UNCHANGED <<poolVars, cancelled, loopVars, beat>>

Polls == PollNothing \/ PollFails \/ \E n \in 1..Cardinality(Job) : \E s \in [1..n -> Job] : PollJobs(s)
Streams == StreamSucceeds \/ StreamFails

LoopNext ==
  \/ Ready \/ Polls \/ NoMoreJobs \/ ScanStarts \/ SecretFails
  \/ ScanEnds \/ Streams \/ Wake

GwNext ==
  \/ LoopNext \/ PoolStep
  \/ BeatSent \/ BeatDue \/ BeatStops
  \/ ShutdownSignal \/ StopHeartbeat \/ Exit

(* Goroutines that can run do run; timers fire and HTTP calls end. *)
GwFairness ==
  /\ WF_gwVars(LoopNext)
  /\ WF_gwVars(InPool(FeederNext))
  /\ \A w \in Worker : WF_gwVars(InPool(WorkerNext(w)))
  /\ WF_gwVars(InPool(CloseResults \/ MainNext))
  /\ WF_gwVars(BeatSent \/ BeatDue \/ BeatStops)
  /\ WF_gwVars(StopHeartbeat \/ Exit)

GwSpec == GwInit /\ [][GwNext]_gwVars /\ GwFairness

-----------------------------------------------------------------------------
(* Every variable of the gateway stays within its declared range. *)
GwTypeOK ==
  /\ TypeOK
  /\ fate \in [Job -> {"queued", "polled", "streamed", "lost"}]
  /\ loop \in {"ready", "polling", "next", "scanning", "streaming", "sleeping", "stopped"}
  /\ todo \in Seq(Job)
  /\ job \in Job
  /\ consecutiveZero \in 0..ZeroLimit
  /\ delay \in NextDelay(ZeroLimit)
  /\ beat \in {"sending", "waiting", "stopped"}
  /\ proc \in {"running", "cancelled", "stopping", "exited"}

(* A batch that reaches the control plane holds exactly one result for     *)
(* each of its hosts: a batch cut short by the shutdown is never streamed, *)
(* because the upload shares the context that cut it short.                *)
StreamedBatchesAreWhole ==
  [][\A j \in Job : fate[j] # "streamed" /\ fate'[j] = "streamed" =>
       /\ Len(results) = NumTargets
       /\ \A t \in Target : Cardinality(Results(t)) = 1]_gwVars

(* A job the gateway has accepted is in its hands once and is worked off:  *)
(* until a shutdown every polled job ends streamed or, logged, lost.       *)
PolledJobsAreSettled ==
  \A j \in Job : fate[j] = "polled" ~> fate[j] \in {"streamed", "lost"} \/ cancelled

(* The gateway comes back to poll, whatever polls, vault, hosts and        *)
(* uploads do, until it is shut down.                                      *)
KeepsPolling == []<>(loop = "polling" \/ cancelled)
=============================================================================
