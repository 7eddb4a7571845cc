--------------------------- MODULE GatewayProofs ----------------------------
(***************************************************************************)
(* Proofs about WorkerPool and the Gateway around it, for every number of  *)
(* targets, workers and retries, every capacity of the channels, every set *)
(* of errors a scanner may return, and a cancellation or a shutdown at any *)
(* moment.  The pool keeps its own invariant in a gateway: every step of   *)
(* the gateway is a step of the pool, a new pool, or a cancellation.       *)
(***************************************************************************)
EXTENDS Gateway, FiniteSetTheorems, TLAPS

-----------------------------------------------------------------------------
(* WorkerPool *)

(* How many targets have left the task channel.                            *)
Taken == fed - Len(tasksCh)

Busies == {w \in Worker : Busy(w)}
Held   == {cur[w] : w \in Busies}

Targets(seq) == {seq[i].target : i \in DOMAIN seq}
Once(seq) == \A i, j \in DOMAIN seq : seq[i].target = seq[j].target => i = j

(* The task channel holds the last targets fed, in order; every target     *)
(* that was taken from it is in one worker's hand, sent or collected, and  *)
(* is dropped by a cancellation only.                                      *)
QueueOK == Len(tasksCh) <= fed /\ \A i \in DOMAIN tasksCh : tasksCh[i] = Taken + i

PlacesOK ==
  /\ QueueOK
  /\ \A v, w \in Busies : cur[v] = cur[w] => v = w
  /\ Once(resultsCh) /\ Once(results)
  /\ Held \cap Targets(resultsCh) = {} /\ Held \cap Targets(results) = {}
  /\ Targets(resultsCh) \cap Targets(results) = {}
  /\ Held \cup Targets(resultsCh) \cup Targets(results) \subseteq 1..Taken
  /\ ~cancelled => 1..Taken \subseteq Held \cup Targets(resultsCh) \cup Targets(results)

(* What worker w has done so far to the host in its hand.                  *)
WorkerProbes(w) ==
  /\ pc[w] = "taken" => probes[cur[w]] = 0
  /\ pc[w] = "probing" => probes[cur[w]] = attempt[w]
  /\ pc[w] = "backoff" => probes[cur[w]] = attempt[w] + 1 /\ attempt[w] < MaxRetries
  /\ pc[w] = "sending" /\ outcome[w] = "offline" => probes[cur[w]] = MaxRetries + 1

(* An unreachable host of seq had all its attempts.                        *)
AllTried(seq) ==
  \A i \in DOMAIN seq : seq[i].status = "offline" => probes[seq[i].target] = MaxRetries + 1

ProbesOK ==
  /\ \A t \in Target : probes[t] <= MaxRetries + 1 /\ (t > Taken => probes[t] = 0)
  /\ \A w \in Worker : WorkerProbes(w)
  /\ AllTried(resultsCh) /\ AllTried(results)

ClosedOK == resultsClosed => \A w \in Worker : pc[w] = "exited"

PoolInv == TypeOK /\ PlacesOK /\ ProbesOK /\ ClosedOK

-----------------------------------------------------------------------------
(* One result more, and the oldest result less.                            *)
LEMMA AppendTargets ==
  ASSUME NEW seq \in Seq(Result), NEW r \in Result
  PROVE  /\ Append(seq, r) \in Seq(Result)
         /\ Targets(Append(seq, r)) = Targets(seq) \cup {r.target}
         /\ Once(seq) /\ r.target \notin Targets(seq) => Once(Append(seq, r))
         /\ AllTried(seq) /\ (r.status = "offline" => probes[r.target] = MaxRetries + 1)
              => AllTried(Append(seq, r))
<1> DEFINE long == Append(seq, r)
<1>1. /\ long \in Seq(Result) /\ DOMAIN long = DOMAIN seq \cup {Len(seq) + 1}
      /\ \A i \in DOMAIN seq : long[i] = seq[i]
      /\ long[Len(seq) + 1] = r
  OBVIOUS
<1> HIDE DEF long
<1>2. Targets(long) = Targets(seq) \cup {r.target}
  BY <1>1 DEF Targets
<1>3. Once(seq) /\ r.target \notin Targets(seq) => Once(long)
  BY <1>1 DEF Once, Targets
<1>4. AllTried(seq) /\ (r.status = "offline" => probes[r.target] = MaxRetries + 1) => AllTried(long)
  BY <1>1 DEF AllTried
<1> QED
  BY <1>1, <1>2, <1>3, <1>4 DEF long

LEMMA TailTargets ==
  ASSUME NEW seq \in Seq(Result), seq # <<>>
  PROVE  /\ Tail(seq) \in Seq(Result) /\ Head(seq) \in Result
         /\ Targets(seq) = Targets(Tail(seq)) \cup {Head(seq).target}
         /\ Once(seq) => Once(Tail(seq)) /\ Head(seq).target \notin Targets(Tail(seq))
         /\ AllTried(seq) => AllTried(Tail(seq))
         /\ AllTried(seq) /\ Head(seq).status = "offline" =>
              probes[Head(seq).target] = MaxRetries + 1
<1> DEFINE short == Tail(seq)
<1>1. /\ short \in Seq(Result) /\ Head(seq) = seq[1] /\ Head(seq) \in Result
      /\ Len(seq) \in Nat \ {0} /\ DOMAIN seq = 1..Len(seq) /\ DOMAIN short = 1..(Len(seq) - 1)
      /\ \A i \in DOMAIN short : short[i] = seq[i + 1]
  OBVIOUS
<1> HIDE DEF short
<1>2. /\ \A i \in DOMAIN short : i + 1 \in DOMAIN seq /\ i + 1 # 1
      /\ \A i \in DOMAIN seq : i = 1 \/ (i - 1 \in DOMAIN short /\ short[i - 1] = seq[i])
      /\ 1 \in DOMAIN seq
  BY <1>1
<1>3. Targets(seq) = Targets(short) \cup {seq[1].target}
  <2>1. ASSUME NEW x \in Targets(seq) PROVE x \in Targets(short) \cup {seq[1].target}
    BY <1>2 DEF Targets
  <2>2. ASSUME NEW i \in DOMAIN short PROVE short[i].target \in Targets(seq)
    <3>1. i + 1 \in DOMAIN seq /\ short[i] = seq[i + 1]
      BY <1>1, <1>2
    <3> QED
      BY <3>1 DEF Targets
  <2>3. seq[1].target \in Targets(seq)
    BY <1>2 DEF Targets
  <2> QED
    BY <2>1, <2>2, <2>3 DEF Targets
<1>4. Once(seq) => Once(short) /\ seq[1].target \notin Targets(short)
  <2> SUFFICES ASSUME Once(seq) PROVE Once(short) /\ seq[1].target \notin Targets(short)
    OBVIOUS
  <2>1. ASSUME NEW i \in DOMAIN short, NEW j \in DOMAIN short, short[i].target = short[j].target
        PROVE  i = j
    <3>1. i + 1 = j + 1
      BY <1>1, <1>2, <2>1 DEF Once
    <3> QED
      BY <1>1, <3>1
  <2>2. ASSUME NEW i \in DOMAIN short, short[i].target = seq[1].target PROVE FALSE
    BY <1>1, <1>2, <2>2 DEF Once
  <2> QED
    BY <2>1, <2>2 DEF Once, Targets
<1>5. AllTried(seq) => AllTried(short)
  BY <1>1, <1>2 DEF AllTried
<1>6. AllTried(seq) /\ seq[1].status = "offline" => probes[seq[1].target] = MaxRetries + 1
  BY <1>2 DEF AllTried
<1> QED
  BY <1>1, <1>3, <1>4, <1>5, <1>6 DEF short

(* A step moves one worker on.                                             *)
LEMMA Moves ==
  ASSUME TypeOK, NEW w \in Worker, NEW from, NEW to, Goto(w, from, to)
  PROVE  /\ pc[w] = from /\ pc'[w] = to /\ \A v \in Worker : v # w => pc'[v] = pc[v]
         /\ \A v \in Worker : v # w => (Busy(v)' <=> Busy(v))
         /\ Busy(w) <=> from \in {"taken", "probing", "backoff", "sending"}
         /\ Busy(w)' <=> to \in {"taken", "probing", "backoff", "sending"}
<1>1. /\ pc[w] = from /\ pc'[w] = to /\ \A v \in Worker : v # w => pc'[v] = pc[v]
  BY DEF TypeOK, Goto
<1> QED
  BY <1>1 DEF Busy

(* A busy worker has a target in its hand; a busy worker that stays busy   *)
(* keeps it, and one that does not lets go of it.                          *)
LEMMA HandsHold ==
  ASSUME TypeOK, PlacesOK, NEW w \in Worker, Busy(w)
  PROVE  cur[w] \in Target /\ cur[w] \in 1..Taken /\ cur[w] \in Held
<1>1. cur[w] \in Held
  BY DEF Held, Busies
<1>2. cur[w] \in 1..Taken
  BY <1>1 DEF PlacesOK
<1>3. cur[w] \in Target
  BY <1>2 DEF TypeOK, NoTarget
<1> QED
  BY <1>1, <1>2, <1>3

LEMMA HeldStays ==
  ASSUME cur' = cur, \A v \in Worker : Busy(v)' <=> Busy(v)
  PROVE  Busies' = Busies /\ Held' = Held
BY DEF Busies, Held

LEMMA HeldLeaves ==
  ASSUME PlacesOK, NEW w \in Worker, cur' = cur, Busy(w), ~Busy(w)',
         \A v \in Worker : v # w => (Busy(v)' <=> Busy(v))
  PROVE  Busies' \subseteq Busies /\ Held' = Held \ {cur[w]}
<1>1. Busies' = Busies \ {w} /\ w \in Busies
  BY DEF Busies
<1>2. \A v \in Busies : cur[v] = cur[w] => v = w
  BY <1>1 DEF PlacesOK
<1> QED
  BY <1>1, <1>2 DEF Held

LEMMA HeldEnters ==
  ASSUME TypeOK, NEW w \in Worker, NEW t, cur' = [cur EXCEPT ![w] = t], ~Busy(w), Busy(w)',
         \A v \in Worker : v # w => (Busy(v)' <=> Busy(v))
  PROVE  /\ Busies' = Busies \cup {w} /\ w \notin Busies /\ Held' = Held \cup {t}
         /\ cur'[w] = t /\ \A v \in Busies : cur'[v] = cur[v]
<1>1. Busies' = Busies \cup {w} /\ w \notin Busies
  BY DEF Busies
<1>2. cur'[w] = t /\ \A v \in Busies : cur'[v] = cur[v]
  BY <1>1 DEF TypeOK, Busies
<1>3. Held' = {cur'[v] : v \in Busies'}
  BY DEF Held
<1>4. Held = {cur[v] : v \in Busies}
  BY DEF Held
<1> QED
  BY <1>1, <1>2, <1>3, <1>4

-----------------------------------------------------------------------------
LEMMA FeederType == ASSUME TypeOK, FeederNext PROVE TypeOK'
<1>1. CASE Feed
  <2>1. fed + 1 \in Target /\ fed + 1 \in 0..NumTargets
    BY <1>1, PoolAssumption DEF Feed, TypeOK, Target
  <2>2. tasksCh' \in Seq(Target) /\ Len(tasksCh') <= TaskBuffer
    BY <1>1, <2>1, PoolAssumption DEF Feed, TypeOK
  <2> QED
    BY <1>1, <2>1, <2>2 DEF Feed, TypeOK, workerVars, mainVars, probeVars
<1>2. CASE FeederCloses
  BY <1>2 DEF FeederCloses, TypeOK, channels, workerVars, mainVars, probeVars
<1>3. CASE FeederStops
  BY <1>3 DEF FeederStops, TypeOK, channels, workerVars, mainVars, probeVars
<1> QED
  BY <1>1, <1>2, <1>3 DEF FeederNext

LEMMA WorkerType == ASSUME TypeOK, PlacesOK, ProbesOK, NEW w \in Worker, WorkerNext(w) PROVE TypeOK'
<1>0. MaxRetries \in Nat /\ ResultBuffer \in Nat
  BY PoolAssumption
<1>1. CASE Receive(w)
  <2>1. Head(tasksCh) \in Target /\ Tail(tasksCh) \in Seq(Target)
        /\ Len(Tail(tasksCh)) <= TaskBuffer
    BY <1>1, PoolAssumption DEF Receive, TypeOK
  <2>2. cur' \in [Worker -> Target \cup {NoTarget}]
    BY <1>1, <2>1 DEF Receive, TypeOK
  <2>3. pc' \in [Worker -> {"idle", "taken", "probing", "backoff", "sending", "exited"}]
    BY <1>1 DEF Receive, Goto, TypeOK
  <2> QED
    BY <1>1, <2>1, <2>2, <2>3 DEF Receive, TypeOK, feederVars, mainVars, probeVars
<1>2. CASE RangeEnds(w)
  BY <1>2 DEF RangeEnds, Goto, TypeOK, channels, feederVars, mainVars, probeVars
<1>3. CASE Begin(w)
  <2>1. pc' \in [Worker -> {"idle", "taken", "probing", "backoff", "sending", "exited"}]
    BY <1>3 DEF Begin, Goto, TypeOK
  <2>2. attempt' \in [Worker -> 0..MaxRetries]
    BY <1>0, <1>3 DEF Begin, TypeOK
  <2> QED
    BY <1>3, <2>1, <2>2 DEF Begin, TypeOK, channels, feederVars, mainVars, probeVars
<1>4. CASE ProbeSucceeds(w)
  <2>1. probes' \in [Target -> Nat]
    BY <1>4, HandsHold DEF ProbeSucceeds, TypeOK, Goto, Busy
  <2>2. pc' \in [Worker -> {"idle", "taken", "probing", "backoff", "sending", "exited"}]
        /\ outcome' \in [Worker -> Statuses]
    BY <1>4 DEF ProbeSucceeds, Goto, TypeOK, Statuses
  <2> QED
    BY <1>4, <2>1, <2>2 DEF ProbeSucceeds, TypeOK, channels, feederVars, mainVars
<1>5. ASSUME NEW e \in ProbeErrors, ProbeFails(w, e) PROVE TypeOK'
  <2>0. cur[w] \in Target
    BY <1>5, HandsHold DEF ProbeFails, Goto, Busy
  <2>1. probes' \in [Target -> Nat]
    BY <1>5, <2>0 DEF ProbeFails, TypeOK
  <2>2. rejections' \in [Target -> Nat]
    BY <1>5, <2>0 DEF ProbeFails, TypeOK
  <2>3. pc' \in [Worker -> {"idle", "taken", "probing", "backoff", "sending", "exited"}]
    BY <1>5 DEF ProbeFails, Goto, TypeOK
  <2>4. outcome' \in [Worker -> Statuses]
    BY <1>5 DEF ProbeFails, TypeOK, StatusOf, Statuses
  <2> QED
    BY <1>5, <2>1, <2>2, <2>3, <2>4 DEF ProbeFails, TypeOK, channels, feederVars, mainVars
<1>6. CASE BackoffOver(w)
  <2>1. attempt[w] < MaxRetries
    BY <1>6 DEF BackoffOver, Goto, ProbesOK, WorkerProbes
  <2>2. attempt' \in [Worker -> 0..MaxRetries]
    BY <1>0, <1>6, <2>1 DEF BackoffOver, TypeOK
  <2>3. pc' \in [Worker -> {"idle", "taken", "probing", "backoff", "sending", "exited"}]
    BY <1>6 DEF BackoffOver, Goto, TypeOK
  <2> QED
    BY <1>6, <2>2, <2>3 DEF BackoffOver, TypeOK, channels, feederVars, mainVars, probeVars
<1>7. CASE BackoffCancelled(w)
  BY <1>7 DEF BackoffCancelled, Goto, TypeOK, channels, feederVars, mainVars, probeVars
<1>8. CASE SendResult(w)
  <2>1. cur[w] \in Target
    BY <1>8, HandsHold DEF SendResult, Goto, Busy
  <2>2. [target |-> cur[w], status |-> outcome[w]] \in Result
    BY <2>1 DEF Result, TypeOK
  <2>3. resultsCh' \in Seq(Result) /\ Len(resultsCh') <= ResultBuffer
    BY <1>0, <1>8, <2>2 DEF SendResult, TypeOK
  <2>4. pc' \in [Worker -> {"idle", "taken", "probing", "backoff", "sending", "exited"}]
    BY <1>8 DEF SendResult, Goto, TypeOK
  <2> QED
    BY <1>8, <2>3, <2>4 DEF SendResult, TypeOK, feederVars, mainVars, probeVars
<1> QED
  BY <1>1, <1>2, <1>3, <1>4, <1>5, <1>6, <1>7, <1>8 DEF WorkerNext, Probe

LEMMA NextType ==
  ASSUME TypeOK, PlacesOK, ProbesOK, [Next]_vars PROVE TypeOK'
<1>1. CASE CloseResults
  BY <1>1 DEF CloseResults, TypeOK, feederVars, workerVars, mainVars, probeVars
<1>2. CASE Collect
  <2>1. /\ Head(resultsCh) \in Result /\ Tail(resultsCh) \in Seq(Result)
        /\ Len(Tail(resultsCh)) <= ResultBuffer
    BY <1>2, PoolAssumption DEF Collect, TypeOK
  <2>2. results' \in Seq(Result)
    BY <1>2, <2>1 DEF Collect, TypeOK
  <2> QED
    BY <1>2, <2>1, <2>2 DEF Collect, TypeOK, feederVars, workerVars, probeVars
<1>3. CASE Return
  BY <1>3 DEF Return, TypeOK, channels, feederVars, workerVars, probeVars
<1>4. CASE Cancel
  BY <1>4 DEF Cancel, TypeOK, channels, feederVars, workerVars, mainVars, probeVars
<1>5. CASE UNCHANGED vars
  BY <1>5 DEF vars, TypeOK, channels, feederVars, workerVars, mainVars, probeVars
<1> QED
  BY <1>1, <1>2, <1>3, <1>4, <1>5, FeederType, WorkerType DEF Next, MainNext

-----------------------------------------------------------------------------
(* Every place keeps what it has.                                          *)
LEMMA PlacesStay ==
  ASSUME PlacesOK, UNCHANGED <<fed, tasksCh, resultsCh, results, cur>>,
         Busies' = Busies, cancelled => cancelled'
  PROVE  PlacesOK' /\ Taken' = Taken
<1>1. Held' = Held /\ Taken' = Taken
  BY DEF Held, Taken
<1>2. QueueOK'
  BY <1>1 DEF PlacesOK, QueueOK
<1>3. /\ Targets(resultsCh)' = Targets(resultsCh) /\ Targets(results)' = Targets(results)
      /\ Once(resultsCh)' /\ Once(results)'
  BY DEF PlacesOK, Targets, Once
<1>4. \A v, u \in Busies' : cur'[v] = cur'[u] => v = u
  BY DEF PlacesOK
<1> QED
  BY <1>1, <1>2, <1>3, <1>4 DEF PlacesOK

(* A worker lets go of its target in a cancelled scan.                     *)
LEMMA PlacesDrop ==
  ASSUME PlacesOK, NEW w \in Worker, UNCHANGED <<fed, tasksCh, resultsCh, results, cur>>,
         cancelled', Busy(w), ~Busy(w)', \A v \in Worker : v # w => (Busy(v)' <=> Busy(v))
  PROVE  PlacesOK' /\ Taken' = Taken
<1>1. Busies' \subseteq Busies /\ Held' = Held \ {cur[w]}
  BY HeldLeaves
<1>2. Taken' = Taken
  BY DEF Taken
<1> QED
  BY <1>1, <1>2 DEF PlacesOK, QueueOK, Targets, Once

LEMMA FeedPlaces == ASSUME TypeOK, PlacesOK, Feed PROVE PlacesOK' /\ Taken' = Taken
<1>1. /\ fed' = fed + 1 /\ tasksCh' = Append(tasksCh, fed + 1)
      /\ fed \in Nat /\ tasksCh \in Seq(Target)
      /\ UNCHANGED <<resultsCh, results, cur, pc, cancelled>>
  BY PoolAssumption DEF Feed, TypeOK, workerVars, mainVars
<1>2. Taken' = Taken /\ Len(tasksCh') = Len(tasksCh) + 1 /\ Len(tasksCh) \in Nat
  BY <1>1 DEF Taken
<1>3. /\ DOMAIN tasksCh' = DOMAIN tasksCh \cup {Len(tasksCh) + 1}
      /\ \A i \in DOMAIN tasksCh : tasksCh'[i] = tasksCh[i]
      /\ tasksCh'[Len(tasksCh) + 1] = fed + 1
  BY <1>1
<1>4. fed + 1 = Taken + (Len(tasksCh) + 1)
  BY <1>1, <1>2 DEF Taken
<1>5. QueueOK'
  BY <1>1, <1>2, <1>3, <1>4 DEF PlacesOK, QueueOK
<1>6. Busies' = Busies /\ Held' = Held
  BY <1>1 DEF Busies, Busy, Held
<1>7. /\ Targets(resultsCh)' = Targets(resultsCh) /\ Targets(results)' = Targets(results)
      /\ Once(resultsCh)' /\ Once(results)'
  BY <1>1 DEF PlacesOK, Targets, Once
<1>8. \A v, u \in Busies' : cur'[v] = cur'[u] => v = u
  BY <1>1, <1>6 DEF PlacesOK
<1> QED
  BY <1>1, <1>2, <1>5, <1>6, <1>7, <1>8 DEF PlacesOK

LEMMA ReceivePlaces ==
  ASSUME TypeOK, PlacesOK, NEW w \in Worker, Receive(w)
  PROVE  PlacesOK' /\ Taken \in Nat /\ Taken' = Taken + 1 /\ cur'[w] = Taken + 1
         /\ \A v \in Busies : cur'[v] = cur[v]
<1>1. /\ tasksCh # <<>> /\ tasksCh \in Seq(Target) /\ fed \in Nat
      /\ tasksCh' = Tail(tasksCh) /\ cur' = [cur EXCEPT ![w] = Head(tasksCh)]
      /\ UNCHANGED <<fed, resultsCh, results, cancelled>>
  BY PoolAssumption DEF Receive, TypeOK, feederVars, mainVars
<1>2. /\ Len(tasksCh) \in Nat \ {0} /\ Len(tasksCh) <= fed /\ Head(tasksCh) = tasksCh[1]
      /\ DOMAIN tasksCh = 1..Len(tasksCh)
      /\ Len(tasksCh') = Len(tasksCh) - 1 /\ DOMAIN tasksCh' = 1..(Len(tasksCh) - 1)
      /\ \A i \in DOMAIN tasksCh' : tasksCh'[i] = tasksCh[i + 1]
  BY <1>1 DEF PlacesOK, QueueOK
<1>3. Taken \in Nat /\ Taken' = Taken + 1
  BY <1>1, <1>2 DEF Taken
<1>4. Head(tasksCh) = Taken + 1
  BY <1>2 DEF PlacesOK, QueueOK
<1>5. QueueOK'
  <2>1. \A i \in DOMAIN tasksCh' : i \in Nat /\ i + 1 \in DOMAIN tasksCh
    BY <1>2
  <2>2. \A i \in DOMAIN tasksCh' : tasksCh'[i] = Taken + (i + 1)
    BY <1>2, <2>1 DEF PlacesOK, QueueOK
  <2>3. \A i \in DOMAIN tasksCh' : tasksCh'[i] = (Taken + 1) + i
    BY <1>3, <2>1, <2>2
  <2>4. Len(tasksCh') <= fed'
    BY <1>1, <1>2
  <2> QED
    BY <1>3, <2>3, <2>4 DEF QueueOK
<1>6. /\ Busies' = Busies \cup {w} /\ w \notin Busies /\ Held' = Held \cup {Taken + 1}
      /\ cur'[w] = Taken + 1 /\ \A v \in Busies : cur'[v] = cur[v]
  <2>1. ~Busy(w) /\ Busy(w)' /\ \A v \in Worker : v # w => (Busy(v)' <=> Busy(v))
    BY Moves DEF Receive
  <2> QED
    BY <1>1, <1>4, <2>1, HeldEnters
<1>7. Taken + 1 \notin Held \cup Targets(resultsCh) \cup Targets(results)
  BY <1>3 DEF PlacesOK
<1>8. \A v \in Busies : cur[v] # Taken + 1
  BY <1>7 DEF Held
<1>9. \A v, u \in Busies' : cur'[v] = cur'[u] => v = u
  BY <1>6, <1>8 DEF PlacesOK
<1>10. 1..(Taken + 1) = (1..Taken) \cup {Taken + 1}
  BY <1>3
<1>11. Held' \cup Targets(resultsCh)' \cup Targets(results)'
         = Held \cup Targets(resultsCh) \cup Targets(results) \cup {Taken + 1}
  BY <1>1, <1>6 DEF Targets
<1>12. /\ Targets(resultsCh)' = Targets(resultsCh) /\ Targets(results)' = Targets(results)
       /\ Once(resultsCh)' /\ Once(results)'
  BY <1>1 DEF PlacesOK, Targets, Once
<1>13. /\ Held' \cap Targets(resultsCh)' = {} /\ Held' \cap Targets(results)' = {}
       /\ Targets(resultsCh)' \cap Targets(results)' = {}
  BY <1>6, <1>7, <1>12 DEF PlacesOK
<1> QED
  BY <1>1, <1>3, <1>5, <1>6, <1>9, <1>10, <1>11, <1>12, <1>13 DEF PlacesOK

LEMMA SendPlaces ==
  ASSUME TypeOK, PlacesOK, NEW w \in Worker, SendResult(w)
  PROVE  PlacesOK' /\ Taken' = Taken
<1> DEFINE r == [target |-> cur[w], status |-> outcome[w]]
<1>1. Busy(w) /\ ~Busy(w)' /\ \A v \in Worker : v # w => (Busy(v)' <=> Busy(v))
  BY Moves DEF SendResult
<1>2. /\ resultsCh' = Append(resultsCh, r) /\ resultsCh \in Seq(Result)
      /\ UNCHANGED <<cur, fed, tasksCh, results, cancelled>>
  BY DEF SendResult, TypeOK, feederVars, mainVars
<1>3. r \in Result /\ cur[w] \in Held
  BY <1>1, HandsHold DEF Result, TypeOK
<1>4. /\ Targets(resultsCh)' = Targets(resultsCh) \cup {cur[w]}
      /\ Once(resultsCh)'
  <2>1. cur[w] \notin Targets(resultsCh) /\ Once(resultsCh)
    BY <1>3 DEF PlacesOK
  <2>2. Targets(Append(resultsCh, r)) = Targets(resultsCh) \cup {cur[w]}
        /\ Once(Append(resultsCh, r))
    BY <1>2, <1>3, <2>1, AppendTargets
  <2> QED
    BY <1>2, <2>2
<1>5. Busies' \subseteq Busies /\ Held' = Held \ {cur[w]}
  BY <1>1, <1>2, HeldLeaves
<1>6. Taken' = Taken /\ Targets(results)' = Targets(results) /\ QueueOK' /\ Once(results)'
  BY <1>2 DEF Taken, PlacesOK, QueueOK, Targets, Once
<1>7. Held' \cup Targets(resultsCh)' \cup Targets(results)'
        = Held \cup Targets(resultsCh) \cup Targets(results)
  BY <1>3, <1>4, <1>5, <1>6
<1>8. /\ Held' \cap Targets(resultsCh)' = {} /\ Held' \cap Targets(results)' = {}
      /\ Targets(resultsCh)' \cap Targets(results)' = {}
  BY <1>3, <1>4, <1>5, <1>6 DEF PlacesOK
<1>9. \A v, u \in Busies' : cur'[v] = cur'[u] => v = u
  BY <1>2, <1>5 DEF PlacesOK
<1> QED
  BY <1>2, <1>4, <1>6, <1>7, <1>8, <1>9 DEF PlacesOK

LEMMA CollectPlaces ==
  ASSUME TypeOK, PlacesOK, Collect
  PROVE  PlacesOK' /\ Taken' = Taken
<1> DEFINE r == Head(resultsCh)
<1>1. /\ resultsCh # <<>> /\ resultsCh' = Tail(resultsCh) /\ results' = Append(results, r)
      /\ resultsCh \in Seq(Result) /\ results \in Seq(Result)
      /\ UNCHANGED <<cur, pc, fed, tasksCh, cancelled>>
  BY DEF Collect, TypeOK, feederVars, workerVars
<1>2. /\ r \in Result /\ Targets(resultsCh) = Targets(Tail(resultsCh)) \cup {r.target}
      /\ Once(Tail(resultsCh)) /\ r.target \notin Targets(Tail(resultsCh))
  BY <1>1, TailTargets DEF PlacesOK
<1>3. r.target \in Targets(resultsCh)
  BY <1>2
<1>4. Targets(Append(results, r)) = Targets(results) \cup {r.target} /\ Once(Append(results, r))
  <2>1. r.target \notin Targets(results) /\ Once(results)
    BY <1>3 DEF PlacesOK
  <2> QED
    BY <1>1, <1>2, <2>1, AppendTargets
<1>5. /\ Targets(resultsCh) = Targets(resultsCh)' \cup {r.target}
      /\ r.target \notin Targets(resultsCh)' /\ Once(resultsCh)'
      /\ Targets(results)' = Targets(results) \cup {r.target} /\ Once(results)'
  BY <1>1, <1>2, <1>4
<1>6. Busies' = Busies /\ Held' = Held /\ Taken' = Taken /\ QueueOK'
  BY <1>1 DEF Busies, Busy, Held, Taken, PlacesOK, QueueOK
<1>7. \A v, u \in Busies' : cur'[v] = cur'[u] => v = u
  BY <1>1, <1>6 DEF PlacesOK
<1> QED
  BY <1>1, <1>3, <1>5, <1>6, <1>7 DEF PlacesOK

LEMMA NextPlaces ==
  ASSUME TypeOK, PlacesOK, [Next]_vars PROVE PlacesOK'
<1>1. CASE FeederNext
  BY <1>1, FeedPlaces, PlacesStay
  DEF FeederNext, FeederCloses, FeederStops, channels, workerVars, mainVars, Busies, Busy
<1>2. ASSUME NEW w \in Worker, WorkerNext(w) PROVE PlacesOK'
  <2>0. ASSUME NEW from, NEW to, Goto(w, from, to),
               UNCHANGED <<fed, tasksCh, resultsCh, results, cur, cancelled>>,
               from \in {"taken", "probing", "backoff", "sending"}
                 <=> to \in {"taken", "probing", "backoff", "sending"}
        PROVE  PlacesOK'
    <3>1. \A v \in Worker : Busy(v)' <=> Busy(v)
      BY <2>0, Moves
    <3> QED
      BY <2>0, <3>1, HeldStays, PlacesStay
  <2>1. CASE RangeEnds(w)
    BY <2>0, <2>1 DEF RangeEnds, channels, feederVars, mainVars
  <2>2. CASE Begin(w)
    <3>1. UNCHANGED <<fed, tasksCh, resultsCh, results, cur, cancelled>>
      BY <2>2 DEF Begin, channels, feederVars, mainVars
    <3>2. CASE cancelled
      <4>1. Goto(w, "taken", "exited")
        BY <2>2, <3>2 DEF Begin
      <4>2. Busy(w) /\ ~Busy(w)' /\ \A v \in Worker : v # w => (Busy(v)' <=> Busy(v))
        BY <4>1, Moves
      <4>3. cancelled'
        BY <3>1, <3>2
      <4> QED
        BY <3>1, <4>2, <4>3, PlacesDrop
    <3>3. CASE ~cancelled
      BY <2>0, <2>2, <3>1, <3>3 DEF Begin
    <3> QED
      BY <3>2, <3>3
  <2>3. CASE Probe(w)
    <3>1. CASE ProbeSucceeds(w)
      BY <2>0, <3>1 DEF ProbeSucceeds, channels, feederVars, mainVars
    <3>2. ASSUME NEW e \in ProbeErrors, ProbeFails(w, e) PROVE PlacesOK'
      BY <2>0, <3>2 DEF ProbeFails, channels, feederVars, mainVars
    <3> QED
      BY <2>3, <3>1, <3>2 DEF Probe
  <2>4. CASE BackoffOver(w)
    BY <2>0, <2>4 DEF BackoffOver, channels, feederVars, mainVars
  <2>5. CASE BackoffCancelled(w)
    <3>1. /\ UNCHANGED <<fed, tasksCh, resultsCh, results, cur>> /\ cancelled'
          /\ Goto(w, "backoff", "idle")
      BY <2>5 DEF BackoffCancelled, channels, feederVars, mainVars
    <3>2. Busy(w) /\ ~Busy(w)' /\ \A v \in Worker : v # w => (Busy(v)' <=> Busy(v))
      BY <3>1, Moves
    <3> QED
      BY <3>1, <3>2, PlacesDrop
  <2> QED
    BY <1>2, <2>1, <2>2, <2>3, <2>4, <2>5, ReceivePlaces, SendPlaces DEF WorkerNext
<1>3. CASE CloseResults
  BY <1>3, PlacesStay DEF CloseResults, feederVars, workerVars, mainVars, Busies, Busy
<1>4. CASE Return
  BY <1>4, PlacesStay DEF Return, channels, feederVars, workerVars, Busies, Busy
<1>5. CASE Cancel
  <2>1. UNCHANGED <<fed, tasksCh, resultsCh, results, cur, pc>> /\ cancelled'
    BY <1>5 DEF Cancel, channels, feederVars, workerVars, mainVars
  <2> QED
    BY <2>1, PlacesStay DEF Busies, Busy
<1>6. CASE UNCHANGED vars
  BY <1>6, PlacesStay
  DEF vars, channels, feederVars, workerVars, mainVars, Busies, Busy
<1> QED
  BY <1>1, <1>2, <1>3, <1>4, <1>5, <1>6, CollectPlaces DEF Next, MainNext

-----------------------------------------------------------------------------
(* No probe ends; what each worker has done so far is as it should be.     *)
LEMMA ProbesQuiet ==
  ASSUME TypeOK, ProbesOK, probes' = probes, Taken \in Nat, Taken' \in Nat, Taken' >= Taken,
         AllTried(resultsCh'), AllTried(results'), \A w \in Worker : WorkerProbes(w)'
  PROVE  ProbesOK'
<1>1. \A t \in Target : probes'[t] <= MaxRetries + 1 /\ (t > Taken' => probes'[t] = 0)
  BY DEF ProbesOK, Target
<1>2. AllTried(resultsCh)' /\ AllTried(results)'
  BY DEF AllTried
<1> QED
  BY <1>1, <1>2 DEF ProbesOK

LEMMA TakenIsNat == ASSUME TypeOK, PlacesOK PROVE Taken \in Nat
<1>1. fed \in Nat /\ Len(tasksCh) \in Nat /\ Len(tasksCh) <= fed
  BY PoolAssumption DEF TypeOK, PlacesOK, QueueOK
<1> QED
  BY <1>1 DEF Taken

(* A host is probed: the worker that has it in hand is alone with it, and  *)
(* nobody reports it yet.                                                  *)
LEMMA ProbeCounted ==
  ASSUME TypeOK, PlacesOK, ProbesOK, NEW w \in Worker, pc[w] = "probing",
         probes' = [probes EXCEPT ![cur[w]] = @ + 1],
         UNCHANGED <<fed, tasksCh, cur, attempt, resultsCh, results>>,
         \A v \in Worker : v # w => pc'[v] = pc[v] /\ outcome'[v] = outcome[v],
         WorkerProbes(w)'
  PROVE  ProbesOK'
<1>1. /\ cur[w] \in Target /\ cur[w] \in 1..Taken /\ cur[w] \in Held /\ w \in Busies
      /\ probes[cur[w]] = attempt[w] /\ attempt[w] \in 0..MaxRetries
      /\ MaxRetries \in Nat /\ Taken \in Nat
  BY HandsHold, TakenIsNat, PoolAssumption DEF Busy, Busies, ProbesOK, WorkerProbes, TypeOK
<1>2. /\ probes'[cur[w]] = attempt[w] + 1
      /\ \A t \in Target : t # cur[w] => probes'[t] = probes[t]
  BY <1>1 DEF TypeOK
<1>3. Taken' = Taken
  BY DEF Taken
<1>4. \A t \in Target : probes'[t] <= MaxRetries + 1 /\ (t > Taken' => probes'[t] = 0)
  <2>1. ASSUME NEW t \in Target
        PROVE  probes'[t] <= MaxRetries + 1 /\ (t > Taken => probes'[t] = 0)
    <3>1. CASE t = cur[w]
      BY <1>1, <1>2, <3>1
    <3>2. CASE t # cur[w]
      BY <1>2, <3>2 DEF ProbesOK
    <3> QED
      BY <3>1, <3>2
  <2> QED
    BY <1>3, <2>1
<1>5. ASSUME NEW v \in Worker PROVE WorkerProbes(v)'
  <2>1. CASE v = w
    BY <2>1
  <2>2. CASE v # w /\ ~Busy(v)
    BY <2>2 DEF WorkerProbes, Busy
  <2>3. CASE v # w /\ Busy(v)
    <3>1. cur[v] # cur[w] /\ cur[v] \in Target
      BY <1>1, <2>3, HandsHold DEF PlacesOK, Busies
    <3>2. probes'[cur[v]] = probes[cur[v]] /\ WorkerProbes(v)
      BY <1>2, <3>1 DEF ProbesOK
    <3> QED
      BY <2>3, <3>2 DEF WorkerProbes
  <2> QED
    BY <2>1, <2>2, <2>3
<1>6. ASSUME NEW seq \in Seq(Result), cur[w] \notin Targets(seq), AllTried(seq),
             NEW i \in DOMAIN seq, seq[i].status = "offline"
      PROVE  probes'[seq[i].target] = MaxRetries + 1
  <2>0. seq[i] \in Result
    BY <1>6
  <2>1. seq[i].target # cur[w] /\ seq[i].target \in Target
    BY <1>6, <2>0 DEF Targets, Result
  <2> QED
    BY <1>2, <1>6, <2>1 DEF AllTried
<1>7. cur[w] \notin Targets(resultsCh) /\ cur[w] \notin Targets(results)
      /\ resultsCh \in Seq(Result) /\ results \in Seq(Result)
  BY <1>1 DEF PlacesOK, TypeOK
<1>8. AllTried(resultsCh)'
  BY <1>6, <1>7 DEF AllTried, ProbesOK
<1>9. AllTried(results)'
  BY <1>6, <1>7 DEF AllTried, ProbesOK
<1> QED
  BY <1>4, <1>5, <1>8, <1>9 DEF ProbesOK

LEMMA SameTried ==
  ASSUME ProbesOK PROVE AllTried(resultsCh) /\ AllTried(results)
BY DEF ProbesOK

LEMMA WorkerProbesNext ==
  ASSUME TypeOK, PlacesOK, ProbesOK, NEW w \in Worker, WorkerNext(w)
  PROVE  ProbesOK'
<1>0. MaxRetries \in Nat /\ Taken \in Nat /\ Taken >= Taken
  BY PoolAssumption, TakenIsNat
<1>1. ASSUME NEW from, NEW to, Goto(w, from, to),
             UNCHANGED <<fed, tasksCh, cur, outcome, resultsCh, results, probes>>,
             \A v \in Worker : v # w => attempt'[v] = attempt[v],
             WorkerProbes(w)'
      PROVE  ProbesOK'
  <2>1. \A v \in Worker : v # w => pc'[v] = pc[v] /\ WorkerProbes(v)
    BY <1>1, Moves DEF ProbesOK
  <2>2. \A v \in Worker : WorkerProbes(v)'
    BY <1>1, <2>1 DEF WorkerProbes
  <2>3. Taken' = Taken
    BY <1>1 DEF Taken
  <2> QED
    BY <1>0, <1>1, <2>2, <2>3, SameTried, ProbesQuiet
<1>2. CASE Receive(w)
  <2>1. /\ PlacesOK' /\ Taken' = Taken + 1 /\ cur'[w] = Taken + 1
        /\ \A v \in Busies : cur'[v] = cur[v]
    BY <1>2, ReceivePlaces
  <2>2. /\ pc[w] = "idle" /\ pc'[w] = "taken" /\ \A v \in Worker : v # w => pc'[v] = pc[v]
        /\ UNCHANGED <<attempt, outcome, resultsCh, results, probes>>
    BY <1>2, Moves DEF Receive, mainVars, probeVars
  <2>3. Taken + 1 \in Target
    <3>1. tasksCh # <<>> /\ tasksCh \in Seq(Target)
      BY <1>2 DEF Receive, TypeOK
    <3>2. 1 \in DOMAIN tasksCh /\ tasksCh[1] \in Target
      BY <3>1
    <3> QED
      BY <1>0, <3>2 DEF PlacesOK, QueueOK
  <2>4. probes[Taken + 1] = 0
    BY <1>0, <2>3 DEF ProbesOK
  <2>5. ASSUME NEW v \in Worker PROVE WorkerProbes(v)'
    <3>1. CASE v = w
      BY <2>1, <2>2, <2>4, <3>1 DEF WorkerProbes
    <3>2. CASE v # w /\ ~Busy(v)
      BY <2>2, <3>2 DEF WorkerProbes, Busy
    <3>3. CASE v # w /\ Busy(v)
      BY <2>1, <2>2, <3>3 DEF WorkerProbes, Busies, ProbesOK
    <3> QED
      BY <3>1, <3>2, <3>3
  <2> QED
    BY <1>0, <2>1, <2>2, <2>5, SameTried, ProbesQuiet
<1>3. CASE RangeEnds(w)
  <2>1. WorkerProbes(w)'
    BY <1>3, Moves DEF RangeEnds, WorkerProbes
  <2> QED
    BY <1>1, <1>3, <2>1 DEF RangeEnds, channels, feederVars, mainVars, probeVars
<1>4. CASE Begin(w)
  <2>1. pc[w] = "taken" /\ (pc'[w] = "probing" \/ pc'[w] = "exited") /\ WorkerProbes(w)
    BY <1>4, Moves DEF Begin, ProbesOK
  <2>2. attempt'[w] = 0 /\ \A v \in Worker : v # w => attempt'[v] = attempt[v]
    BY <1>4 DEF Begin, TypeOK
  <2>3. UNCHANGED <<fed, tasksCh, cur, outcome, resultsCh, results, probes>>
    BY <1>4 DEF Begin, channels, feederVars, mainVars, probeVars
  <2>4. WorkerProbes(w)'
    BY <2>1, <2>2, <2>3 DEF WorkerProbes
  <2> QED
    BY <1>1, <1>4, <2>2, <2>3, <2>4 DEF Begin
<1>5. CASE ProbeSucceeds(w)
  <2>1. pc[w] = "probing" /\ pc'[w] = "sending" /\ \A v \in Worker : v # w => pc'[v] = pc[v]
    BY <1>5, Moves DEF ProbeSucceeds
  <2>2. outcome'[w] = "online" /\ \A v \in Worker : v # w => outcome'[v] = outcome[v]
    BY <1>5 DEF ProbeSucceeds, TypeOK
  <2>3. WorkerProbes(w)'
    BY <2>1, <2>2 DEF WorkerProbes
  <2> QED
    BY <1>5, <2>1, <2>2, <2>3, ProbeCounted
    DEF ProbeSucceeds, channels, feederVars, mainVars
<1>6. ASSUME NEW e \in ProbeErrors, ProbeFails(w, e) PROVE ProbesOK'
  <2>0. cur[w] \in Target /\ probes[cur[w]] = attempt[w] /\ attempt[w] \in 0..MaxRetries
        /\ pc[w] = "probing" /\ outcome[w] \in Statuses
    BY <1>6, HandsHold DEF ProbeFails, Goto, Busy, ProbesOK, WorkerProbes, TypeOK
  <2>1. UNCHANGED <<fed, tasksCh, cur, attempt, resultsCh, results>>
        /\ probes' = [probes EXCEPT ![cur[w]] = @ + 1]
    BY <1>6 DEF ProbeFails, channels, feederVars, mainVars
  <2>2. probes'[cur[w]] = attempt[w] + 1
    BY <2>0, <2>1 DEF TypeOK
  <2>3. \A v \in Worker : v # w => pc'[v] = pc[v] /\ outcome'[v] = outcome[v]
    BY <1>6 DEF ProbeFails, Goto, TypeOK
  <2>4. WorkerProbes(w)'
    <3>1. CASE GivesUp(e, attempt[w])
      <4>1. pc'[w] = "sending" /\ outcome'[w] = StatusOf(e)
        BY <1>6, <3>1 DEF ProbeFails, Goto, TypeOK
      <4>2. StatusOf(e) = "offline" => attempt[w] >= MaxRetries
        BY <3>1 DEF StatusOf, GivesUp
      <4>3. outcome'[w] = "offline" => attempt[w] + 1 = MaxRetries + 1
        BY <1>0, <2>0, <4>1, <4>2
      <4> QED
        BY <2>1, <2>2, <4>1, <4>3 DEF WorkerProbes
    <3>2. CASE ~GivesUp(e, attempt[w])
      <4>1. pc'[w] = "backoff"
        BY <1>6, <3>2 DEF ProbeFails, Goto, TypeOK
      <4>2. attempt[w] < MaxRetries
        BY <1>0, <2>0, <3>2 DEF GivesUp
      <4> QED
        BY <2>1, <2>2, <4>1, <4>2 DEF WorkerProbes
    <3> QED
      BY <3>1, <3>2
  <2> QED
    BY <2>0, <2>1, <2>3, <2>4, ProbeCounted
<1>7. CASE BackoffOver(w)
  <2>1. pc[w] = "backoff" /\ pc'[w] = "probing" /\ WorkerProbes(w)
    BY <1>7, Moves DEF BackoffOver, ProbesOK
  <2>2. attempt'[w] = attempt[w] + 1 /\ \A v \in Worker : v # w => attempt'[v] = attempt[v]
    BY <1>7 DEF BackoffOver, TypeOK
  <2>3. UNCHANGED <<fed, tasksCh, cur, outcome, resultsCh, results, probes>>
    BY <1>7 DEF BackoffOver, channels, feederVars, mainVars, probeVars
  <2>4. WorkerProbes(w)'
    BY <2>1, <2>2, <2>3 DEF WorkerProbes
  <2> QED
    BY <1>1, <1>7, <2>2, <2>3, <2>4 DEF BackoffOver
<1>8. CASE BackoffCancelled(w)
  <2>1. WorkerProbes(w)'
    BY <1>8, Moves DEF BackoffCancelled, WorkerProbes
  <2> QED
    BY <1>1, <1>8, <2>1 DEF BackoffCancelled, channels, feederVars, mainVars, probeVars
<1>9. CASE SendResult(w)
  <2> DEFINE r == [target |-> cur[w], status |-> outcome[w]]
  <2>1. /\ pc[w] = "sending" /\ pc'[w] = "idle" /\ \A v \in Worker : v # w => pc'[v] = pc[v]
        /\ UNCHANGED <<fed, tasksCh, cur, attempt, outcome, results, probes>>
        /\ resultsCh' = Append(resultsCh, r)
    BY <1>9, Moves DEF SendResult, feederVars, mainVars, probeVars
  <2>2. cur[w] \in Target /\ WorkerProbes(w)
    BY <2>1, HandsHold DEF Busy, ProbesOK
  <2>3. r \in Result /\ resultsCh \in Seq(Result)
    BY <2>2 DEF Result, TypeOK
  <2>4. r.status = "offline" => probes[r.target] = MaxRetries + 1
    BY <2>1, <2>2 DEF WorkerProbes
  <2>5. AllTried(Append(resultsCh, r))
    BY <2>3, <2>4, SameTried, AppendTargets
  <2>6. \A v \in Worker : WorkerProbes(v)'
    BY <2>1 DEF WorkerProbes, ProbesOK
  <2>7. Taken' = Taken
    BY <2>1 DEF Taken
  <2> QED
    BY <1>0, <2>1, <2>5, <2>6, <2>7, SameTried, ProbesQuiet
<1> QED
  BY <1>2, <1>3, <1>4, <1>5, <1>6, <1>7, <1>8, <1>9 DEF WorkerNext, Probe

LEMMA NextProbes ==
  ASSUME TypeOK, PlacesOK, ProbesOK, [Next]_vars PROVE ProbesOK'
<1>0. Taken \in Nat /\ Taken >= Taken
  BY TakenIsNat
<1>1. ASSUME Taken' = Taken, UNCHANGED <<workerVars, probes>>,
             AllTried(resultsCh'), AllTried(results')
      PROVE  ProbesOK'
  <2>1. \A w \in Worker : WorkerProbes(w)'
    BY <1>1 DEF ProbesOK, WorkerProbes, workerVars
  <2> QED
    BY <1>0, <1>1, <2>1, ProbesQuiet
<1>2. UNCHANGED <<fed, tasksCh>> => Taken' = Taken
  BY DEF Taken
<1>3. CASE Feed
  BY <1>1, <1>3, FeedPlaces, SameTried DEF Feed, mainVars, probeVars
<1>4. CASE FeederCloses \/ FeederStops
  BY <1>1, <1>2, <1>4, SameTried DEF FeederCloses, FeederStops, channels, mainVars, probeVars
<1>5. CASE CloseResults
  BY <1>1, <1>2, <1>5, SameTried DEF CloseResults, feederVars, mainVars, probeVars
<1>6. CASE Collect
  <2> DEFINE r == Head(resultsCh)
  <2>1. /\ resultsCh # <<>> /\ resultsCh' = Tail(resultsCh) /\ results' = Append(results, r)
        /\ resultsCh \in Seq(Result) /\ results \in Seq(Result)
        /\ UNCHANGED <<workerVars, probes>> /\ Taken' = Taken
    BY <1>6, CollectPlaces DEF Collect, TypeOK, probeVars
  <2>2. r \in Result /\ AllTried(Tail(resultsCh))
        /\ (r.status = "offline" => probes[r.target] = MaxRetries + 1)
    BY <2>1, SameTried, TailTargets
  <2>3. AllTried(Append(results, r))
    BY <2>1, <2>2, SameTried, AppendTargets
  <2> QED
    BY <1>1, <2>1, <2>2, <2>3
<1>7. CASE Return
  BY <1>1, <1>2, <1>7, SameTried DEF Return, channels, feederVars, probeVars
<1>8. CASE Cancel
  BY <1>1, <1>2, <1>8, SameTried DEF Cancel, channels, feederVars, mainVars, probeVars
<1>9. CASE UNCHANGED vars
  BY <1>1, <1>2, <1>9, SameTried DEF vars, channels, feederVars, mainVars, probeVars
<1> QED
  BY <1>3, <1>4, <1>5, <1>6, <1>7, <1>8, <1>9, WorkerProbesNext DEF Next, MainNext, FeederNext

-----------------------------------------------------------------------------
(* A worker that has returned does nothing more.                           *)
LEMMA NextClosed ==
  ASSUME TypeOK, ClosedOK, [Next]_vars PROVE ClosedOK'
<1>1. CASE resultsClosed
  <2>1. \A w \in Worker : pc[w] = "exited"
    BY <1>1 DEF ClosedOK
  <2>2. ASSUME NEW w \in Worker, WorkerNext(w) PROVE FALSE
    BY <2>1, <2>2
    DEF WorkerNext, Probe, Receive, RangeEnds, Begin, ProbeSucceeds, ProbeFails, BackoffOver,
        BackoffCancelled, SendResult, Goto
  <2>3. pc' = pc
    BY <2>2
    DEF Next, FeederNext, Feed, FeederCloses, FeederStops, CloseResults, MainNext, Collect,
        Return, Cancel, vars, workerVars
  <2> QED
    BY <2>1, <2>3 DEF ClosedOK
<1>2. CASE ~resultsClosed
  <2>1. CASE CloseResults
    BY <2>1 DEF CloseResults, ClosedOK, workerVars
  <2>2. CASE resultsClosed' = resultsClosed
    BY <1>2, <2>2 DEF ClosedOK
  <2>3. ASSUME NEW w \in Worker, WorkerNext(w) PROVE resultsClosed' = resultsClosed
    BY <2>3
    DEF WorkerNext, Probe, Receive, RangeEnds, Begin, ProbeSucceeds, ProbeFails, BackoffOver,
        BackoffCancelled, SendResult, channels
  <2> QED
    BY <2>1, <2>2, <2>3
    DEF Next, FeederNext, Feed, FeederCloses, FeederStops, MainNext, Collect, Return, Cancel,
        vars, channels
<1> QED
  BY <1>1, <1>2

(* A pool just made, whether or not its context is cancelled already. *)
Fresh ==
  /\ fed = 0
  /\ feeder = "feeding"
  /\ tasksCh = <<>>
  /\ pc = [w \in Worker |-> "idle"]
  /\ cur = [w \in Worker |-> NoTarget]
  /\ attempt = [w \in Worker |-> 0]
  /\ outcome = [w \in Worker |-> "online"]
  /\ resultsCh = <<>>
  /\ resultsClosed = FALSE
  /\ results = <<>>
  /\ main = "collecting"
  /\ cancelled \in BOOLEAN
  /\ probes = [t \in Target |-> 0]
  /\ rejections = [t \in Target |-> 0]

LEMMA FreshInv == Fresh => PoolInv
<1> SUFFICES ASSUME Fresh PROVE PoolInv
  OBVIOUS
<1>1. TypeOK
  <2>1. /\ tasksCh = <<>> /\ resultsCh = <<>> /\ results = <<>>
        /\ tasksCh \in Seq(Target) /\ resultsCh \in Seq(Result) /\ results \in Seq(Result)
    BY DEF Fresh
  <2>2. Len(tasksCh) <= TaskBuffer /\ Len(resultsCh) <= ResultBuffer
    BY <2>1, PoolAssumption
  <2>3. 0 \in 0..NumTargets /\ 0 \in 0..MaxRetries
    BY PoolAssumption
  <2>4. /\ pc \in [Worker -> {"idle", "taken", "probing", "backoff", "sending", "exited"}]
        /\ cur \in [Worker -> Target \cup {NoTarget}]
        /\ attempt \in [Worker -> 0..MaxRetries] /\ outcome \in [Worker -> Statuses]
    BY <2>3 DEF Fresh, Statuses
  <2>5. probes \in [Target -> Nat] /\ rejections \in [Target -> Nat]
    BY DEF Fresh
  <2> QED
    BY <2>1, <2>2, <2>3, <2>4, <2>5 DEF Fresh, TypeOK
<1>2. Busies = {} /\ Held = {}
  BY DEF Fresh, Busies, Busy, Held
<1>3. tasksCh = <<>> /\ resultsCh = <<>> /\ results = <<>> /\ fed = 0 /\ Taken = 0
  <2>1. tasksCh = <<>> /\ resultsCh = <<>> /\ results = <<>> /\ fed = 0
    BY DEF Fresh
  <2>2. Taken = 0 - Len(<<>>)
    BY <2>1 DEF Taken
  <2>3. Len(<<>>) = 0
    OBVIOUS
  <2>4. Taken = 0 - 0
    BY <2>2, <2>3
  <2>5. Taken = 0
    BY <2>4
  <2> QED
    BY <2>1, <2>5
<1>4. Targets(resultsCh) = {} /\ Targets(results) = {} /\ Once(resultsCh) /\ Once(results)
  BY <1>3 DEF Targets, Once
<1>5. QueueOK
  BY <1>3 DEF QueueOK
<1>6. PlacesOK
  BY <1>2, <1>3, <1>4, <1>5 DEF PlacesOK
<1>7. \A w \in Worker : WorkerProbes(w)
  BY DEF Fresh, WorkerProbes
<1>8. AllTried(resultsCh) /\ AllTried(results)
  BY <1>3 DEF AllTried
<1>9. \A t \in Target : probes[t] = 0
  BY DEF Fresh
<1>10. ProbesOK
  BY <1>7, <1>8, <1>9, PoolAssumption DEF ProbesOK
<1> QED
  BY <1>1, <1>6, <1>10 DEF PoolInv, ClosedOK, Fresh

LEMMA InitInv == Init => PoolInv
BY FreshInv DEF Init, Fresh

LEMMA PoolIsInvariant == Spec => []PoolInv
<1>1. PoolInv /\ [Next]_vars => PoolInv'
  BY NextType, NextPlaces, NextProbes, NextClosed DEF PoolInv
<1>2. QED
  BY <1>1, InitInv, PTL DEF Spec

(* No worker can still send a result when the collector closes resultsCh:  *)
(* it does so after the last worker has returned (wg.Wait in Execute).     *)
THEOREM NobodySendsAfterClose == Spec => []NoSendAfterClose
<1>1. PoolInv => NoSendAfterClose
  BY DEF PoolInv, ClosedOK, NoSendAfterClose, Busy
<1>2. QED
  BY <1>1, PoolIsInvariant, PTL

(* A host is probed at most MaxRetries + 1 times, and reported unreachable *)
(* after that many only (processTaskWithRetry).                            *)
THEOREM AttemptsAreExact == Spec => []RetriesAreUsedUp
<1>1. PoolInv => RetriesAreUsedUp
  <2> SUFFICES ASSUME PoolInv, NEW t \in Target
               PROVE  /\ probes[t] <= MaxRetries + 1
                      /\ \A i \in Results(t) :
                           results[i].status = "offline" => probes[t] = MaxRetries + 1
    BY DEF RetriesAreUsedUp
  <2> QED
    BY DEF PoolInv, ProbesOK, AllTried, Results
<1>2. QED
  BY <1>1, PoolIsInvariant, PTL

-----------------------------------------------------------------------------
(* At most one element, at most cardinality one. *)
LEMMA OneAtMost ==
  ASSUME NEW S, \A x, y \in S : x = y
  PROVE  Cardinality(S) \in {0, 1} /\ (S = {} <=> Cardinality(S) = 0)
<1>1. CASE S = {}
  BY <1>1, FS_EmptySet
<1>2. CASE S # {}
  <2>1. PICK x \in S : TRUE
    BY <1>2
  <2>2. S = {x}
    BY <2>1
  <2> QED
    BY <2>2, FS_Singleton
<1> QED
  BY <1>1, <1>2

(* Where target t is, in terms of the places.                              *)
LEMMA WhereItIs ==
  ASSUME TypeOK, PlacesOK, NEW t \in Target
  PROVE  /\ Queued(t) # {} <=> t > Taken /\ t <= fed
         /\ InHand(t) # {} <=> t \in Held
         /\ Sent(t) # {} <=> t \in Targets(resultsCh)
         /\ Results(t) # {} <=> t \in Targets(results)
<1>0. /\ Taken \in Nat /\ fed \in Nat /\ Len(tasksCh) \in Nat /\ fed = Taken + Len(tasksCh)
      /\ DOMAIN tasksCh = 1..Len(tasksCh) /\ t \in Nat
      /\ \A i \in DOMAIN tasksCh : tasksCh[i] = Taken + i
  <2>1. Taken \in Nat /\ fed \in Nat /\ tasksCh \in Seq(Target) /\ t \in Nat
    BY TakenIsNat, PoolAssumption DEF TypeOK, Target
  <2>2. Len(tasksCh) \in Nat /\ DOMAIN tasksCh = 1..Len(tasksCh)
    BY <2>1
  <2> QED
    BY <2>1, <2>2 DEF Taken, PlacesOK, QueueOK
<1>1. ASSUME Queued(t) # {} PROVE t > Taken /\ t <= fed
  <2>1. PICK i \in DOMAIN tasksCh : tasksCh[i] = t
    BY <1>1 DEF Queued
  <2> QED
    BY <1>0, <2>1
<1>2. ASSUME t > Taken, t <= fed PROVE Queued(t) # {}
  <2>1. t - Taken \in DOMAIN tasksCh /\ tasksCh[t - Taken] = Taken + (t - Taken)
    BY <1>0, <1>2
  <2>2. tasksCh[t - Taken] = t
    BY <1>0, <2>1
  <2> QED
    BY <2>1, <2>2 DEF Queued
<1>3. InHand(t) # {} <=> t \in Held
  BY DEF InHand, Held, Busies
<1>4. Sent(t) # {} <=> t \in Targets(resultsCh)
  BY DEF Sent, Targets
<1>5. Results(t) # {} <=> t \in Targets(results)
  BY DEF Results, Targets
<1> QED
  BY <1>1, <1>2, <1>3, <1>4, <1>5

(* Every place holds a target once.                                        *)
LEMMA HeldOnce ==
  ASSUME TypeOK, PlacesOK, NEW t \in Target
  PROVE  /\ Cardinality(Queued(t)) \in {0, 1} /\ (Queued(t) = {} <=> Cardinality(Queued(t)) = 0)
         /\ Cardinality(InHand(t)) \in {0, 1} /\ (InHand(t) = {} <=> Cardinality(InHand(t)) = 0)
         /\ Cardinality(Sent(t)) \in {0, 1} /\ (Sent(t) = {} <=> Cardinality(Sent(t)) = 0)
         /\ Cardinality(Results(t)) \in {0, 1} /\ (Results(t) = {} <=> Cardinality(Results(t)) = 0)
<1>1. \A i, j \in Queued(t) : i = j
  <2>1. Taken \in Nat /\ \A i \in DOMAIN tasksCh : i \in Nat /\ tasksCh[i] = Taken + i
    BY TakenIsNat DEF PlacesOK, QueueOK, TypeOK
  <2> QED
    BY <2>1 DEF Queued
<1>2. \A v, w \in InHand(t) : v = w
  BY DEF InHand, PlacesOK, Busies
<1>3. \A i, j \in Sent(t) : i = j
  BY DEF Sent, PlacesOK, Once
<1>4. \A i, j \in Results(t) : i = j
  BY DEF Results, PlacesOK, Once
<1> QED
  BY <1>1, <1>2, <1>3, <1>4, OneAtMost

(* A target the feeder has sent is queued, in one worker's hand, sent or   *)
(* collected, and in one of these places only; a cancellation may drop it, *)
(* and nothing doubles it (Execute and its goroutines, workerpool.go).     *)
THEOREM HostsAreKept == Spec => []NoHostLostOrDoubled
<1>1. PoolInv => NoHostLostOrDoubled
  <2> SUFFICES ASSUME PoolInv, NEW t \in Target
               PROVE  /\ t <= fed => Traces(t) <= 1
                      /\ ~(t <= fed) => Traces(t) <= 0
                      /\ ~cancelled /\ t <= fed => Traces(t) = 1
    BY DEF NoHostLostOrDoubled
  <2>0. TypeOK /\ PlacesOK /\ Taken \in Nat /\ fed \in Nat /\ t \in Nat \ {0} /\ Taken <= fed
    <3>1. TypeOK /\ PlacesOK
      BY DEF PoolInv
    <3>2. fed \in Nat /\ Len(tasksCh) \in Nat /\ t \in Nat \ {0}
      BY <3>1, PoolAssumption DEF TypeOK, Target
    <3> QED
      BY <3>1, <3>2, TakenIsNat DEF Taken
  <2> DEFINE q == Cardinality(Queued(t))  h == Cardinality(InHand(t))
             s == Cardinality(Sent(t))    c == Cardinality(Results(t))
  <2>1. /\ q \in {0, 1} /\ (q = 1 <=> t > Taken /\ t <= fed)
        /\ h \in {0, 1} /\ (h = 1 <=> t \in Held)
        /\ s \in {0, 1} /\ (s = 1 <=> t \in Targets(resultsCh))
        /\ c \in {0, 1} /\ (c = 1 <=> t \in Targets(results))
    BY <2>0, WhereItIs, HeldOnce
  <2>2. Traces(t) = q + h + s + c
    BY DEF Traces
  <2>3. t \in Held \cup Targets(resultsCh) \cup Targets(results) => t <= Taken
    BY <2>0 DEF PlacesOK
  <2>4. ~(t \in Held /\ t \in Targets(resultsCh)) /\ ~(t \in Held /\ t \in Targets(results))
        /\ ~(t \in Targets(resultsCh) /\ t \in Targets(results))
    BY <2>0 DEF PlacesOK
  <2>5. ~cancelled /\ t <= Taken => t \in Held \cup Targets(resultsCh) \cup Targets(results)
    BY <2>0 DEF PlacesOK
  <2> HIDE DEF q, h, s, c
  <2>6. q + h + s + c <= 1
    BY <2>0, <2>1, <2>3, <2>4
  <2>7. ~(t <= fed) => q + h + s + c <= 0
    BY <2>0, <2>1, <2>3
  <2>8. ~cancelled /\ t <= fed => q + h + s + c = 1
    BY <2>0, <2>1, <2>3, <2>4, <2>5
  <2> QED
    BY <2>2, <2>6, <2>7, <2>8
<1>2. QED
  BY <1>1, PoolIsInvariant, PTL

-----------------------------------------------------------------------------
(* Gateway *)

(* Unless it is cancelled, a worker returns only when every target was     *)
(* fed and taken, and Execute only when every result was collected.        *)
EndsOK ==
  /\ feeder = "closed" => fed = NumTargets
  /\ ~cancelled => \A w \in Worker : pc[w] = "exited" => feeder = "closed" /\ tasksCh = <<>>
  /\ main = "returned" => resultsClosed /\ resultsCh = <<>>

(* The dispatch loop has the results of Execute when it uploads them. *)
LoopOK ==
  /\ fate \in [Job -> {"queued", "polled", "streamed", "lost"}]
  /\ loop = "streaming" => main = "returned"

GwInv == PoolInv /\ EndsOK /\ LoopOK

-----------------------------------------------------------------------------
(* How a pool ends. *)
LEMMA WorkerEnds ==
  ASSUME PoolInv, EndsOK, NEW w \in Worker, WorkerNext(w) PROVE EndsOK'
<1>0. TypeOK /\ ClosedOK
  BY DEF PoolInv
<1>1. UNCHANGED <<fed, feeder, main, cancelled, resultsClosed>>
  BY DEF WorkerNext, Probe, Receive, RangeEnds, Begin, ProbeSucceeds, ProbeFails, BackoffOver,
         BackoffCancelled, SendResult, channels, feederVars, mainVars
<1>2. tasksCh = <<>> => tasksCh' = <<>>
  BY DEF WorkerNext, Probe, Receive, RangeEnds, Begin, ProbeSucceeds, ProbeFails, BackoffOver,
         BackoffCancelled, SendResult, channels
<1>3. /\ pc[w] # "exited"
      /\ pc'[w] = "exited" => cancelled \/ (feeder = "closed" /\ tasksCh = <<>>)
      /\ \A v \in Worker : v # w => pc'[v] = pc[v]
  <2>1. ASSUME NEW from, NEW to, from # "exited", Goto(w, from, to),
               to = "exited" => cancelled \/ (feeder = "closed" /\ tasksCh = <<>>)
        PROVE  /\ pc[w] # "exited"
               /\ pc'[w] = "exited" => cancelled \/ (feeder = "closed" /\ tasksCh = <<>>)
               /\ \A v \in Worker : v # w => pc'[v] = pc[v]
    BY <1>0, <2>1, Moves
  <2>2. CASE Receive(w) \/ RangeEnds(w)
    BY <2>1, <2>2 DEF Receive, RangeEnds
  <2>5. CASE Begin(w)
    <3>1. CASE cancelled
      <4>1. Goto(w, "taken", "exited")
        BY <2>5, <3>1 DEF Begin
      <4> QED
        BY <1>0, <3>1, <4>1, Moves
    <3>2. CASE ~cancelled
      BY <2>1, <2>5, <3>2 DEF Begin
    <3> QED
      BY <3>1, <3>2
  <2>3. CASE Probe(w)
    BY <2>1, <2>3 DEF Probe, ProbeSucceeds, ProbeFails
  <2>4. CASE BackoffOver(w) \/ BackoffCancelled(w) \/ SendResult(w)
    BY <2>1, <2>4 DEF BackoffOver, BackoffCancelled, SendResult
  <2> QED
    BY <2>2, <2>3, <2>4, <2>5 DEF WorkerNext
<1>4. ~resultsClosed /\ main # "returned"
  BY <1>0, <1>3 DEF ClosedOK, EndsOK
<1> QED
  BY <1>1, <1>2, <1>3, <1>4 DEF EndsOK

LEMMA NextEnds == ASSUME PoolInv, EndsOK, [Next]_vars PROVE EndsOK'
<1>1. CASE FeederNext
  BY <1>1 DEF FeederNext, Feed, FeederCloses, FeederStops, EndsOK, channels, workerVars, mainVars
<1>2. CASE CloseResults
  BY <1>2 DEF CloseResults, EndsOK, feederVars, workerVars, mainVars
<1>3. CASE Collect
  BY <1>3 DEF Collect, EndsOK, feederVars, workerVars
<1>4. CASE Return
  BY <1>4 DEF Return, EndsOK, channels, feederVars, workerVars
<1>5. CASE Cancel
  BY <1>5 DEF Cancel, EndsOK, channels, feederVars, workerVars, mainVars
<1>6. CASE UNCHANGED vars
  BY <1>6 DEF vars, EndsOK, channels, feederVars, workerVars, mainVars
<1> QED
  BY <1>1, <1>2, <1>3, <1>4, <1>5, <1>6, WorkerEnds DEF Next, MainNext

(* A new pool, and a cancellation from outside, satisfy the invariant too. *)
LEMMA FreshEnds == Fresh => PoolInv /\ EndsOK
<1>1. Fresh => EndsOK
  BY DEF Fresh, EndsOK
<1> QED
  BY <1>1, FreshInv

LEMMA FreshEndsNext == Fresh' => PoolInv' /\ EndsOK'
BY FreshEnds, PTL

LEMMA CancelledPool ==
  ASSUME PoolInv, EndsOK, UNCHANGED poolVars, cancelled' = TRUE PROVE PoolInv' /\ EndsOK'
<1>1. UNCHANGED <<fed, feeder, tasksCh, pc, cur, attempt, outcome, resultsCh, resultsClosed,
                  results, main, probes, rejections>>
  BY DEF poolVars, channels, feederVars, workerVars, mainVars, probeVars
<1>2. TypeOK'
  BY <1>1 DEF PoolInv, TypeOK
<1>3. Busies' = Busies
  BY <1>1 DEF Busies, Busy
<1>4. PlacesOK' /\ Taken' = Taken
  BY <1>1, <1>3, PlacesStay DEF PoolInv
<1>5. ProbesOK'
  BY <1>1, <1>4 DEF PoolInv, ProbesOK, WorkerProbes, AllTried
<1>6. ClosedOK' /\ EndsOK'
  BY <1>1 DEF PoolInv, ClosedOK, EndsOK
<1> QED
  BY <1>2, <1>4, <1>5, <1>6 DEF PoolInv

-----------------------------------------------------------------------------
(* The gateway around it *)

(* A step that leaves the pool alone, and the loop with Execute's results. *)
LEMMA PoolUntouched ==
  ASSUME PoolInv, EndsOK, UNCHANGED <<poolVars, cancelled>>
  PROVE  PoolInv' /\ EndsOK' /\ main' = main
<1>1. UNCHANGED vars /\ main' = main
  BY DEF poolVars, vars, channels, feederVars, workerVars, mainVars, probeVars
<1> QED
  BY <1>1, NextEnds, NextType, NextPlaces, NextProbes, NextClosed DEF PoolInv

LEMMA PoolWorks == ASSUME GwInv, PoolStep PROVE GwInv'
<1>1. [Next]_vars /\ loop = "scanning" /\ UNCHANGED <<fate, loop>>
  BY DEF PoolStep, InPool, Next, loopVars
<1>2. PoolInv' /\ EndsOK'
  BY <1>1, NextEnds, NextType, NextPlaces, NextProbes, NextClosed DEF GwInv, PoolInv
<1> QED
  BY <1>1, <1>2 DEF GwInv, LoopOK

LEMMA ScanStartsInv == ASSUME GwInv, ScanStarts PROVE GwInv'
<1>1. cancelled \in BOOLEAN
  BY DEF GwInv, PoolInv, TypeOK
<1>2. Fresh'
  BY <1>1 DEF ScanStarts, Launch, Fresh
<1>3. LoopOK'
  BY DEF ScanStarts, GwInv, LoopOK
<1> QED
  BY <1>2, <1>3, FreshEndsNext DEF GwInv

LEMMA LoopInv == ASSUME GwInv, LoopNext PROVE GwInv'
<1>1. CASE ScanStarts
  BY <1>1, ScanStartsInv
<1>2. CASE ~ScanStarts
  <2>1. UNCHANGED <<poolVars, cancelled>>
    BY <1>2 DEF LoopNext, Ready, Polls, PollNothing, PollFails, PollJobs, NoMoreJobs, SecretFails,
                ScanEnds, Streams, StreamSucceeds, StreamFails, Wake
  <2>2. PoolInv' /\ EndsOK' /\ main' = main
    BY <2>1, PoolUntouched DEF GwInv
  <2>3. loop' = "streaming" => ScanEnds \/ loop = "streaming"
    BY <1>2 DEF LoopNext, Ready, Polls, PollNothing, PollFails, PollJobs, NoMoreJobs, SecretFails,
                Streams, StreamSucceeds, StreamFails, Wake, GoToSleep
  <2>4. loop' = "streaming" => main' = "returned"
    BY <2>2, <2>3 DEF ScanEnds, GwInv, LoopOK
  <2>5. fate' \in [Job -> {"queued", "polled", "streamed", "lost"}]
    <3>1. CASE Polls \/ SecretFails \/ Streams
      BY <3>1 DEF Polls, PollNothing, PollFails, PollJobs, SecretFails, Streams, StreamSucceeds,
                  StreamFails, GwInv, LoopOK
    <3>2. CASE Ready \/ NoMoreJobs \/ ScanEnds \/ Wake
      BY <3>2 DEF Ready, NoMoreJobs, ScanEnds, Wake, GwInv, LoopOK
    <3> QED
      BY <1>2, <3>1, <3>2 DEF LoopNext
  <2> QED
    BY <2>2, <2>4, <2>5 DEF GwInv, LoopOK
<1> QED
  BY <1>1, <1>2

LEMMA GwNextInv == GwInv /\ [GwNext]_gwVars => GwInv'
<1> SUFFICES ASSUME GwInv, [GwNext]_gwVars PROVE GwInv'
  OBVIOUS
<1>1. ASSUME UNCHANGED <<poolVars, cancelled, loopVars>> PROVE GwInv'
  BY <1>1, PoolUntouched DEF GwInv, LoopOK, loopVars
<1>2. ASSUME ShutdownSignal PROVE GwInv'
  <2>1. UNCHANGED poolVars /\ cancelled' = TRUE /\ UNCHANGED <<fate, loop, main>>
    BY <1>2 DEF ShutdownSignal, loopVars, poolVars, mainVars
  <2> QED
    BY <2>1, CancelledPool DEF GwInv, LoopOK
<1>3. CASE BeatSent \/ BeatDue \/ BeatStops \/ StopHeartbeat \/ Exit
  BY <1>1, <1>3 DEF BeatSent, BeatDue, BeatStops, StopHeartbeat, Exit
<1>4. CASE UNCHANGED gwVars
  BY <1>1, <1>4 DEF gwVars
<1> QED
  BY <1>2, <1>3, <1>4, LoopInv, PoolWorks DEF GwNext

-----------------------------------------------------------------------------
(* What Execute has when it returns to a loop that was not cancelled. *)
LEMMA ReturnedIsWhole ==
  ASSUME GwInv, main = "returned", ~cancelled
  PROVE  /\ Len(results) = NumTargets
         /\ \A t \in Target : Cardinality(Results(t)) = 1
<1>1. TypeOK /\ PlacesOK /\ ClosedOK /\ EndsOK
  BY DEF GwInv, PoolInv
<1>2. resultsClosed /\ resultsCh = <<>> /\ \A w \in Worker : pc[w] = "exited"
  BY <1>1 DEF EndsOK, ClosedOK
<1>3. feeder = "closed" /\ tasksCh = <<>> /\ fed = NumTargets
  BY <1>1, <1>2, PoolAssumption DEF EndsOK
<1>4. Taken = NumTargets
  <2>1. Len(tasksCh) = 0
    BY <1>3
  <2> QED
    BY <1>3, <2>1, PoolAssumption DEF Taken
<1>5. Held = {} /\ Targets(resultsCh) = {}
  BY <1>2 DEF Held, Busies, Busy, Targets
<1>6. Targets(results) = Target
  BY <1>1, <1>4, <1>5 DEF PlacesOK, Target
<1>7. ASSUME NEW t \in Target PROVE Cardinality(Results(t)) = 1
  <2>1. Results(t) # {}
    BY <1>1, <1>6, WhereItIs
  <2> QED
    BY <1>1, <2>1, HeldOnce
<1>8. Len(results) = NumTargets
  <2> DEFINE S == 1..Len(results)
             f == [i \in S |-> results[i].target]
  <2>1. Len(results) \in Nat /\ DOMAIN results = S /\ \A i \in S : results[i].target \in Target
    <3>1. results \in Seq(Result)
      BY <1>1 DEF TypeOK
    <3>2. Len(results) \in Nat /\ DOMAIN results = S /\ \A i \in S : results[i] \in Result
      BY <3>1
    <3> QED
      BY <3>2 DEF Result
  <2>2. f \in Surjection(S, Target) /\ f \in Injection(S, Target)
    <3>1. \A t \in Target : \E i \in S : f[i] = t
      BY <1>6, <2>1 DEF Targets
    <3>2. \A i, k \in S : f[i] = f[k] => i = k
      BY <1>1, <2>1 DEF PlacesOK, Once
    <3>3. f \in [S -> Target]
      BY <2>1
    <3> HIDE DEF f, S
    <3>4. f \in Surjection(S, Target)
      BY <3>1, <3>3 DEF Surjection
    <3>5. f \in Injection(S, Target)
      BY <3>2, <3>3 DEF Injection, IsInjective
    <3> QED
      BY <3>4, <3>5
  <2>3. IsFiniteSet(S) /\ Cardinality(S) = Len(results)
    BY <2>1, FS_Interval
  <2>4. Cardinality(Target) = NumTargets
    BY FS_Interval, PoolAssumption DEF Target
  <2>5. Cardinality(Target) = Cardinality(S)
    BY <2>2, <2>3, FS_Surjection
  <2> QED
    BY <2>3, <2>4, <2>5
<1> QED
  BY <1>7, <1>8

(* Only a 2xx answer to the upload makes a job streamed. *)
LEMMA OnlyStreaming ==
  ASSUME GwInv, [GwNext]_gwVars, NEW j \in Job, fate[j] # "streamed", fate'[j] = "streamed"
  PROVE  StreamSucceeds
<1>1. fate' # fate
  OBVIOUS
<1>2. PollJobs(todo') \/ SecretFails \/ Streams
  <2>1. ASSUME Polls PROVE PollJobs(todo')
    BY <1>1, <2>1 DEF Polls, PollNothing, PollFails, PollJobs
  <2> QED
    BY <1>1, <2>1
    DEF GwNext, gwVars, loopVars, LoopNext, Ready, NoMoreJobs, ScanStarts, ScanEnds, Wake,
        PoolStep, InPool, BeatSent, BeatDue, BeatStops, ShutdownSignal, StopHeartbeat, Exit
<1>3. ~PollJobs(todo')
  BY DEF PollJobs
<1>4. ~SecretFails /\ ~StreamFails
  BY DEF SecretFails, StreamFails, GwInv, LoopOK
<1> QED
  BY <1>2, <1>3, <1>4 DEF Streams

(* A batch that the control plane accepts has one result for each of its   *)
(* hosts: a batch cut short by the shutdown is not uploaded, because       *)
(* StreamResults uses the context that cut it short (main.go).             *)
THEOREM UploadsAreWhole == GwSpec => StreamedBatchesAreWhole
<1>1. GwInit => GwInv
  <2> SUFFICES ASSUME GwInit PROVE GwInv
    OBVIOUS
  <2>1. Fresh /\ LoopOK
    BY DEF GwInit, Init, Fresh, LoopOK
  <2> QED
    BY <2>1, FreshEnds DEF GwInv
<1>2. GwInv /\ [GwNext]_gwVars =>
        [\A j \in Job : fate[j] # "streamed" /\ fate'[j] = "streamed" =>
           /\ Len(results) = NumTargets
           /\ \A t \in Target : Cardinality(Results(t)) = 1]_gwVars
  <2> SUFFICES ASSUME GwInv, [GwNext]_gwVars,
                      NEW j \in Job, fate[j] # "streamed", fate'[j] = "streamed"
               PROVE  /\ Len(results) = NumTargets
                      /\ \A t \in Target : Cardinality(Results(t)) = 1
    OBVIOUS
  <2>1. StreamSucceeds
    BY OnlyStreaming
  <2>2. main = "returned" /\ ~cancelled
    BY <2>1 DEF StreamSucceeds, GwInv, LoopOK
  <2> QED
    BY <2>2, ReturnedIsWhole
<1> QED
  BY <1>1, <1>2, GwNextInv, PTL DEF GwSpec, StreamedBatchesAreWhole
=============================================================================
