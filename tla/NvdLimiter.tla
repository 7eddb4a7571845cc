----------------------------- MODULE NvdLimiter -----------------------------
(***************************************************************************)
(* The limiter of requests to NVD, apps/api/internal/vulnscan/ratelimit.go *)
(* under the retries of NVDClient.FetchCVEPage.  Wait refills by the time  *)
(* since the last request, unlocks to sleep, and takes its token without   *)
(* looking again: its callers are only kept apart by the mutex of the      *)
(* worker, which SyncFeedsNow holds over the whole call.                   *)
(*                                                                         *)
(* Tokens are counted in ticks, one token being the Interval in which the  *)
(* limiter refills it, so that the rate is one per tick.                   *)
(***************************************************************************)
EXTENDS Integers, Sequences, FiniteSetsExt, SequencesExt

CONSTANTS
  Syncer,      \* callers of SyncFeedsNow
  Interval,    \* r.interval, 6 s without an API key
  maxBurst,    \* 3
  Budget,      \* the requests NVD grants in Budget * Interval, 5 in 30 s
  Backoffs,    \* base and maximal delay after a transport error, a refusal
  NvdAttempts  \* maxRetries of FetchCVEPage, 3

ASSUME NvdAssumption ==
  /\ {Interval, maxBurst, Budget} \subseteq Nat \ {0}
  /\ NvdAttempts \in Nat

VARIABLES
  nvdTokens,   \* r.tokens, in ticks
  lastRequest, \* ticks since r.lastRequest, Never before the first request
  syncer,      \* per caller its position, its attempt and its timer
  recent,      \* history: the ages of the requests, the last one first
  creditedTwice \* history: a wait was cancelled after its refill

nlVars == <<nvdTokens, lastRequest, syncer, recent, creditedTwice>>

Never == -1
Away == [pc |-> "away"]
Full == maxBurst * Interval

NlInit ==
  /\ nvdTokens = Interval /\ lastRequest = Never
  /\ syncer = [s \in Syncer |-> Away] /\ recent = << >>
  /\ creditedTwice = FALSE

Stays(s, position) ==
  /\ syncer' = [syncer EXCEPT ![s] = position]
  /\ UNCHANGED <<nvdTokens, lastRequest, recent, creditedTwice>>

(* Fault: synchronisations do not exclude each other. *)
AnyTime(s) == syncer[s] = Away

(* w.mu *)
MayEnter(s) == \A t \in Syncer : syncer[t] = Away

FetchBegins(s) == MayEnter(s) /\ Stays(s, [pc |-> "limited", attempt |-> 1])

(* The tokens after the refill, and how long a caller waits for its own.   *)
Replenished == IF lastRequest = Never THEN nvdTokens
               ELSE Min({nvdTokens + lastRequest, Full})

waitDuration(tokens) ==
  IF tokens < Interval THEN Interval - tokens
  ELSE IF lastRequest # Never /\ lastRequest < Interval THEN Interval - lastRequest ELSE 0

(* Wait, up to where it unlocks. *)
WaitBegins(s) ==
  /\ syncer[s].pc = "limited"
  /\ nvdTokens' = Replenished
  /\ syncer' = [syncer EXCEPT ![s] =
       [pc |-> "asleep", attempt |-> @.attempt, timer |-> waitDuration(Replenished)]]
  /\ UNCHANGED <<lastRequest, recent, creditedTwice>>

(* Wait, from its timer on: the request follows. *)
WaitReturns(s) ==
  /\ syncer[s].pc = "asleep" /\ syncer[s].timer = 0
  /\ nvdTokens' = Max({nvdTokens - Interval, 0})
  /\ lastRequest' = 0
  /\ recent' = <<0>> \o recent
  /\ syncer' = [syncer EXCEPT ![s] = [pc |-> "sent", attempt |-> @.attempt]]
  /\ UNCHANGED creditedTwice

CalculateBackoff(attempt, base, max) ==
  LET temp == Min({Min({2 ^ (attempt - 1), 32}) * base, max})
  IN IF temp <= base \div 2 THEN {base} ELSE (base \div 2) .. (temp - 1)

(* An answer, or an error that is not tried again. *)
FetchEnds(s) == syncer[s].pc = "sent" /\ Stays(s, Away)

FetchFails(s) ==
  /\ syncer[s].pc = "sent"
  /\ \E delay \in Backoffs :
       \E timer \in CalculateBackoff(syncer[s].attempt, delay[1], delay[2]) :
         Stays(s, [pc |-> "backoff", attempt |-> syncer[s].attempt, timer |-> timer])

FetchRepeats(s) ==
  /\ syncer[s].pc = "backoff" /\ syncer[s].timer = 0
  /\ Stays(s, IF syncer[s].attempt < NvdAttempts
              THEN [pc |-> "limited", attempt |-> syncer[s].attempt + 1] ELSE Away)

(* The context ends a caller that sleeps.  In Wait the refill has been     *)
(* made and lastRequest has not moved: the next call makes it once more.   *)
FetchCancelled(s) ==
  /\ syncer[s].pc \in {"asleep", "backoff"}
  /\ syncer' = [syncer EXCEPT ![s] = Away]
  /\ creditedTwice' = (creditedTwice \/ syncer[s].pc = "asleep")
  /\ UNCHANGED <<nvdTokens, lastRequest, recent>>

(* Time passes; nothing older than the budget's period is remembered, and  *)
(* a limiter that has been idle for its burst is full.                     *)
NlTick ==
  /\ lastRequest' = IF lastRequest = Never THEN Never ELSE Min({lastRequest + 1, Full})
  /\ recent' = [i \in {i \in DOMAIN recent : recent[i] < Budget * Interval} |-> recent[i] + 1]
  /\ syncer' = [s \in Syncer |->
       IF "timer" \in DOMAIN syncer[s] /\ syncer[s].timer > 0
       THEN [syncer[s] EXCEPT !.timer = @ - 1] ELSE syncer[s]]
  /\ UNCHANGED <<nvdTokens, creditedTwice>>

NlNext ==
  \/ \E s \in Syncer :
       \/ FetchBegins(s) \/ WaitBegins(s) \/ WaitReturns(s)
       \/ FetchEnds(s) \/ FetchFails(s) \/ FetchRepeats(s) \/ FetchCancelled(s)
  \/ NlTick

NlSpec == NlInit /\ [][NlNext]_nlVars

-----------------------------------------------------------------------------
(* The budget NVD grants is never exceeded by more than one request in any *)
(* of its periods, through bursts, retries and late timers, though the     *)
(* limiter does not count the tokens of the time it slept and can let two  *)
(* requests follow each other faster than its interval; a wait that is     *)
(* cancelled breaks this, as its refill is then made twice.                *)
BudgetIsKept == ~creditedTwice => Len(recent) <= Budget + 1
=============================================================================
