-------------------------- MODULE SubnetRateLimiter --------------------------
(***************************************************************************)
(* The concurrency limiter of a collector gateway,                         *)
(* apps/gateway/internal/scanner/ratelimiter.go: a counting semaphore (the *)
(* buffered channel sem) with two counters next to it, which are updated   *)
(* under a mutex of their own, after the channel operation and not with    *)
(* it.  Its clients are goroutines that run Execute: acquire, probe,       *)
(* release.                                                                *)
(***************************************************************************)
EXTENDS Integers, FiniteSets

CONSTANTS
  Client,         \* goroutines that call Execute
  maxConcurrency  \* capacity of sem

ASSUME LimiterAssumption ==
  /\ IsFiniteSet(Client)
  /\ maxConcurrency \in Nat \ {0}

VARIABLES
  sem,         \* tokens in the channel
  activeCount, \* what ActiveSessions returns
  peakCount,   \* what PeakSessions returns
  pc           \* per client: outside, entered, probing, released

vars == <<sem, activeCount, peakCount, pc>>

At(l) == {c \in Client : pc[c] = l}
Goto(c, from, to) == pc[c] = from /\ pc' = [pc EXCEPT ![c] = to]
Larger(m, n) == IF m > n THEN m ELSE n

Init ==
  /\ sem = 0
  /\ activeCount = 0
  /\ peakCount = 0
  /\ pc = [c \in Client |-> "outside"]

(* Fault: the channel has room for one token more. *)
SendTokenWide(c) ==
  /\ sem <= maxConcurrency /\ sem' = sem + 1
  /\ Goto(c, "outside", "entered")
  /\ UNCHANGED <<activeCount, peakCount>>

(* Acquire, its channel send.  A client whose context ends instead returns *)
(* an error and stays outside.                                             *)
SendToken(c) ==
  /\ sem < maxConcurrency /\ sem' = sem + 1
  /\ Goto(c, "outside", "entered")
  /\ UNCHANGED <<activeCount, peakCount>>

(* Acquire, its locked section; then fn runs. *)
CountUp(c) ==
  /\ Goto(c, "entered", "probing")
  /\ activeCount' = activeCount + 1
  /\ peakCount' = Larger(peakCount, activeCount + 1)
  /\ UNCHANGED sem

(* Release, its channel receive; with no token in the channel it returns.  *)
TakeToken(c) ==
  /\ IF sem > 0
       THEN Goto(c, "probing", "released") /\ sem' = sem - 1
       ELSE Goto(c, "probing", "outside") /\ UNCHANGED sem
  /\ UNCHANGED <<activeCount, peakCount>>

(* Fault: the guard looks at the token count instead of the counter. *)
CountDownBySem(c) ==
  /\ Goto(c, "released", "outside")
  /\ activeCount' = IF sem > 0 THEN activeCount - 1 ELSE activeCount
  /\ UNCHANGED <<sem, peakCount>>

(* Release, its locked section. *)
CountDown(c) ==
  /\ Goto(c, "released", "outside")
  /\ activeCount' = IF activeCount > 0 THEN activeCount - 1 ELSE activeCount
  /\ UNCHANGED <<sem, peakCount>>

Next == \E c \in Client : SendToken(c) \/ CountUp(c) \/ TakeToken(c) \/ CountDown(c)

Spec == Init /\ [][Next]_vars

-----------------------------------------------------------------------------
(* Every variable stays within its declared range. *)
TypeOK ==
  /\ sem \in 0..maxConcurrency
  /\ activeCount \in Nat
  /\ peakCount \in Nat
  /\ pc \in [Client -> {"outside", "entered", "probing", "released"}]

(* At most maxConcurrency probes run at once (Execute).                    *)
ProbesAreLimited == Cardinality(At("probing")) <= maxConcurrency

(* The tokens and the counter account for every client, so the guards of   *)
(* Release never bite: no release is skipped and no decrement is dropped,  *)
(* and the counter returns to zero when the clients have left.             *)
TokensAccounted ==
  /\ sem = Cardinality(At("entered")) + Cardinality(At("probing"))
  /\ activeCount = Cardinality(At("probing")) + Cardinality(At("released"))
=============================================================================
