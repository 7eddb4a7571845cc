----------------------------- MODULE RateLimiter -----------------------------
(***************************************************************************)
(* The rate limiter in front of the API's mutating requests,               *)
(* apps/api/internal/middleware/ratelimit.go: a token bucket per client    *)
(* that is created on the client's first request, refilled only when the   *)
(* client asks again, and dropped by a clean-up when the client has been   *)
(* silent for long.                                                        *)
(*                                                                         *)
(* Time is relative: idle[k] is the time since the entry's lastUpdate, in  *)
(* ticks.  Tokens are counted in units of which Unit make one token.       *)
(***************************************************************************)
EXTENDS Integers

CONSTANTS
  Key,       \* client keys
  Unit,      \* units in one token
  Burst,     \* rl.capacity, in tokens (20 in the code)
  Fill,      \* rl.rate, in units per tick (60 tokens per minute in the code)
  Second,    \* ticks in a second
  IdleLimit, \* ticks of silence after which an entry is dropped (10 minutes)
  MaxIdle    \* bound: ticks of silence counted

Capacity == Burst * Unit

(* A silent client's bucket is full before its entry is dropped: 10 minutes *)
(* fill 600 tokens, and the burst is 20.                                    *)
ASSUME LimiterConfig ==
  /\ Unit \in Nat \ {0} /\ Burst \in Nat \ {0} /\ Fill \in Nat \ {0}
  /\ Second \in Nat \ {0}
  /\ IdleLimit \in Nat /\ MaxIdle \in Nat
  /\ IdleLimit < MaxIdle
  /\ IdleLimit * Fill >= Capacity

VARIABLES
  entries,  \* rl.entries: per known client, the tokens and the idle time
  answer,   \* the last request: its client and whether it was allowed
  retryIn   \* per client, ticks left of the Retry-After it was last told

rlVars == <<entries, answer, retryIn>>

Known == DOMAIN entries
Lesser(m, n) == IF m < n THEN m ELSE n
NoRetry == -1

RLInit ==
  /\ entries = <<>>
  /\ answer \in [key : Key, allowed : BOOLEAN]
  /\ retryIn = [k \in Key |-> NoRetry]

SetEntry(k, tokens) ==
  entries' = [c \in Known \cup {k} |->
    IF c = k THEN [tokens |-> tokens, idle |-> 0] ELSE entries[c]]

(* The refill for the time since lastUpdate. *)
Refilled(e) == Lesser(e.tokens + e.idle * Fill, Capacity)

(* Fault: the wait is rounded down to nothing. *)
RetryAfterRoundedDown(missing) == (missing \div (Fill * Second)) * Second

(* Retry-After, in ticks: whole seconds, rounded down, but at least one.   *)
RetryAfter(missing) ==
  LET seconds == missing \div (Fill * Second)
  IN  (IF seconds < 1 THEN 1 ELSE seconds) * Second

(* Allow, for a client without an entry: a full bucket less one token. *)
AllowNew(k) ==
  /\ k \notin Known
  /\ SetEntry(k, Capacity - Unit)
  /\ answer' = [key |-> k, allowed |-> TRUE]
  /\ retryIn' = [retryIn EXCEPT ![k] = NoRetry]

(* Allow, for a known client: the refill is kept whatever the verdict.     *)
AllowKnown(k) ==
  /\ k \in Known
  /\ LET tokens == Refilled(entries[k]) IN
     IF tokens >= Unit
       THEN /\ SetEntry(k, tokens - Unit)
            /\ answer' = [key |-> k, allowed |-> TRUE]
            /\ retryIn' = [retryIn EXCEPT ![k] = NoRetry]
       ELSE /\ SetEntry(k, tokens)
            /\ answer' = [key |-> k, allowed |-> FALSE]
            /\ retryIn' = [retryIn EXCEPT ![k] = RetryAfter(Unit - tokens)]

(* Fault: entries are dropped as soon as a client has been silent. *)
SilentAtOnce(k) == entries[k].idle > 0

Silent(k) == entries[k].idle > IdleLimit

(* A round of cleanupLoop. *)
Cleanup ==
  /\ \E k \in Known : Silent(k)
  /\ entries' = [k \in {c \in Known : ~Silent(c)} |-> entries[k]]
  /\ UNCHANGED <<answer, retryIn>>

(* Time passes; silence beyond MaxIdle makes no difference any more. *)
RLTick ==
  /\ entries' = [k \in Known |-> [entries[k] EXCEPT !.idle = Lesser(@ + 1, MaxIdle)]]
  /\ retryIn' = [k \in Key |-> IF retryIn[k] > 0 THEN retryIn[k] - 1 ELSE retryIn[k]]
  /\ UNCHANGED answer

RLNext ==
  \/ \E k \in Key : AllowNew(k) \/ AllowKnown(k)
  \/ Cleanup
  \/ RLTick

RLSpec == RLInit /\ [][RLNext]_rlVars

-----------------------------------------------------------------------------
(* Every variable stays within its declared range. *)
RLTypeOK ==
  /\ Known \subseteq Key
  /\ \A k \in Known : entries[k] \in [tokens : 0..Capacity, idle : 0..MaxIdle]
  /\ answer \in [key : Key, allowed : BOOLEAN]
  /\ retryIn \in [Key -> Nat \cup {NoRetry}]

(* What is in the bucket of a client, were it refilled now. *)
Level(k) == IF k \in Known THEN Refilled(entries[k]) ELSE Capacity

Bucket == INSTANCE TokenBucket WITH
  level <- [k \in Key |-> Level(k)],
  verdict <- answer

(* The limiter with its lazy refills and its clean-up is a token bucket to *)
(* every client: no pattern of requests, silences and clean-ups makes it   *)
(* admit a request more, or one less, than a bucket that is always there.  *)
ImplementsTokenBucket == Bucket!Spec

(* A client that waits for as long as Retry-After tells it is admitted     *)
(* then (the middleware's Retry-After header).                             *)
RetryAfterSuffices == \A k \in Key : retryIn[k] = 0 => Level(k) >= Unit
=============================================================================
