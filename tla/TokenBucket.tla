----------------------------- MODULE TokenBucket -----------------------------
(***************************************************************************)
(* What a token-bucket rate limiter promises each of its clients: a bucket *)
(* that starts full, fills at a constant rate, and gives up one token per  *)
(* admitted request.  There is a bucket for every client at all times, so  *)
(* there is nothing to create, to refill lazily or to clean up.            *)
(***************************************************************************)
EXTENDS Integers

CONSTANTS
  Key,      \* clients
  Unit,     \* one token, in the units a bucket is measured in
  Capacity, \* what a bucket holds, in units
  Fill      \* units a bucket gains per tick

VARIABLES
  level,   \* per client, what is in the bucket
  verdict  \* the last request: its client and whether it was admitted

vars == <<level, verdict>>

Request == [key : Key, allowed : BOOLEAN]

AtMost(m, n) == IF m < n THEN m ELSE n

Init ==
  /\ level = [k \in Key |-> Capacity]
  /\ verdict \in Request

(* A request is admitted exactly when its client's bucket has a token.     *)
Ask(k) ==
  /\ verdict' = [key |-> k, allowed |-> level[k] >= Unit]
  /\ level' = [level EXCEPT ![k] = IF @ >= Unit THEN @ - Unit ELSE @]

Tick ==
  /\ level' = [k \in Key |-> AtMost(level[k] + Fill, Capacity)]
  /\ UNCHANGED verdict

Next == Tick \/ \E k \in Key : Ask(k)

Spec == Init /\ [][Next]_vars
=============================================================================
