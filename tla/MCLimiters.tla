----------------------------- MODULE MCLimiters -----------------------------
(***************************************************************************)
(* What stands between callers and the platform: the limiter of the        *)
(* control plane and the limiter of a gateway side by side, the limiter of *)
(* the requests to NVD, the sessions of the users, and the vault that      *)
(* gateways resolve credentials from.                                      *)
(*                                                                         *)
(* They share no state, and a property reads one of them only: each        *)
(* behaviour is one of a single part, and the others stay as they began.   *)
(***************************************************************************)
EXTENDS RateLimiter, SubnetRateLimiter, NvdLimiter, Sessions, Vault

CONSTANTS k1, k2, c1, c2, c3

MCKeys     == {k1, k2}
MCClients  == {c1, c2, c3}
MCBackoffs == {<<1, 5>>, <<2, 8>>}

VARIABLE part

limiterVars == <<rlVars, vars>>

LimitersInit ==
  /\ RLInit /\ Init /\ NlInit /\ SesInit /\ VaInit
  /\ part \in {"limiters", "nvd", "sessions", "vault"}
  /\ part # "vault" => backend = "envelope"
  /\ part # "limiters" => answer = [key |-> k1, allowed |-> TRUE]

LimitersNext ==
  /\ UNCHANGED part
  /\ \/ /\ part = "limiters"
        /\ \/ RLNext /\ UNCHANGED vars
           \/ Next /\ UNCHANGED rlVars
        /\ UNCHANGED <<nlVars, sesVars, vaVars>>
     \/ part = "nvd" /\ NlNext /\ UNCHANGED <<limiterVars, sesVars, vaVars>>
     \/ part = "sessions" /\ SesNext /\ UNCHANGED <<limiterVars, nlVars, vaVars>>
     \/ part = "vault" /\ VaNext /\ UNCHANGED <<limiterVars, nlVars, sesVars>>

LimitersSpec ==
  LimitersInit /\ [][LimitersNext]_<<limiterVars, nlVars, sesVars, vaVars, part>>
=============================================================================
