---------------------------- MODULE MCBackground ----------------------------
(***************************************************************************)
(* What the control plane does in the background: the simulated scan of a  *)
(* job, beside the audit log and the tiers, and the worker that keeps the  *)
(* copies of the vulnerability feeds.  They share no state; each behaviour *)
(* is one of a single part, and the other stays as it began.               *)
(***************************************************************************)
EXTENDS MCControlPlane, VulnFeed

VARIABLE part

BackgroundInit ==
  /\ CPInit /\ VfInit /\ part \in {"jobs", "feeds"}
  /\ part = "feeds" => \A e \in Endpoint : tier[e] = "full"

BackgroundNext ==
  /\ UNCHANGED part
  /\ \/ part = "jobs" /\ CPNext /\ UNCHANGED vfVars
     \/ part = "feeds" /\ VfNext /\ UNCHANGED vars

(* In the part that stands still no fair action is ever enabled: no job    *)
(* runs, and no loop was started.                                          *)
BackgroundSpec ==
  /\ BackgroundInit /\ [][BackgroundNext]_<<vars, vfVars, part>>
  /\ CPFairness /\ VfFairness
=============================================================================
