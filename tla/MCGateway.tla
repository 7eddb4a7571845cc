------------------------------ MODULE MCGateway ------------------------------
(* An instance of Gateway for TLC: two jobs, one of which needs a secret. *)
EXTENDS Gateway

CONSTANTS w1, w2, j1, j2

MCWorkers == {w1, w2}
MCJobs    == {j1, j2}
MCSecret  == {j2}

(* One transient error, as bmc.go returns it. *)
MCErrors == {[rejected |-> FALSE, word |-> FALSE, result |-> FALSE]}
=============================================================================
