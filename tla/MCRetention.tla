---------------------------- MODULE MCRetention ----------------------------
(* Instances of Retention for TLC. *)
EXTENDS Retention

CONSTANTS h1, h2

MCHosts == {h1, h2}
MCIds   == 1..3
============================================================================
