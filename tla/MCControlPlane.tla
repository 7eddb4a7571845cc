--------------------------- MODULE MCControlPlane ---------------------------
(* Instances of ControlPlane for TLC. *)
EXTENDS ControlPlane

CONSTANTS j1, e1, e2

MCOneJob    == {j1}
MCEndpoints == {e1, e2}
MCSubnet    == {e2}
=============================================================================
