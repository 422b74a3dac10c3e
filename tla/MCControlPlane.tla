--------------------------- MODULE MCControlPlane ---------------------------
(* Instances of ControlPlane for TLC.                                       *)
EXTENDS ControlPlane
=============================================================================
