----------------------------- MODULE MCTunnelPath -----------------------------
(* Instances of TunnelPath for TLC.                                         *)
EXTENDS TunnelPath
=============================================================================
