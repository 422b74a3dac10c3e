--------------------------- MODULE MCTunnelService ---------------------------
(* Instances of TunnelService for TLC.                                      *)
EXTENDS TunnelService, TLC

\* Identifiers are uuids: no action compares them but for equality.
Symmetry == Permutations(Tunnel)
=============================================================================
