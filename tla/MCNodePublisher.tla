--------------------------- MODULE MCNodePublisher ---------------------------
(* Instances of NodePublisher for TLC.                                      *)
EXTENDS NodePublisher
=============================================================================
