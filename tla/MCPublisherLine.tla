--------------------------- MODULE MCPublisherLine ---------------------------
(* Instances of PublisherLine for TLC.                                      *)
EXTENDS PublisherLine
=============================================================================
