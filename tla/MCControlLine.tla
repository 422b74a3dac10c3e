--------------------------- MODULE MCControlLine ---------------------------
(* Instances of ControlLine for TLC.                                        *)
EXTENDS ControlLine

\* Bound: sessions overlap for a publisher of another make only, whose steps are
\* fewer.  For this repository's publisher what is claimed excepts the overlap.
MCInit == LineInit /\ (overlap => other)

MCSpec == MCInit /\ [][LineNext]_lineVars /\ LineFairness
=============================================================================
