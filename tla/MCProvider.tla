----------------------------- MODULE MCProvider -----------------------------
(* Instances of Provider for TLC.                                               *)
EXTENDS Provider

CONSTANT k1

OneCall == {k1}
=============================================================================
