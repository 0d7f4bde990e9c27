------------------------------- MODULE MCAnomaly ------------------------------
(* An instance of Anomaly for TLC.                                         *)
EXTENDS Anomaly, TLC

CONSTANT k1

MCKeys == {k1}
=============================================================================
