----------------------------- MODULE MCSpanStore ------------------------------
(* Instances of SpanStore for TLC.                                         *)
EXTENDS SpanStore
=============================================================================
