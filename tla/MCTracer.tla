------------------------------- MODULE MCTracer -------------------------------
(* Instances of Tracer for TLC.                                            *)
EXTENDS Tracer, TLC

CONSTANTS w1, w2, loop

MCWorkers == {w1, w2}
WorkerSymmetry == Permutations(MCWorkers)
=============================================================================
