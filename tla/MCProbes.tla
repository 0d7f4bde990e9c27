------------------------------- MODULE MCProbes -------------------------------
(* Instances of Probes for TLC.  The position of a socket's file is 0.     *)
EXTENDS Probes, TLC

CONSTANTS t1, t2, s1, s2

MCThreads == {t1, t2}
MCSocks == {s1, s2}
MCFilePos(s) == 0
\* Two processes with one thread each.
MCPid(t) == IF t = t2 THEN 2 ELSE 1
SockSymmetry == Permutations(MCSocks)
=============================================================================
