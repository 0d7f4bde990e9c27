---------------------------- MODULE MCTraceSampler ----------------------------
(* Instances of TraceSampler for TLC.                                      *)
EXTENDS TraceSampler, TLC

CONSTANTS c1, c2, t1, none

MCCallers == {c1, c2}
CallerSymmetry == Permutations(MCCallers)

\* The configuration of the README (slow spans all, others by a draw), one that
\* draws for the slow ones too, and one that skips what is fast and keeps all
\* that exceeds a higher threshold.
ReadmeConfig == [threshold |-> 5, high |-> "all", low |-> "some"]
OneConfig == {ReadmeConfig}
SomeConfigs == {ReadmeConfig, [threshold |-> 5, high |-> "some", low |-> "all"],
                [threshold |-> 7, high |-> "all", low |-> "none"]}
=============================================================================
