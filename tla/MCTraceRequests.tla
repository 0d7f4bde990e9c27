--------------------------- MODULE MCTraceRequests ----------------------------
(* Instances of TraceRequests for TLC.                                     *)
EXTENDS TraceRequests, TLC

CONSTANTS c1, c2, empty, zero

MCCallers == {c1, c2}
CallerSymmetry == Permutations(MCCallers)

Row(id, parent, name, start, dur) ==
    [id |-> id, parent |-> parent, name |-> name, start |-> start, dur |-> dur,
     big |-> TRUE, tagged |-> TRUE]

Top(dur) == Row("a", empty, "p", 0, dur)

\* int64(float64(dur) / 1e6 * 1000) for the durations below.
MCMicros(dur) == IF dur = 1001000 THEN 1000 ELSE dur \div 1000

\* A root and two more spans: siblings or a chain, with the same or other start
\* times and names, twins of the root or of each other, cycles, a parent that
\* is missing, a second root, and a span saved without ids.  A child is half as
\* long as the root, a little longer, or too short to be drawn; of the root one
\* microsecond is cut off.
Others == {Row(id, parent, "q", start, IF start = 1 THEN 501000 ELSE 1000) :
             id \in {"a", "b"}, parent \in {"a", "b", "c", empty}, start \in {1, 2}}
          \cup {Row("c", parent, "p", 1, 500000) : parent \in {"a", "b", "c"}}
          \cup {Row(zero, zero, "q", 1, 501000)}

Shapes == {<<>>} \cup {<<Top(dur), x>> : dur \in {0, 1000000}, x \in Others}
          \cup {<<Top(1001000), x, y>> : x \in Others, y \in Others}

Siblings == <<Top(5000), Row("b", "a", "q", 1, 2000), Row("c", "a", "p", 2, 3000)>>
Chain    == <<Top(5000), Row("b", "a", "q", 1, 2000), Row("c", "b", "p", 2, 3000)>>
Untagged == <<[Top(5000) EXCEPT !.big = FALSE],
              [Row("b", "a", "q", 1, 2000) EXCEPT !.tagged = FALSE]>>

MCTraces(want) == IF want = "compress" THEN {Siblings, Chain, Untagged} ELSE Shapes

\* Two compressions at a time, which share the cache, or one of the requests that
\* share nothing.
MCCost(want) == IF want = "compress" THEN 1 ELSE 2
=============================================================================
