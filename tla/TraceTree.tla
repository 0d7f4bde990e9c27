------------------------------ MODULE TraceTree -------------------------------
(***************************************************************************)
(* What the program computes from the finished spans of one trace:         *)
(* BuildTraceTree of pkg/model/trace.go, the ids a span has after a trip   *)
(* through the table of pkg/storage/clickhouse.go, and the drawings and    *)
(* statistics of pkg/flamegraph/flamegraph.go.                             *)
(*                                                                         *)
(* A Go pointer to a span is the span's position in the sequence rows, so  *)
(* that two spans with equal fields stay two spans.  Durations are in      *)
(* nanoseconds, of which DurationMs is a float64 number of millions; that  *)
(* sums of durations round is left out, that FlameFrame.Value is cut off   *)
(* is not.  The name of a span stands for service, operation and protocol  *)
(* together.                                                               *)
(***************************************************************************)
EXTENDS Integers, Sequences, SequencesExt, FiniteSets, FiniteSetsExt

CONSTANTS
    EmptyID,    \* the empty string
    ZeroID,     \* a string of NUL bytes, as a cleared array converts to
    Micros(_)   \* FlameFrame.Value, int64(DurationMs * 1000), of a duration

ASSUME IDAssumption == EmptyID # ZeroID

\* The Value has the whole microseconds of a duration, or one less if there is no rest:
\* 1.001 * 1000 is less than 1001 as a float64, and int64 cuts it off.  (Durations of
\* more than a month would be too long for a float64 of such a precision.)
CutOff(dur) ==
    Micros(dur) \in Nat /\ 1000 * Micros(dur) <= dur /\ dur <= 1000 * Micros(dur) + 1000

NoSpan == 0     \* the nil pointer

-----------------------------------------------------------------------------
(* The tree.                                                               *)

\* spanMap: of the spans with the same id the last one is found.
SpanMap(rows) ==
    [id \in {rows[i].id : i \in DOMAIN rows} |-> Max({i \in DOMAIN rows : rows[i].id = id})]

\* The last span without a parent id.
RootSpan(rows) ==
    LET parentless == {i \in DOMAIN rows : rows[i].parent = EmptyID}
    IN  IF parentless = {} THEN NoSpan ELSE Max(parentless)

\* The span whose Children i is appended to.
ParentOf(rows, i) ==
    LET p == rows[i].parent
    IN  IF p # EmptyID /\ p \in DOMAIN SpanMap(rows) THEN SpanMap(rows)[p] ELSE NoSpan

\* The spans from which the links to the parents lead to an end: among any spans
\* that i is one of, there is one whose parent is not.  The others, in a cycle of
\* ids or below one, hang below no root, and no recursion over children ends there.
Grounded(rows) ==
    {i \in DOMAIN rows : \A T \in SUBSET DOMAIN rows :
        i \in T => \E j \in T : ParentOf(rows, j) \notin T}

\* Positions, each once and in the order of the rows.
InOrder(S) == CHOOSE o \in SetToSeqs(S) : \A k, l \in DOMAIN o : k < l => o[k] < o[l]

\* Mutant: every span of the parent's id gets the child.
BuildTraceTreeEveryTwin(rows) ==
    [rows |-> rows, root |-> RootSpan(rows),
     children |-> [i \in DOMAIN rows |->
         InOrder({j \in DOMAIN rows : rows[j].parent = rows[i].id})]]

BuildTraceTree(rows) ==
    [rows |-> rows, root |-> RootSpan(rows),
     children |-> [i \in DOMAIN rows |->
         InOrder({j \in DOMAIN rows : ParentOf(rows, j) = i})]]

\* What sort.Slice may make of the children of each span: it orders them by
\* start time and leaves the order of equal ones open.
Sorted(tree) ==
    LET rows == tree.rows
        Orders(s) == {o \in SetToSeqs(ToSet(s)) :
                        \A i, j \in DOMAIN o : i < j => rows[o[i]].start <= rows[o[j]].start}
        every == UNION {Orders(tree.children[i]) : i \in DOMAIN rows}
    IN  {[tree EXCEPT !.children = c] :
            c \in {f \in [DOMAIN rows -> every] :
                     \A i \in DOMAIN rows : f[i] \in Orders(tree.children[i])}}

\* The spans of the subtree of i, a span before its children.
Walk(tree, i) ==
    LET walk[n \in Grounded(tree.rows)] ==
            <<n>> \o FlattenSeq([k \in DOMAIN tree.children[n] |-> walk[tree.children[n][k]]])
    IN  walk[i]

\* Mutant: the ids are padded with spaces, which TrimSpace removes.
PaddedSpaces(id) == id

\* padString fills an id with NUL bytes to the width of its column, and
\* strings.TrimSpace, applied when the row is read, leaves NUL bytes alone.
Padded(id) == IF id = EmptyID THEN ZeroID ELSE id

\* A span as GetTraceByID finds it again.
Stored(row) == [row EXCEPT !.id = Padded(row.id), !.parent = Padded(row.parent), !.tagged = TRUE]

\* The rows of a query, ORDER BY start_time: ties come in any order.
RowOrders(rows) ==
    {o \in [DOMAIN rows -> ToSet(rows)] :
        \E p \in SetToSeqs(DOMAIN rows) :
            /\ o = [i \in DOMAIN rows |-> rows[p[i]]]
            /\ \A i, j \in DOMAIN rows : i < j => o[i].start <= o[j].start}

\* encoding/json writes every span of the trace with all that hangs below it,
\* and fails when it meets a span again on the way down.
Encodable(rows) == Grounded(rows) = DOMAIN rows

-----------------------------------------------------------------------------
(* The shape of a subtree, as buildSubtreeStructure writes it down.        *)

\* Mutant: the children are listed in the order of the rows.
StructureUnsorted(tree, i) ==
    LET rows == tree.rows
        kids == BuildTraceTree(rows).children
        s[n \in Grounded(rows)] == <<rows[n].name, [k \in DOMAIN kids[n] |-> s[kids[n][k]]]>>
    IN  s[i]

Structure(tree, i) ==
    LET s[n \in Grounded(tree.rows)] ==
            <<tree.rows[n].name, [k \in DOMAIN tree.children[n] |-> s[tree.children[n][k]]]>>
    IN  s[i]

-----------------------------------------------------------------------------
(* The flame graph of a tree with sorted children.                         *)

\* Mutant: a frame's children are handed the stack that the frame was handed.
FoldedSameStack(tree) ==
    LET lines[n \in Grounded(tree.rows)] ==
            <<[stack |-> <<tree.rows[n].name>>, value |-> Micros(tree.rows[n].dur)]>>
            \o FlattenSeq([k \in DOMAIN tree.children[n] |-> lines[tree.children[n][k]]])
    IN  lines[tree.root]

\* collectFolded: a line for each frame, with the names from the root down.
Folded(tree) ==
    LET lines[n \in Grounded(tree.rows)] ==
            LET below == FlattenSeq([k \in DOMAIN tree.children[n] |-> lines[tree.children[n][k]]])
                me == tree.rows[n]
            IN  <<[stack |-> <<me.name>>, value |-> Micros(me.dur)]>>
                \o [l \in DOMAIN below |->
                      [below[l] EXCEPT !.stack = <<me.name>> \o below[l].stack]]
    IN  lines[tree.root]

Total(tree, s) == FoldLeft(+, 0, [k \in DOMAIN s |-> tree.rows[s[k]].dur])

Values(tree, s) == FoldLeft(+, 0, [k \in DOMAIN s |-> Micros(tree.rows[s[k]].dur)])

SelfTime(tree, i) == tree.rows[i].dur - Total(tree, tree.children[i])

\* Where a frame is drawn: drawFrame's arguments.
Place == [x : Nat, width : Nat, depth : Nat]

\* totalValue: what the width of the whole drawing stands for.
Scale(tree) ==
    IF Micros(tree.rows[tree.root].dur) = 0 THEN 1 ELSE Micros(tree.rows[tree.root].dur)

\* Mutant: the children of a frame all start where it does.
DrawFrameOverlaid(tree, width) ==
    LET scale == Scale(tree)
        draw[n \in Grounded(tree.rows)] == [at \in Place |->
            IF 2 * at.width < scale THEN <<>>
            ELSE LET kids == tree.children[n]
                     Slot(k) == [x |-> at.x,
                                 width |-> Micros(tree.rows[kids[k]].dur) * width,
                                 depth |-> at.depth + 1]
                 IN  <<[span |-> n, at |-> at]>>
                     \o FlattenSeq([k \in DOMAIN kids |-> draw[kids[k]][Slot(k)]])]
    IN  draw[tree.root][[x |-> 0, width |-> scale * width, depth |-> 0]]

\* drawFrame: the boxes, in the order they are drawn.  Lengths are in pixels
\* times the value of the root, so that they are whole; a box of less than half
\* a pixel is left out with everything below it.
DrawFrame(tree, width) ==
    LET scale == Scale(tree)
        draw[n \in Grounded(tree.rows)] == [at \in Place |->
            IF 2 * at.width < scale THEN <<>>
            ELSE LET kids == tree.children[n]
                     Slot(k) == [x |-> at.x + width * Values(tree, SubSeq(kids, 1, k - 1)),
                                 width |-> Micros(tree.rows[kids[k]].dur) * width,
                                 depth |-> at.depth + 1]
                 IN  <<[span |-> n, at |-> at]>>
                     \o FlattenSeq([k \in DOMAIN kids |-> draw[kids[k]][Slot(k)]])]
    IN  draw[tree.root][[x |-> 0, width |-> scale * width, depth |-> 0]]

\* collectFrameStats leaves a frame after its children: the last frame of a
\* name to be left sets the name's SelfTime, the others only add to the total.
Leaving(tree) ==
    LET post[n \in Grounded(tree.rows)] ==
            FlattenSeq([k \in DOMAIN tree.children[n] |-> post[tree.children[n][k]]]) \o <<n>>
    IN  post[tree.root]

\* Mutant: the first frame of a name does not count as a call.
FrameStatsUncounted(tree) ==
    LET frames == Leaving(tree)
        At(name) == {k \in DOMAIN frames : tree.rows[frames[k]].name = name}
    IN  [name \in {tree.rows[n].name : n \in ToSet(frames)} |->
            [total |-> MapThenSumSet(LAMBDA k : tree.rows[frames[k]].dur, At(name)),
             calls |-> Cardinality(At(name)) - 1,
             self |-> SelfTime(tree, frames[Max(At(name))])]]

FrameStats(tree) ==
    LET frames == Leaving(tree)
        At(name) == {k \in DOMAIN frames : tree.rows[frames[k]].name = name}
    IN  [name \in {tree.rows[n].name : n \in ToSet(frames)} |->
            [total |-> MapThenSumSet(LAMBDA k : tree.rows[frames[k]].dur, At(name)),
             calls |-> Cardinality(At(name)),
             self |-> SelfTime(tree, frames[Max(At(name))])]]

\* Percentages divide by the duration of the root: 0 / 0 is not a number, and
\* encoding/json refuses both it and infinity.
StatsEncodable(tree) == tree.rows[tree.root].dur # 0

\* What GetHotSpots may answer: sort.Slice orders all frames by their self
\* time, and the first count are kept.
HotSpots(tree, count) ==
    LET frames == ToSet(Walk(tree, tree.root))
        kept == IF count > 0 /\ count < Cardinality(frames) THEN count ELSE Cardinality(frames)
        orders == {o \in SetToSeqs(frames) :
                     \A i, j \in DOMAIN o : i < j => SelfTime(tree, o[i]) >= SelfTime(tree, o[j])}
    IN  {SubSeq(o, 1, kept) : o \in orders}
=============================================================================
