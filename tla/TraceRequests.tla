---------------------------- MODULE TraceRequests -----------------------------
(***************************************************************************)
(* The users of finished traces: the handlers of pkg/api/server.go that    *)
(* answer with a trace or its flame graph, and the callers of the          *)
(* Compressor of pkg/compression/compressor.go, which share its cache of   *)
(* subtree signatures.  Each runs in a goroutine of its own.               *)
(*                                                                         *)
(* A trace comes from the table (GetTraceByID) or is built from spans in   *)
(* memory.  External: the database, net/http, encoding/json and zstd; a    *)
(* span is big if its JSON has 256 bytes and shrinks by the factor 1.2.    *)
(* The hash of a structure stands for the structure: collisions of the     *)
(* 64 bit hash are left out.  Nothing in src calls CompressTrace, so when  *)
(* it is called is left open.                                              *)
(***************************************************************************)
EXTENDS TraceTree

CONSTANTS
    Callers,        \* goroutines
    Traces(_),      \* the traces, as they were saved, asked for by a kind of request
    maxCacheSize,   \* MaxCacheSize of the CompressorConfig
    Width,          \* width of a flame graph, in pixels
    HotCount,       \* number of hot spots asked for
    Cost(_),        \* what a kind of request counts for
    MaxCost         \* bound on the requests' total cost

ASSUME CallersAssumption == IsFiniteSet(Callers)
ASSUME CacheAssumption == maxCacheSize \in Nat
ASSUME CostAssumption == MaxCost \in Nat
ASSUME WidthAssumption == Width \in Nat \ {0} /\ HotCount \in Nat

VARIABLES
    caller,      \* each caller's progress and local variables
    requests,    \* cost of the requests so far
    counts,      \* the Count of every signature that was ever put into the cache
    cache,       \* signatureCache: from structures to indices of counts
    stats,       \* CompressionStats
    signed,      \* for the properties: the signature each span got
    panicked     \* a nil map was written and the process is gone

vars == <<caller, requests, counts, cache, stats, signed, panicked>>

Wants == {"json", "flame", "compress"}

\* A trace is a sequence of spans; no span ends before it starts or lasts too long.
ASSUME TracesAssumption ==
    \A want \in Wants : \A saved \in Traces(want) :
        /\ saved \in Seq(ToSet(saved))
        /\ \A row \in ToSet(saved) :
             /\ DOMAIN row = {"id", "parent", "name", "start", "dur", "big", "tagged"}
             /\ row.start \in Int /\ row.dur \in Nat /\ CutOff(row.dur)

Idle == [pc |-> "idle"]

\* NewCompressor.
Init ==
    /\ caller = [c \in Callers |-> Idle]
    /\ requests = 0
    /\ counts = <<>>
    /\ cache = [h \in {} |-> 0]
    /\ stats = [total |-> 0, compressed |-> 0, hits |-> 0, misses |-> 0]
    /\ signed = {}
    /\ panicked = FALSE

Goto(c, new) == caller' = [caller EXCEPT ![c] = new]

\* After an answer the caller keeps it until its next request.
Free(c) == caller[c].pc \in {"idle", "answered"}

-----------------------------------------------------------------------------
\* GetTraceByID: the rows of the trace, and the tree.
Query(c, saved, want) ==
    /\ Free(c) /\ requests + Cost(want) <= MaxCost /\ ~panicked
    /\ want \in {"json", "flame"}
    /\ requests' = requests + Cost(want)
    /\ \E rows \in RowOrders([i \in DOMAIN saved |-> Stored(saved[i])]) :
         Goto(c, [pc |-> want, saved |-> saved, stored |-> TRUE, tree |-> BuildTraceTree(rows)])
    /\ UNCHANGED <<counts, cache, stats, signed, panicked>>

\* BuildTraceTree is called with spans in memory, in whatever order, and what it
\* returns is compressed, or its root handed to NewFlameGraph: nothing in src does so,
\* but only then is there a flame graph to draw. It stands for what getFlameGraph
\* would do with a root.
Build(c, saved, want) ==
    /\ Free(c) /\ requests + Cost(want) <= MaxCost /\ ~panicked
    /\ want \in {"flame", "compress"}
    /\ requests' = requests + Cost(want)
    /\ \E p \in SetToSeqs(DOMAIN saved) :
         Goto(c, [pc |-> want, saved |-> saved, stored |-> FALSE,
                  tree |-> BuildTraceTree([i \in DOMAIN saved |-> saved[p[i]]])])
    /\ UNCHANGED <<counts, cache, stats, signed, panicked>>

Answer(c, tree, code, body) ==
    Goto(c, [pc |-> "answered", saved |-> caller[c].saved, stored |-> caller[c].stored,
             tree |-> tree, code |-> code, body |-> body])

\* getTrace, and each trace of searchTraces; 0 is the answer that breaks off.
GetTrace(c) ==
    LET rows == caller[c].tree.rows
    IN  /\ caller[c].pc = "json" /\ ~panicked
        /\ \/ rows = <<>> /\ Answer(c, caller[c].tree, 404, <<>>)
           \/ rows # <<>> /\ Answer(c, caller[c].tree, IF Encodable(rows) THEN 200 ELSE 0, <<>>)
    /\ UNCHANGED <<requests, counts, cache, stats, signed, panicked>>

\* getFlameGraph, in each of its formats. The GetTraceTree it calls is not part
\* of src; taken for it is what GetTraceByID finds, and the root of that.
FlameGraph(c) ==
    LET tree == caller[c].tree
    IN  /\ caller[c].pc = "flame" /\ ~panicked
        /\ \/ /\ tree.root = NoSpan
              /\ Answer(c, tree, IF tree.rows = <<>> THEN 500 ELSE 404, <<>>)
           \/ /\ tree.root # NoSpan
              /\ \E t \in Sorted(tree) :
                   \/ Answer(c, t, 200, [format |-> "svg", boxes |-> DrawFrame(t, Width)])
                   \/ Answer(c, t, 200, [format |-> "folded", lines |-> Folded(t)])
                   \/ /\ StatsEncodable(t)
                      /\ \E hot \in HotSpots(t, HotCount) :
                           Answer(c, t, 200, [format |-> "stats", frames |-> FrameStats(t),
                                              hot |-> hot])
                   \/ ~StatsEncodable(t) /\ Answer(c, t, 0, <<>>)
        /\ UNCHANGED <<requests, counts, cache, stats, signed, panicked>>

-----------------------------------------------------------------------------
(* CompressTrace: the spans of the tree, a span before its children.       *)

\* A nil root is returned as it is; otherwise the walk begins at the root.
CompressTrace(c) ==
    LET tree == caller[c].tree
    IN  /\ caller[c].pc = "compress" /\ ~panicked
        /\ \/ tree.root = NoSpan /\ Answer(c, tree, 200, <<>>)
           \/ /\ tree.root # NoSpan
              /\ Goto(c, [pc |-> "span", saved |-> caller[c].saved, stored |-> caller[c].stored,
                          tree |-> tree, todo |-> <<tree.root>>, hit |-> FALSE])
        /\ UNCHANGED <<requests, counts, cache, stats, signed, panicked>>

\* CompressSpan, with its two critical sections of statsMu in one step. The tags
\* of a compressed span are written without looking whether there is a map.
CompressSpan(c) ==
    LET span == caller[c].tree.rows[Head(caller[c].todo)]
    IN  /\ caller[c].pc = "span" /\ ~panicked
        /\ stats' = [stats EXCEPT !.total = @ + 1,
                                  !.compressed = IF span.big /\ span.tagged THEN @ + 1 ELSE @]
        /\ panicked' = (span.big /\ ~span.tagged)
        /\ Goto(c, [caller[c] EXCEPT !.pc = "sign"])
        /\ UNCHANGED <<requests, counts, cache, signed>>

\* Mutant: the cache is found full one signature too late.
EvictedLate ==
    LET once == {h \in DOMAIN cache : counts[cache[h]] = 1}
        victims == IF once # {} THEN once ELSE DOMAIN cache
    IN  IF Cardinality(DOMAIN cache) <= maxCacheSize THEN {cache}
        ELSE {[h \in DOMAIN cache \ {v} |-> cache[h]] : v \in victims}

\* evictOldCache: some signature that was seen once, or else any; the map is
\* iterated in an order of its own.
Evicted ==
    LET once == {h \in DOMAIN cache : counts[cache[h]] = 1}
        victims == IF once # {} THEN once ELSE DOMAIN cache
    IN  IF Cardinality(DOMAIN cache) < maxCacheSize \/ victims = {}
        THEN {cache}
        ELSE {[h \in DOMAIN cache \ {v} |-> cache[h]] : v \in victims}

\* buildSubtreeStructure sorts the children of the whole subtree; what the call
\* for the root has sorted stays as it is in the calls for the spans below.
SortedFor(me) == IF Head(me.todo) = me.tree.root THEN Sorted(me.tree) ELSE {me.tree}

\* ComputeSubtreeSignature up to the end of its critical section.
Signature(c) ==
    LET n == Head(caller[c].todo)
    IN  /\ caller[c].pc = "sign" /\ ~panicked
        /\ \E t \in SortedFor(caller[c]) :
             LET hash == Structure(t, n)
             IN  \/ /\ hash \in DOMAIN cache
                    /\ counts' = [counts EXCEPT ![cache[hash]] = @ + 1]
                    /\ Goto(c, [caller[c] EXCEPT !.pc = "tally", !.tree = t, !.hit = TRUE])
                    /\ UNCHANGED cache
                 \/ /\ hash \notin DOMAIN cache
                    /\ counts' = Append(counts, 1)
                    /\ \E left \in Evicted :
                         cache' = [h \in DOMAIN left \cup {hash} |->
                                     IF h = hash THEN Len(counts) + 1 ELSE left[h]]
                    /\ Goto(c, [caller[c] EXCEPT !.pc = "tally", !.tree = t, !.hit = FALSE])
        /\ UNCHANGED <<requests, stats, signed, panicked>>

\* The second critical section counts a hit or a miss.
Tally(c) ==
    /\ caller[c].pc = "tally" /\ ~panicked
    /\ stats' = [stats EXCEPT !.hits = IF caller[c].hit THEN @ + 1 ELSE @,
                              !.misses = IF caller[c].hit THEN @ ELSE @ + 1]
    /\ Goto(c, [caller[c] EXCEPT !.pc = "tag"])
    /\ UNCHANGED <<requests, counts, cache, signed, panicked>>

\* CompressTrace goes on to the span's children. It tags the span by the Count of
\* the signature that was returned, which is the new one also when the structure
\* was found; these tags are left out.
Tag(c) ==
    LET me == caller[c]
        n == Head(me.todo)
        rest == me.tree.children[n] \o Tail(me.todo)
    IN  /\ me.pc = "tag" /\ ~panicked
        /\ signed' = signed \cup
             {[saved |-> me.saved, span |-> me.tree.rows[n],
               hash |-> Structure(me.tree, n)]}
        /\ IF rest = <<>>
           THEN Answer(c, me.tree, 200, <<>>)
           ELSE Goto(c, [me EXCEPT !.pc = "span", !.todo = rest])
        /\ UNCHANGED <<requests, counts, cache, stats, panicked>>

Next ==
    \E c \in Callers :
        \/ \E want \in Wants : \E saved \in Traces(want) :
             Query(c, saved, want) \/ Build(c, saved, want)
        \/ GetTrace(c) \/ FlameGraph(c)
        \/ CompressTrace(c) \/ CompressSpan(c) \/ Signature(c) \/ Tally(c) \/ Tag(c)

Spec == Init /\ [][Next]_vars

-----------------------------------------------------------------------------
(* Properties.                                                             *)

Rooted(c) == caller[c].pc # "idle" /\ caller[c].tree.root # NoSpan

\* The spans above i, from its parent up, as the ids say.
Above(rows, i) ==
    LET up[j \in Grounded(rows)] ==
            LET p == ParentOf(rows, j)
            IN  IF p = NoSpan THEN <<>> ELSE <<p>> \o up[p]
    IN  up[i]

\* Whatever ids the spans carry, repeated, missing or in a cycle, what hangs
\* below the root is a tree: the recursive functions that take the root end, and
\* meet every span whose parents lead to the root exactly once (BuildTraceTree).
TreeBelowRoot ==
    \A c \in Callers : Rooted(c) =>
        LET tree == caller[c].tree
            spans == DOMAIN tree.rows
            walk == Walk(tree, tree.root)
        IN  /\ \A i \in spans : tree.root \notin ToSet(tree.children[i])
            /\ \A i, j \in spans :
                 ToSet(tree.children[i]) \cap ToSet(tree.children[j]) # {} => i = j
            /\ IsInjective(walk)
            /\ ToSet(walk) = {tree.root} \cup
                  {i \in Grounded(tree.rows) : tree.root \in ToSet(Above(tree.rows, i))}

\* The README's example of an answer has a root (StoredTraceRooted), and none has:
\* a trace that comes from the table never has a root, because an absent parent
\* id comes back as NUL bytes (padString, TrimSpace), so getFlameGraph never
\* finds one; and if the last span that was saved without an id had no parent
\* either, it is its own child and no answer with the trace can be encoded.
StoredTraceRootless ==
    \A c \in Callers :
        (caller[c].pc # "idle" /\ caller[c].stored) =>
            LET rows == caller[c].tree.rows
                nameless == {i \in DOMAIN rows : rows[i].id = ZeroID}
            IN  /\ caller[c].tree.root = NoSpan
                /\ (/\ caller[c].pc = "answered"
                    /\ nameless # {}
                    /\ rows[Max(nameless)].parent = ZeroID) => caller[c].code # 200

\* The README shows an answer whose rootSpan has an empty parentSpanId: a trace that was
\* saved with such a span has a root when it is read again (GetTraceByID). Not a
\* property of the code: TLC refutes it with MCTraceRequestsRoot.cfg.
StoredTraceRooted ==
    \A c \in Callers :
        (/\ caller[c].pc # "idle" /\ caller[c].stored
         /\ \E i \in DOMAIN caller[c].saved : caller[c].saved[i].parent = EmptyID) =>
            caller[c].tree.root # NoSpan

\* Ids are not repeated, and no two children of a span start together.
Unambiguous(saved) ==
    \A i, j \in DOMAIN saved : i # j =>
        /\ saved[i].id # saved[j].id
        /\ saved[i].parent = saved[j].parent => saved[i].start # saved[j].start

\* A subtree gets the same signature whatever order its spans come in, so that
\* the cache recognises it (buildSubtreeStructure).
SignatureIgnoresRowOrder ==
    \A a, b \in signed :
        a.saved = b.saved /\ a.span = b.span /\ Unambiguous(a.saved) => a.hash = b.hash

\* The signature cache and its counters under concurrent callers: the cache
\* never outgrows maxCacheSize (of which it makes 1 if it is 0), and the hits
\* and misses counted so far, with those about to be counted, are what the
\* Counts of all signatures add up to, evicted ones included.
CacheAccounts ==
    LET tallying(hit) == {c \in Callers : caller[c].pc = "tally" /\ caller[c].hit = hit}
    IN  /\ Cardinality(DOMAIN cache) <= Max({maxCacheSize, 1})
        /\ Len(counts) = stats.misses + Cardinality(tallying(FALSE))
        /\ FoldLeft(+, 0, counts) - Len(counts) = stats.hits + Cardinality(tallying(TRUE))

Shown(c, format) ==
    caller[c].pc = "answered" /\ caller[c].body # <<>> /\ caller[c].body.format = format

\* The names of the spans from the topmost down to i.
Stack(tree, i) ==
    LET up == <<i>> \o Above(tree.rows, i)
    IN  [k \in DOMAIN up |-> tree.rows[up[Len(up) + 1 - k]].name]

\* The folded answer has a line for each span of the walk, with the names of
\* the spans above it, whatever branches were written before (collectFolded).
FoldedShowsStacks ==
    \A c \in Callers : Shown(c, "folded") =>
        LET tree == caller[c].tree
            lines == caller[c].body.lines
            walk == Walk(tree, tree.root)
        IN  /\ Len(lines) = Len(walk)
            /\ \A k \in DOMAIN walk : lines[k].stack = Stack(tree, walk[k])

End(place) == place.x + place.width

\* Each box lies one row below its parent's, and ends at most so much behind it.
NestedWithin(tree, boxes, excess) ==
    \A a, b \in boxes : a.span \in ToSet(tree.children[b.span]) =>
        a.at.x >= b.at.x /\ End(a.at) <= End(b.at) + excess /\ a.at.depth = b.at.depth + 1

\* Boxes of one row do not overlap.
RowsApart(boxes) ==
    \A a, b \in boxes :
        a.at.depth = b.at.depth /\ a # b => End(a.at) <= b.at.x \/ End(b.at) <= a.at.x

\* The boxes of an SVG. If no span is shorter than its children together, none ends
\* more than the width of one microsecond behind its parent's, which is what cutting
\* off the durations may cost; if none has a smaller value than its children together,
\* each lies within its parent's and those of one row are apart (drawFrame,
\* convertSpanToFlameFrame).
BoxesNest ==
    \A c \in Callers : Shown(c, "svg") =>
        LET tree == caller[c].tree
            boxes == ToSet(caller[c].body.boxes)
            walk == ToSet(Walk(tree, tree.root))
        IN  /\ (\A i \in walk : SelfTime(tree, i) >= 0) => NestedWithin(tree, boxes, Width)
            /\ (\A i \in walk : Values(tree, tree.children[i]) <= Micros(tree.rows[i].dur)) =>
                  NestedWithin(tree, boxes, 0) /\ RowsApart(boxes)

\* The statistics count every span of the walk under one name, and no span left
\* out of the hot spots has more time of its own than one of them
\* (collectFrameStats, GetHotSpots).
StatsCountAll ==
    \A c \in Callers : Shown(c, "stats") =>
        LET tree == caller[c].tree
            frames == caller[c].body.frames
            hot == ToSet(caller[c].body.hot)
            walk == Walk(tree, tree.root)
            names == SetToSeq(DOMAIN frames)
        IN  /\ Len(walk) = FoldLeft(+, 0, [k \in DOMAIN names |-> frames[names[k]].calls])
            /\ hot \subseteq ToSet(walk)
            /\ \A i \in hot, j \in ToSet(walk) \ hot : SelfTime(tree, i) >= SelfTime(tree, j)

\* Every answer of getFlameGraph shows the trace (ToFolded, ToSVG, GetFrameStats,
\* GetHotSpots).
FlameFaithful == FoldedShowsStacks /\ BoxesNest /\ StatsCountAll
=============================================================================
