-------------------------- MODULE TraceRequestsProofs --------------------------
(***************************************************************************)
(* Theorems about TraceRequests, for every value of its constants: the     *)
(* signature cache's accounts, the tree that BuildTraceTree makes, what    *)
(* becomes of a trace in the table, the signatures of subtrees, and the    *)
(* three drawings of the flame graph.                                      *)
(*                                                                         *)
(* A trace has any number of spans, so most lemmas are inductions.  They   *)
(* go over a set: that of the numbers up to which something holds, or      *)
(* that of the spans below or above which it does; a recursive function is *)
(* first shown to exist.                                                   *)
(***************************************************************************)
EXTENDS TraceRequests, FiniteSetTheorems, SequenceTheorems, WellFoundedInduction, TLAPS

-----------------------------------------------------------------------------
(* Induction over the natural numbers, and the sums the folds make.        *)

\* A set of natural numbers has a least element.
LEMMA Least ==
    ASSUME NEW S, S \subseteq Nat, S # {}
    PROVE  \E n \in S : \A m \in S : n <= m
<1>1. IsWellFoundedOn(OpToRel(<, Nat), Nat)
  BY NatLessThanWellFounded
<1>2. PICK n \in S : \A m \in S : ~(<<m, n>> \in OpToRel(<, Nat))
  BY <1>1, WFMin
<1>3. \A m \in S : ~(m < n)
  BY <1>2, Zenon DEF OpToRel
<1>4. \A m \in S : m \in Nat
  OBVIOUS
<1> QED
  BY <1>3, <1>4

\* So a set with 0 and all successors has every natural number.
LEMMA NatInd ==
    ASSUME NEW S, 0 \in S, \A n \in Nat : n \in S => n + 1 \in S
    PROVE  Nat \subseteq S
<1> SUFFICES ASSUME Nat \ S # {} PROVE FALSE
  OBVIOUS
<1>1. PICK n \in Nat \ S : \A m \in Nat \ S : n <= m
  BY Least
<1>2. n # 0 /\ n - 1 \in Nat
  BY <1>1
<1>3. n - 1 \in S
  BY <1>1, <1>2
<1> QED
  BY <1>1, <1>2, <1>3

\* A set of numbers up to n has a greatest element, which Max finds.
LEMMA MaxIn ==
    ASSUME NEW n \in Nat, NEW T \in SUBSET (1..n), T # {}
    PROVE  Max(T) \in T /\ \A x \in T : x <= Max(T)
<1> DEFINE D == {n - x : x \in T}
<1>1. D \subseteq Nat /\ D # {}
  <2>1. \A x \in T : n - x \in Nat
    OBVIOUS
  <2> QED
    BY <2>1
<1>2. PICK d \in D : \A e \in D : d <= e
  BY <1>1, Least
<1>3. PICK m \in T : d = n - m
  BY <1>2
<1>4. \A x \in T : m >= x
  BY <1>2, <1>3
<1>5. \E x \in T : \A y \in T : x >= y
  BY <1>4
<1> DEFINE M == CHOOSE x \in T : \A y \in T : x >= y
<1>6. M \in T /\ \A y \in T : M >= y
  BY <1>5
<1>7. M = Max(T)
  BY DEF Max
<1> HIDE DEF M
<1> QED
  BY <1>6, <1>7

\* The greatest element of a set of numbers up to n + 1 that holds n + 1.
LEMMA MaxOf ==
    ASSUME NEW n \in Nat, NEW T \in SUBSET (1..(n + 1)), n + 1 \in T
    PROVE  Max(T) = n + 1 /\ T \ {Max(T)} \in SUBSET (1..n)
<1>1. \A x \in T : n + 1 >= x
  OBVIOUS
<1>2. \A x \in T : (\A y \in T : x >= y) => x = n + 1
  BY <1>1
<1>3. Max(T) = n + 1
  BY <1>1, <1>2 DEF Max
<1> QED
  BY <1>3

\* One step of a fold that adds up, and a function that satisfies its recursion.
Added(v, it, T) == IF T = {} THEN 0 ELSE it[T \ {Max(T)}] + v[Max(T)]
AddsUp(v, n, it) == it = [T \in SUBSET (1..n) |-> Added(v, it, T)]

\* The recursion has a solution.
LEMMA AddsUpExists ==
    ASSUME NEW v
    PROVE  \A n \in Nat : \E it : AddsUp(v, n, it)
<1> DEFINE P == {n \in Nat : \E it : AddsUp(v, n, it)}
<1>1. 0 \in P
  <2>1. 1..0 = {}
    OBVIOUS
  <2>2. AddsUp(v, 0, [T \in SUBSET (1..0) |-> 0])
    BY <2>1 DEF AddsUp, Added
  <2> QED
    BY <2>2
<1>2. ASSUME NEW n \in Nat, n \in P
      PROVE  n + 1 \in P
  <2>1. PICK f : AddsUp(v, n, f)
    BY <1>2
  <2> DEFINE g == [T \in SUBSET (1..(n + 1)) |->
                     IF n + 1 \in T THEN f[T \ {n + 1}] + v[n + 1] ELSE f[T]]
  <2>2. ASSUME NEW T \in SUBSET (1..(n + 1))
        PROVE  g[T] = Added(v, g, T)
    <3>1. CASE n + 1 \in T
      <4>1. Max(T) = n + 1 /\ T \ {Max(T)} \in SUBSET (1..n)
        BY <3>1, MaxOf
      <4>2. g[T \ {n + 1}] = f[T \ {n + 1}]
        BY <4>1
      <4> QED
        BY <3>1, <4>1, <4>2 DEF Added
    <3>2. CASE n + 1 \notin T
      <4>1. T \in SUBSET (1..n)
        BY <3>2
      <4>2. f[T] = Added(v, f, T)
        BY <4>1, <2>1 DEF AddsUp
      <4>3. \A x : T \ {x} \in SUBSET (1..(n + 1)) /\ n + 1 \notin T \ {x}
        BY <3>2
      <4>4. \A x : g[T \ {x}] = f[T \ {x}]
        BY <4>3
      <4> QED
        BY <4>2, <4>4, <3>2 DEF Added
    <3> QED
      BY <3>1, <3>2
  <2>3. AddsUp(v, n + 1, g)
    BY <2>2 DEF AddsUp
  <2> QED
    BY <2>3
<1>3. Nat \subseteq P
  <2> HIDE DEF P
  <2> QED
    BY <1>1, <1>2, NatInd
<1> QED
  BY <1>3

\* The greatest element is added last.
LEMMA AddsUpStep ==
    ASSUME NEW v, NEW m \in Nat, NEW f, AddsUp(v, m, f), NEW n \in Nat, n + 1 <= m
    PROVE  f[1..(n + 1)] = f[1..n] + v[n + 1]
<1> DEFINE T == 1..(n + 1)
<1>1. T \in SUBSET (1..m) /\ T # {} /\ n + 1 \in T /\ T \in SUBSET (1..(n + 1))
  <2>1. \A i \in 1..(n + 1) : i \in 1..m
    OBVIOUS
  <2> QED
    BY <2>1
<1>2. T \ {n + 1} = 1..n
  OBVIOUS
<1> HIDE DEF T
<1>3. Max(T) = n + 1
  BY <1>1, MaxOf
<1>4. f[T] = Added(v, f, T)
  BY <1>1 DEF AddsUp
<1>5. f[T] = f[T \ {n + 1}] + v[n + 1]
  BY <1>1, <1>3, <1>4 DEF Added
<1> QED
  BY <1>2, <1>5 DEF T

\* What is added up first is nothing.
LEMMA AddsUpNone ==
    ASSUME NEW v, NEW m \in Nat, NEW f, AddsUp(v, m, f)
    PROVE  f[1..0] = 0
<1>1. 1..0 = {} /\ {} \in SUBSET (1..m)
  OBVIOUS
<1> QED
  BY <1>1 DEF AddsUp, Added

\* The value for 1..n depends on the first n summands only.
LEMMA AddsUpAgree ==
    ASSUME NEW v, NEW w, NEW m \in Nat, NEW k \in Nat, k <= m,
           NEW f, AddsUp(v, m, f), NEW g, AddsUp(w, k, g),
           \A i \in 1..k : w[i] = v[i]
    PROVE  f[1..k] = g[1..k]
<1> DEFINE P == {n \in Nat : n <= k => f[1..n] = g[1..n]}
<1>1. 0 \in P
  BY AddsUpNone
<1>2. ASSUME NEW n \in Nat, n \in P
      PROVE  n + 1 \in P
  <2> SUFFICES ASSUME n + 1 <= k
               PROVE  f[1..(n + 1)] = g[1..(n + 1)]
    OBVIOUS
  <2>1. f[1..(n + 1)] = f[1..n] + v[n + 1]
    BY AddsUpStep
  <2>2. g[1..(n + 1)] = g[1..n] + w[n + 1]
    BY AddsUpStep
  <2>3. f[1..n] = g[1..n] /\ w[n + 1] = v[n + 1]
    BY <1>2
  <2> QED
    BY <2>1, <2>2, <2>3
<1>3. Nat \subseteq P
  <2> HIDE DEF P
  <2> QED
    BY <1>1, <1>2, NatInd
<1> QED
  BY <1>3

\* The sum of the first n summands.
SumOf(v, n) == (CHOOSE it : AddsUp(v, n, it))[1..n]

\* It is what any such function says.
LEMMA SumIs ==
    ASSUME NEW v, NEW n \in Nat, NEW f, AddsUp(v, n, f)
    PROVE  SumOf(v, n) = f[1..n]
<1> DEFINE g == CHOOSE it : AddsUp(v, n, it)
<1>1. AddsUp(v, n, g)
  BY AddsUpExists, Zenon
<1> HIDE DEF g
<1>2. f[1..n] = g[1..n]
  BY <1>1, AddsUpAgree
<1> QED
  BY <1>2 DEF SumOf, g

\* The empty sum.
LEMMA SumNone == \A v : SumOf(v, 0) = 0
<1> SUFFICES ASSUME NEW v PROVE SumOf(v, 0) = 0
  OBVIOUS
<1>1. PICK f : AddsUp(v, 0, f)
  BY AddsUpExists
<1> QED
  BY <1>1, SumIs, AddsUpNone

\* The sum and one summand more.
LEMMA SumStep ==
    ASSUME NEW v, NEW n \in Nat
    PROVE  SumOf(v, n + 1) = SumOf(v, n) + v[n + 1]
<1>1. PICK f : AddsUp(v, n + 1, f)
  BY AddsUpExists
<1>2. PICK g : AddsUp(v, n, g)
  BY AddsUpExists
<1>3. f[1..n] = g[1..n]
  BY <1>1, <1>2, AddsUpAgree
<1>4. SumOf(v, n + 1) = f[1..(n + 1)] /\ SumOf(v, n) = g[1..n]
  BY <1>1, <1>2, SumIs
<1> QED
  BY <1>1, <1>3, <1>4, AddsUpStep

\* It depends on these summands only.
LEMMA SumAgree ==
    ASSUME NEW v, NEW w, NEW n \in Nat, \A i \in 1..n : w[i] = v[i]
    PROVE  SumOf(w, n) = SumOf(v, n)
<1>1. PICK f : AddsUp(v, n, f)
  BY AddsUpExists
<1>2. PICK g : AddsUp(w, n, g)
  BY AddsUpExists
<1>3. f[1..n] = g[1..n]
  BY <1>1, <1>2, AddsUpAgree
<1> QED
  BY <1>1, <1>2, <1>3, SumIs

\* A sum of whole numbers is one, and of natural numbers.
LEMMA SumType ==
    ASSUME NEW v, NEW m \in Nat, NEW S \in {Nat, Int}, \A i \in 1..m : v[i] \in S
    PROVE  \A n \in 0..m : SumOf(v, n) \in S
<1> DEFINE P == {n \in Nat : n <= m => SumOf(v, n) \in S}
<1>1. 0 \in P
  BY SumNone
<1>2. ASSUME NEW n \in Nat, n \in P
      PROVE  n + 1 \in P
  <2> SUFFICES ASSUME n + 1 <= m
               PROVE  SumOf(v, n + 1) \in S
    OBVIOUS
  <2>1. SumOf(v, n) \in S /\ v[n + 1] \in S
    BY <1>2
  <2>2. SumOf(v, n + 1) = SumOf(v, n) + v[n + 1]
    BY SumStep
  <2> QED
    BY <2>1, <2>2
<1>3. Nat \subseteq P
  <2> HIDE DEF P
  <2> QED
    BY <1>1, <1>2, NatInd
<1> QED
  BY <1>3

\* The fold that adds the counts up.
LEMMA FoldCounts ==
    ASSUME NEW s \in Seq(Int)
    PROVE  FoldLeft(+, 0, s) = SumOf(s, Len(s))
<1>1. DOMAIN s = 1..Len(s) /\ Len(s) \in Nat
  OBVIOUS
<1> DEFINE P(it) == it = [T \in SUBSET (1..Len(s)) |->
                             IF T = {} THEN 0 ELSE it[T \ {Max(T)}] + s[Max(T)]]
           f == CHOOSE it : P(it)
<1>2. FoldLeft(+, 0, s) = f[1..Len(s)]
  BY <1>1, Zenon DEF FoldLeft, MapThenFoldSet
<1>3. \A it : P(it) <=> AddsUp(s, Len(s), it)
  BY Zenon DEF AddsUp, Added
<1>4. \E it : P(it)
  BY <1>1, <1>3, AddsUpExists
<1> HIDE DEF P
<1>5. P(f)
  BY <1>4, Zenon
<1> HIDE DEF f
<1> QED
  BY <1>1, <1>2, <1>3, <1>5, SumIs

\* A new signature adds its Count of 1.
LEMMA SumSnoc ==
    ASSUME NEW s \in Seq(Int), NEW x \in Int
    PROVE  FoldLeft(+, 0, Append(s, x)) = FoldLeft(+, 0, s) + x
<1> DEFINE r == Append(s, x)
           n == Len(s)
<1>1. r \in Seq(Int) /\ Len(r) = n + 1 /\ n \in Nat /\ r[n + 1] = x
      /\ \A i \in 1..n : r[i] = s[i]
  OBVIOUS
<1> HIDE DEF r
<1>2. SumOf(r, n + 1) = SumOf(r, n) + x
  BY <1>1, SumStep
<1>3. SumOf(r, n) = SumOf(s, n)
  BY <1>1, SumAgree
<1>4. FoldLeft(+, 0, r) = SumOf(r, n + 1) /\ FoldLeft(+, 0, s) = SumOf(s, n)
  BY <1>1, FoldCounts
<1> QED
  BY <1>2, <1>3, <1>4 DEF r

\* Another Count of a signature adds 1.
LEMMA SumBump ==
    ASSUME NEW s \in Seq(Int), NEW j \in 1..Len(s)
    PROVE  FoldLeft(+, 0, [s EXCEPT ![j] = @ + 1]) = FoldLeft(+, 0, s) + 1
<1> DEFINE r == [s EXCEPT ![j] = @ + 1]
           m == Len(s)
           P == {n \in Nat : n <= m => SumOf(r, n) = SumOf(s, n) + (IF j <= n THEN 1 ELSE 0)}
<1>1. /\ r \in Seq(Int) /\ Len(r) = m /\ m \in Nat /\ j \in 1..m /\ r[j] = s[j] + 1
      /\ \A i \in 1..m : /\ r[i] \in Int /\ s[i] \in Int
                         /\ i # j => r[i] = s[i]
  OBVIOUS
<1> HIDE DEF r, m
<1>2. 0 \in P
  BY <1>1, SumNone
<1>3. ASSUME NEW n \in Nat, n \in P
      PROVE  n + 1 \in P
  <2> SUFFICES ASSUME n + 1 <= m
               PROVE  SumOf(r, n + 1) = SumOf(s, n + 1) + (IF j <= n + 1 THEN 1 ELSE 0)
    OBVIOUS
  <2>1. SumOf(r, n + 1) = SumOf(r, n) + r[n + 1] /\ SumOf(s, n + 1) = SumOf(s, n) + s[n + 1]
    BY SumStep
  <2>2. SumOf(r, n) = SumOf(s, n) + (IF j <= n THEN 1 ELSE 0)
    BY <1>3, <1>1
  <2>3. SumOf(s, n) \in Int
    <3>1. n \in 0..m
      BY <1>1
    <3> QED
      BY <1>1, <3>1, SumType
  <2>4. r[n + 1] \in Int /\ s[n + 1] \in Int /\ (n + 1 # j => r[n + 1] = s[n + 1])
    BY <1>1
  <2>5. CASE n + 1 = j
    <3>1. j \in Int /\ ~(j <= n) /\ j <= n + 1
      BY <1>1, <2>5
    <3>2. SumOf(r, n) = SumOf(s, n)
      BY <2>2, <2>3, <3>1
    <3>3. r[n + 1] = s[n + 1] + 1
      BY <1>1, <2>5
    <3>4. SumOf(r, n + 1) = SumOf(s, n) + (s[n + 1] + 1)
      BY ONLY <2>1, <3>2, <3>3
    <3> DEFINE a == SumOf(s, n)
               b == s[n + 1]
    <3>5. a \in Int /\ b \in Int /\ SumOf(s, n + 1) = a + b
      BY <2>1, <2>3, <2>4
    <3> HIDE DEF a, b
    <3> QED
      BY <3>1, <3>4, <3>5 DEF a, b
  <2>6. CASE n + 1 # j
    BY <1>1, <2>1, <2>2, <2>3, <2>4, <2>6
  <2> QED
    BY <2>5, <2>6
<1>4. Nat \subseteq P
  <2> HIDE DEF P
  <2> QED
    BY <1>2, <1>3, NatInd
<1>5. SumOf(r, m) = SumOf(s, m) + 1
  BY <1>1, <1>4
<1>6. FoldLeft(+, 0, r) = SumOf(r, m) /\ FoldLeft(+, 0, s) = SumOf(s, m)
  BY <1>1, FoldCounts DEF m
<1> QED
  BY <1>5, <1>6 DEF r

-----------------------------------------------------------------------------
(* The progress of the callers.                                            *)

Common == {"pc", "saved", "stored", "tree"}

\* What a caller carries at each point of its way.
Shape(me) ==
    \/ me.pc = "idle"
    \/ me.pc \in Wants /\ DOMAIN me = Common
    \/ me.pc \in {"span", "sign", "tally", "tag"} /\ DOMAIN me = Common \cup {"todo", "hit"}
       /\ me.hit \in BOOLEAN
    \/ me.pc = "answered" /\ DOMAIN me = Common \cup {"code", "body"}

CallersOK == DOMAIN caller = Callers /\ \A c \in Callers : Shape(caller[c])

\* A step of one caller leaves the others where they are.
LEMMA GotoOne ==
    ASSUME DOMAIN caller = Callers, NEW c \in Callers, NEW new, Goto(c, new)
    PROVE  /\ caller'[c] = new /\ DOMAIN caller' = Callers
           /\ \A d \in Callers : d # c => caller'[d] = caller[d]
  BY DEF Goto

\* So all callers stay in shape if the new state of the one is.
LEMMA GotoShape ==
    ASSUME CallersOK, NEW c \in Callers, NEW new, Goto(c, new), Shape(new)
    PROVE  CallersOK'
<1>1. /\ caller'[c] = new /\ DOMAIN caller' = Callers
      /\ \A d \in Callers : d # c => caller'[d] = caller[d]
  BY GotoOne DEF CallersOK
<1>2. \A d \in Callers : Shape(caller'[d])
  BY <1>1 DEF CallersOK
<1> QED
  BY <1>1, <1>2 DEF CallersOK, Shape, Common, Wants

\* The steps of one caller, by what they do to the cache.
Elsewhere(c) ==
    \/ \E want \in Wants : \E saved \in Traces(want) :
         Query(c, saved, want) \/ Build(c, saved, want)
    \/ GetTrace(c) \/ FlameGraph(c) \/ CompressTrace(c) \/ CompressSpan(c) \/ Tag(c)

\* An answer keeps what was asked for and the tree.
LEMMA AnswerIs ==
    ASSUME NEW c, NEW tree, NEW code, NEW body, Answer(c, tree, code, body)
    PROVE  \E new : /\ Goto(c, new) /\ new.pc = "answered"
                    /\ DOMAIN new = Common \cup {"code", "body"}
                    /\ new.tree = tree /\ new.saved = caller[c].saved
                    /\ new.stored = caller[c].stored /\ new.code = code /\ new.body = body
<1> DEFINE new == [pc |-> "answered", saved |-> caller[c].saved, stored |-> caller[c].stored,
                   tree |-> tree, code |-> code, body |-> body]
<1>1. Goto(c, new)
  BY DEF Answer
<1>2. /\ new.pc = "answered" /\ DOMAIN new = Common \cup {"code", "body"}
      /\ new.tree = tree /\ new.saved = caller[c].saved
      /\ new.stored = caller[c].stored /\ new.code = code /\ new.body = body
  BY DEF Common
<1> HIDE DEF new
<1> QED
  BY <1>1, <1>2

\* None of them has to do with a signature that waits for being counted.
LEMMA ElsewhereMoves ==
    ASSUME CallersOK, NEW c \in Callers, Elsewhere(c)
    PROVE  /\ UNCHANGED <<counts, cache>> /\ caller[c].pc # "tally"
           /\ \E new : Goto(c, new) /\ Shape(new) /\ new.pc # "tally"
           /\ stats' = stats \/ (stats' = [stats EXCEPT !.total = @ + 1, !.compressed = @ + 1])
                             \/ (stats' = [stats EXCEPT !.total = @ + 1, !.compressed = @])
<1>1. ASSUME NEW want \in Wants, NEW saved, Query(c, saved, want) \/ Build(c, saved, want)
      PROVE  /\ UNCHANGED <<counts, cache, stats>> /\ caller[c].pc # "tally"
             /\ \E new : Goto(c, new) /\ Shape(new) /\ new.pc # "tally"
  <2>1. /\ UNCHANGED <<counts, cache, stats>> /\ Free(c)
        /\ \E t, s : Goto(c, [pc |-> want, saved |-> saved, stored |-> s, tree |-> t])
    BY <1>1 DEF Query, Build
  <2>2. PICK t, s : Goto(c, [pc |-> want, saved |-> saved, stored |-> s, tree |-> t])
    BY <2>1
  <2> DEFINE new == [pc |-> want, saved |-> saved, stored |-> s, tree |-> t]
  <2>3. new.pc = want /\ DOMAIN new = Common
    BY DEF Common
  <2>4. Goto(c, new)
    BY <2>2
  <2> HIDE DEF new
  <2>5. Shape(new) /\ new.pc # "tally"
    BY <2>3 DEF Shape, Wants
  <2> QED
    BY <2>1, <2>4, <2>5 DEF Free
<1>2. ASSUME NEW tree, NEW code, NEW body, Answer(c, tree, code, body)
      PROVE  \E new : Goto(c, new) /\ Shape(new) /\ new.pc # "tally"
  <2>1. PICK new : Goto(c, new) /\ new.pc = "answered" /\ DOMAIN new = Common \cup {"code", "body"}
    BY <1>2, AnswerIs
  <2>2. Shape(new) /\ new.pc # "tally"
    BY <2>1 DEF Shape
  <2> QED
    BY <2>1, <2>2
<1>3. CASE GetTrace(c)
  <2>1. /\ UNCHANGED <<counts, cache, stats>> /\ caller[c].pc = "json"
        /\ \E tree, code, body : Answer(c, tree, code, body)
    BY <1>3 DEF GetTrace
  <2> QED
    BY <1>2, <2>1
<1>4. CASE FlameGraph(c)
  <2>1. UNCHANGED <<counts, cache, stats>> /\ caller[c].pc = "flame"
    BY <1>4 DEF FlameGraph
  <2>2. CASE caller[c].tree.root = NoSpan
    <3>1. \E code : Answer(c, caller[c].tree, code, <<>>)
      BY <1>4, <2>2 DEF FlameGraph
    <3> QED
      BY <1>2, <2>1, <3>1
  <2>3. CASE caller[c].tree.root # NoSpan
    <3>1. \E tree, code, body : Answer(c, tree, code, body)
      BY <1>4, <2>3, Zenon DEF FlameGraph
    <3> QED
      BY <1>2, <2>1, <3>1
  <2> QED
    BY <2>2, <2>3
<1>5. CASE CompressTrace(c)
  <2>1. UNCHANGED <<counts, cache, stats>> /\ caller[c].pc = "compress"
    BY <1>5 DEF CompressTrace
  <2> DEFINE new == [pc |-> "span", saved |-> caller[c].saved, stored |-> caller[c].stored,
                     tree |-> caller[c].tree, todo |-> <<caller[c].tree.root>>, hit |-> FALSE]
  <2>2. Goto(c, new) \/ Answer(c, caller[c].tree, 200, <<>>)
    BY <1>5 DEF CompressTrace
  <2>3. new.pc = "span" /\ new.hit \in BOOLEAN /\ DOMAIN new = Common \cup {"todo", "hit"}
    BY DEF Common
  <2> HIDE DEF new
  <2>4. Shape(new) /\ new.pc # "tally"
    BY <2>3 DEF Shape
  <2> QED
    BY <1>2, <2>1, <2>2, <2>4
<1>6. CASE CompressSpan(c)
  <2>1. /\ UNCHANGED <<counts, cache>> /\ caller[c].pc = "span"
        /\ Goto(c, [caller[c] EXCEPT !.pc = "sign"])
        /\ \/ stats' = [stats EXCEPT !.total = @ + 1, !.compressed = @ + 1]
           \/ stats' = [stats EXCEPT !.total = @ + 1, !.compressed = @]
    BY <1>6 DEF CompressSpan
  <2> DEFINE new == [caller[c] EXCEPT !.pc = "sign"]
  <2>2. caller[c].hit \in BOOLEAN /\ DOMAIN caller[c] = Common \cup {"todo", "hit"}
    BY <2>1 DEF CallersOK, Shape, Wants
  <2>3. new.pc = "sign" /\ new.hit \in BOOLEAN /\ DOMAIN new = Common \cup {"todo", "hit"}
    BY <2>2 DEF Common
  <2> HIDE DEF new
  <2>4. Shape(new) /\ new.pc # "tally"
    BY <2>3 DEF Shape
  <2> QED
    BY <2>1, <2>4 DEF new
<1>7. CASE Tag(c)
  <2>1. UNCHANGED <<counts, cache, stats>> /\ caller[c].pc = "tag"
    BY <1>7 DEF Tag
  <2>2. \/ Answer(c, caller[c].tree, 200, <<>>)
        \/ \E rest : Goto(c, [caller[c] EXCEPT !.pc = "span", !.todo = rest])
    BY <1>7 DEF Tag
  <2>3. ASSUME NEW rest, Goto(c, [caller[c] EXCEPT !.pc = "span", !.todo = rest])
        PROVE  \E new : Goto(c, new) /\ Shape(new) /\ new.pc # "tally"
    <3> DEFINE new == [caller[c] EXCEPT !.pc = "span", !.todo = rest]
    <3>1. caller[c].hit \in BOOLEAN /\ DOMAIN caller[c] = Common \cup {"todo", "hit"}
      BY <2>1 DEF CallersOK, Shape, Wants
    <3>2. new.pc = "span" /\ new.hit \in BOOLEAN /\ DOMAIN new = Common \cup {"todo", "hit"}
      BY <3>1 DEF Common
    <3>3. Goto(c, new)
      BY <2>3
    <3> HIDE DEF new
    <3> QED
      BY <3>2, <3>3 DEF Shape
  <2> QED
    BY <1>2, <2>1, <2>2, <2>3
<1> QED
  BY <1>1, <1>3, <1>4, <1>5, <1>6, <1>7 DEF Elsewhere

-----------------------------------------------------------------------------
(* The signature cache.                                                    *)

Tallying(hit) == {c \in Callers : caller[c].pc = "tally" /\ caller[c].hit = hit}

Stats == [total : Nat, compressed : Nat, hits : Nat, misses : Nat]

\* The cache holds indices of counts, and the counters are natural numbers.
CacheType ==
    /\ counts \in Seq(Nat) /\ stats \in Stats
    /\ IsFiniteSet(DOMAIN cache)
    /\ \A h \in DOMAIN cache : cache[h] \in 1..Len(counts)

\* A step with which no caller starts or stops waiting for its count keeps both sets.
LEMMA TallyingKept ==
    ASSUME CallersOK, NEW c \in Callers, NEW new, Goto(c, new),
           caller[c].pc # "tally", new.pc # "tally"
    PROVE  Tallying(TRUE)' = Tallying(TRUE) /\ Tallying(FALSE)' = Tallying(FALSE)
<1>1. /\ caller'[c] = new
      /\ \A d \in Callers : d # c => caller'[d] = caller[d]
  BY GotoOne DEF CallersOK
<1>2. \A d \in Callers : caller'[d].pc = "tally" <=> caller[d].pc = "tally"
  BY <1>1
<1>3. \A d \in Callers : caller[d].pc = "tally" => caller'[d] = caller[d]
  BY <1>1
<1> QED
  BY <1>2, <1>3 DEF Tallying

\* A signature that was looked up waits for being counted as a hit or as a miss.
LEMMA TallyingMore ==
    ASSUME CallersOK, NEW c \in Callers, NEW new, Goto(c, new), NEW hit \in BOOLEAN,
           caller[c].pc # "tally", new.pc = "tally", new.hit = hit
    PROVE  /\ c \notin Tallying(hit) /\ Tallying(hit)' = Tallying(hit) \cup {c}
           /\ Tallying(~hit)' = Tallying(~hit)
<1>1. /\ caller'[c] = new
      /\ \A d \in Callers : d # c => caller'[d] = caller[d]
  BY GotoOne DEF CallersOK
<1>2. /\ c \notin Tallying(hit) /\ c \notin Tallying(~hit)
      /\ c \in Tallying(hit)' /\ c \notin Tallying(~hit)'
  BY <1>1 DEF Tallying
<1>3. \A d \in Callers : d # c => /\ d \in Tallying(hit)' <=> d \in Tallying(hit)
                                  /\ d \in Tallying(~hit)' <=> d \in Tallying(~hit)
  BY <1>1 DEF Tallying
<1>4. \A h : /\ Tallying(h) \subseteq Callers /\ Tallying(h)' \subseteq Callers
  BY DEF Tallying
<1> QED
  BY <1>2, <1>3, <1>4

\* Then it is counted.
LEMMA TallyingLess ==
    ASSUME CallersOK, NEW c \in Callers, NEW new, Goto(c, new), NEW hit \in BOOLEAN,
           caller[c].pc = "tally", caller[c].hit = hit, new.pc # "tally"
    PROVE  /\ c \in Tallying(hit) /\ Tallying(hit)' = Tallying(hit) \ {c}
           /\ Tallying(~hit)' = Tallying(~hit)
<1>1. /\ caller'[c] = new
      /\ \A d \in Callers : d # c => caller'[d] = caller[d]
  BY GotoOne DEF CallersOK
<1>2. /\ c \in Tallying(hit) /\ c \notin Tallying(~hit)
      /\ c \notin Tallying(hit)' /\ c \notin Tallying(~hit)'
  BY <1>1 DEF Tallying
<1>3. \A d \in Callers : d # c => /\ d \in Tallying(hit)' <=> d \in Tallying(hit)
                                  /\ d \in Tallying(~hit)' <=> d \in Tallying(~hit)
  BY <1>1 DEF Tallying
<1>4. \A h : /\ Tallying(h) \subseteq Callers /\ Tallying(h)' \subseteq Callers
  BY DEF Tallying
<1> QED
  BY <1>2, <1>3, <1>4

\* There are finitely many of them.
LEMMA TallyingFinite ==
    \A hit : IsFiniteSet(Tallying(hit)) /\ Cardinality(Tallying(hit)) \in Nat
  BY CallersAssumption, FS_Subset, FS_CardinalityType DEF Tallying

\* maxCacheSize counts as 1 if it is 0.
LEMMA Room ==
    Max({maxCacheSize, 1}) = IF maxCacheSize >= 1 THEN maxCacheSize ELSE 1
<1> DEFINE m == IF maxCacheSize >= 1 THEN maxCacheSize ELSE 1
<1>1. m \in {maxCacheSize, 1} /\ \A y \in {maxCacheSize, 1} : m >= y
  BY CacheAssumption
<1>2. \A x \in {maxCacheSize, 1} : (\A y \in {maxCacheSize, 1} : x >= y) => x = m
  BY CacheAssumption
<1> HIDE DEF m
<1> QED
  BY <1>1, <1>2 DEF Max, m

\* A set grows by one element at most if one is added.
LEMMA OneMore ==
    ASSUME NEW S, IsFiniteSet(S), NEW x
    PROVE  IsFiniteSet(S \cup {x}) /\ Cardinality(S \cup {x}) <= Cardinality(S) + 1
<1> DEFINE c == Cardinality(S)
<1>1. c \in Nat
  BY FS_CardinalityType
<1>2. IsFiniteSet(S \cup {x}) /\ (Cardinality(S \cup {x}) = c \/ Cardinality(S \cup {x}) = c + 1)
  BY FS_AddElement
<1> HIDE DEF c
<1>3. Cardinality(S \cup {x}) <= c + 1
  BY <1>1, <1>2
<1> QED
  BY <1>2, <1>3 DEF c

\* evictOldCache makes room for one signature, so that the cache never outgrows its size.
LEMMA EvictedRoom ==
    ASSUME IsFiniteSet(DOMAIN cache), Cardinality(DOMAIN cache) <= Max({maxCacheSize, 1}),
           NEW left \in Evicted, NEW hash
    PROVE  /\ DOMAIN left \subseteq DOMAIN cache
           /\ \A h \in DOMAIN left : left[h] = cache[h]
           /\ IsFiniteSet(DOMAIN left \cup {hash})
           /\ Cardinality(DOMAIN left \cup {hash}) <= Max({maxCacheSize, 1})
<1> DEFINE once == {h \in DOMAIN cache : counts[cache[h]] = 1}
           victims == IF once # {} THEN once ELSE DOMAIN cache
           D == DOMAIN cache
           L == DOMAIN left
           M == Max({maxCacheSize, 1})
<1>0. Cardinality(D) \in Nat /\ M \in Nat /\ M >= 1 /\ M >= maxCacheSize
  BY FS_CardinalityType, CacheAssumption, Room
<1>1. victims \subseteq D /\ (victims = {} => D = {})
  OBVIOUS
<1>2. CASE Cardinality(D) < maxCacheSize \/ victims = {}
  <2>1. left = cache
    BY <1>2 DEF Evicted
  <2>2. Cardinality(D) + 1 <= M
    <3>1. CASE Cardinality(D) < maxCacheSize
      BY <3>1, <1>0, CacheAssumption
    <3>2. CASE victims = {}
      <4>1. Cardinality(D) = 0
        BY <1>1, <3>2, FS_EmptySet
      <4> QED
        BY <4>1, <1>0
    <3> QED
      BY <3>1, <3>2, <1>2
  <2>3. IsFiniteSet(D \cup {hash}) /\ Cardinality(D \cup {hash}) <= Cardinality(D) + 1
    <3>1. IsFiniteSet(D)
      BY <1>0
    <3> HIDE DEF D
    <3> QED
      BY ONLY <3>1, OneMore
  <2>4. Cardinality(D \cup {hash}) \in Nat
    BY <2>3, FS_CardinalityType
  <2> HIDE DEF D, M
  <2>5. Cardinality(D \cup {hash}) <= M
    BY <1>0, <2>2, <2>3, <2>4
  <2> QED
    BY <2>1, <2>3, <2>5 DEF D, M
<1>3. CASE ~(Cardinality(D) < maxCacheSize \/ victims = {})
  <2>1. PICK v \in victims : left = [h \in D \ {v} |-> cache[h]]
    BY <1>3 DEF Evicted
  <2>2. L = D \ {v} /\ v \in D /\ \A h \in L : left[h] = cache[h]
    BY <2>1, <1>1
  <2>3. IsFiniteSet(L) /\ Cardinality(L) = Cardinality(D) - 1
    BY <2>2, FS_RemoveElement
  <2>4. IsFiniteSet(L \cup {hash}) /\ Cardinality(L \cup {hash}) <= Cardinality(L) + 1
    <3> HIDE DEF L
    <3> QED
      BY <2>3, OneMore
  <2>5. Cardinality(L \cup {hash}) \in Nat
    BY <2>4, FS_CardinalityType
  <2> HIDE DEF D, L, M
  <2>6. Cardinality(L \cup {hash}) <= M
    BY <1>0, <2>3, <2>4, <2>5 DEF D, M
  <2> QED
    BY <2>2, <2>4, <2>6 DEF D, L, M
<1> QED
  BY <1>2, <1>3

\* What a signature does: it counts one more of a structure that is found, or adds the
\* structure, and then the caller has a hit or a miss to count.
LEMMA SignatureMoves ==
    ASSUME CallersOK, NEW c \in Callers, Signature(c)
    PROVE  /\ UNCHANGED stats /\ caller[c].pc = "sign"
           /\ \E hash, new :
                /\ Goto(c, new) /\ Shape(new) /\ new.pc = "tally"
                /\ \/ /\ hash \in DOMAIN cache /\ new.hit = TRUE /\ cache' = cache
                      /\ counts' = [counts EXCEPT ![cache[hash]] = @ + 1]
                   \/ /\ new.hit = FALSE /\ counts' = Append(counts, 1)
                      /\ \E left \in Evicted :
                           cache' = [h \in DOMAIN left \cup {hash} |->
                                       IF h = hash THEN Len(counts) + 1 ELSE left[h]]
<1>1. UNCHANGED stats /\ caller[c].pc = "sign"
  BY DEF Signature
<1>2. caller[c].hit \in BOOLEAN /\ DOMAIN caller[c] = Common \cup {"todo", "hit"}
  BY <1>1 DEF CallersOK, Shape, Wants
<1>3. ASSUME NEW t, NEW b \in BOOLEAN
      PROVE  LET new == [caller[c] EXCEPT !.pc = "tally", !.tree = t, !.hit = b]
             IN  Shape(new) /\ new.pc = "tally" /\ new.hit = b
  <2> DEFINE new == [caller[c] EXCEPT !.pc = "tally", !.tree = t, !.hit = b]
  <2>1. new.pc = "tally" /\ new.hit = b /\ DOMAIN new = Common \cup {"todo", "hit"}
    BY <1>2 DEF Common
  <2> HIDE DEF new
  <2>2. Shape(new)
    BY <2>1 DEF Shape
  <2> QED
    BY <2>1, <2>2 DEF new
<1>4. PICK t \in SortedFor(caller[c]) :
         LET hash == Structure(t, Head(caller[c].todo))
         IN  \/ /\ hash \in DOMAIN cache
                /\ counts' = [counts EXCEPT ![cache[hash]] = @ + 1]
                /\ Goto(c, [caller[c] EXCEPT !.pc = "tally", !.tree = t, !.hit = TRUE])
                /\ UNCHANGED cache
             \/ /\ hash \notin DOMAIN cache
                /\ counts' = Append(counts, 1)
                /\ \E left \in Evicted :
                     cache' = [h \in DOMAIN left \cup {hash} |->
                                 IF h = hash THEN Len(counts) + 1 ELSE left[h]]
                /\ Goto(c, [caller[c] EXCEPT !.pc = "tally", !.tree = t, !.hit = FALSE])
  BY DEF Signature
<1> DEFINE hash == Structure(t, Head(caller[c].todo))
           new(b) == [caller[c] EXCEPT !.pc = "tally", !.tree = t, !.hit = b]
<1>5. \A b \in BOOLEAN : Shape(new(b)) /\ new(b).pc = "tally" /\ new(b).hit = b
  BY <1>3
<1>6. \/ /\ hash \in DOMAIN cache
         /\ counts' = [counts EXCEPT ![cache[hash]] = @ + 1]
         /\ Goto(c, new(TRUE)) /\ UNCHANGED cache
      \/ /\ counts' = Append(counts, 1)
         /\ \E left \in Evicted :
              cache' = [h \in DOMAIN left \cup {hash} |->
                          IF h = hash THEN Len(counts) + 1 ELSE left[h]]
         /\ Goto(c, new(FALSE))
  BY <1>4
<1> HIDE DEF hash, new
<1>7. CASE /\ hash \in DOMAIN cache
           /\ counts' = [counts EXCEPT ![cache[hash]] = @ + 1]
           /\ Goto(c, new(TRUE)) /\ UNCHANGED cache
  <2>1. Shape(new(TRUE)) /\ new(TRUE).pc = "tally" /\ new(TRUE).hit = TRUE
    BY <1>5
  <2> QED
    BY <1>1, <1>7, <2>1
<1>8. CASE /\ counts' = Append(counts, 1)
           /\ \E left \in Evicted :
                cache' = [h \in DOMAIN left \cup {hash} |->
                            IF h = hash THEN Len(counts) + 1 ELSE left[h]]
           /\ Goto(c, new(FALSE))
  <2>1. Shape(new(FALSE)) /\ new(FALSE).pc = "tally" /\ new(FALSE).hit = FALSE
    BY <1>5
  <2> QED
    BY <1>1, <1>8, <2>1
<1> QED
  BY <1>6, <1>7, <1>8

\* The sum of the Counts.
CountsSum(s) == FoldLeft(+, 0, s)

\* It is a number, grows by one when a Count does, and by a Count that is appended.
LEMMA CountsSumIs ==
    ASSUME NEW s \in Seq(Nat)
    PROVE  /\ CountsSum(s) \in Int /\ CountsSum(Append(s, 1)) = CountsSum(s) + 1
           /\ \A j \in 1..Len(s) : CountsSum([s EXCEPT ![j] = @ + 1]) = CountsSum(s) + 1
<1>1. s \in Seq(Int) /\ Len(s) \in Nat /\ Len(s) \in 0..Len(s) /\ 1 \in Int /\ Int \in {Nat, Int}
      /\ \A i \in 1..Len(s) : s[i] \in Int
  OBVIOUS
<1>2. SumOf(s, Len(s)) \in Int
  BY <1>1, SumType
<1>3. FoldLeft(+, 0, s) = SumOf(s, Len(s))
  BY <1>1, FoldCounts
<1>4. CountsSum(s) \in Int
  BY <1>2, <1>3 DEF CountsSum
<1>5. CountsSum(Append(s, 1)) = CountsSum(s) + 1
  BY <1>1, SumSnoc DEF CountsSum
<1>6. ASSUME NEW j \in 1..Len(s)
      PROVE  CountsSum([s EXCEPT ![j] = @ + 1]) = CountsSum(s) + 1
  BY <1>1, SumBump DEF CountsSum
<1> QED
  BY <1>4, <1>5, <1>6

\* CacheAccounts, its parts by name.
Accounts ==
    /\ Cardinality(DOMAIN cache) <= Max({maxCacheSize, 1})
    /\ Len(counts) = stats.misses + Cardinality(Tallying(FALSE))
    /\ CountsSum(counts) - Len(counts) = stats.hits + Cardinality(Tallying(TRUE))

\* It says the same of a state and of the next.
LEMMA AccountsIs == (CacheAccounts <=> Accounts) /\ (CacheAccounts' <=> Accounts')
<1>1. CacheAccounts <=> Accounts
  BY DEF CacheAccounts, Accounts, Tallying, CountsSum
<1>2. CacheAccounts' <=> Accounts'
  BY DEF CacheAccounts, Accounts, Tallying, CountsSum
<1> QED
  BY <1>1, <1>2

CacheInv == CallersOK /\ CacheType /\ Accounts

\* What every step does with the accounts: as many signatures more as callers that wait to
\* count one, or one caller less and a hit or a miss more.
LEMMA Balance ==
    ASSUME NEW l \in Int, NEW s \in Int, NEW m \in Int, NEW h \in Int, NEW f \in Int, NEW t \in Int,
           l = m + f, s - l = h + t
    PROVE  /\ (s + 1) - l = h + (t + 1)
           /\ l + 1 = m + (f + 1) /\ (s + 1) - (l + 1) = h + t
           /\ l = (m + 1) + (f - 1) /\ s - l = (h + 1) + (t - 1)
  OBVIOUS

\* The terms of the accounts are numbers.
LEMMA Terms ==
    ASSUME CacheInv
    PROVE  /\ Len(counts) \in Int /\ CountsSum(counts) \in Int /\ stats.misses \in Int /\ stats.hits \in Int
           /\ Cardinality(Tallying(FALSE)) \in Int /\ Cardinality(Tallying(TRUE)) \in Int
<1>1. counts \in Seq(Nat) /\ stats \in Stats
  BY DEF CacheInv, CacheType
<1>2. Len(counts) \in Nat /\ stats.misses \in Nat /\ stats.hits \in Nat
  BY <1>1 DEF Stats
<1>3. CountsSum(counts) \in Int
  BY <1>1, CountsSumIs
<1>4. Cardinality(Tallying(FALSE)) \in Nat /\ Cardinality(Tallying(TRUE)) \in Nat
  BY TallyingFinite
<1>5. \A x \in Nat : x \in Int
  OBVIOUS
<1> QED
  BY <1>2, <1>3, <1>4, <1>5, Zenon

\* A signature keeps the accounts (ComputeSubtreeSignature, up to its first Unlock).
LEMMA SignatureKeeps ==
    ASSUME CacheInv, NEW c \in Callers, Signature(c)
    PROVE  CacheInv'
<1> DEFINE l == Len(counts)  s == CountsSum(counts)  m == stats.misses  h == stats.hits
           f == Cardinality(Tallying(FALSE))  t == Cardinality(Tallying(TRUE))
<1>0. CallersOK /\ CacheType /\ counts \in Seq(Nat) /\ IsFiniteSet(DOMAIN cache)
      /\ Cardinality(DOMAIN cache) <= Max({maxCacheSize, 1})
  BY DEF CacheInv, CacheType, Accounts
<1>1. /\ UNCHANGED stats /\ caller[c].pc = "sign"
  BY <1>0, SignatureMoves
<1>2. PICK hash, new :
        /\ Goto(c, new) /\ Shape(new) /\ new.pc = "tally"
        /\ \/ /\ hash \in DOMAIN cache /\ new.hit = TRUE /\ cache' = cache
              /\ counts' = [counts EXCEPT ![cache[hash]] = @ + 1]
           \/ /\ new.hit = FALSE /\ counts' = Append(counts, 1)
              /\ \E left \in Evicted :
                   cache' = [k \in DOMAIN left \cup {hash} |->
                               IF k = hash THEN Len(counts) + 1 ELSE left[k]]
  BY <1>0, SignatureMoves
<1>3. CallersOK'
  BY <1>0, <1>2, GotoShape
<1>4. /\ l \in Int /\ s \in Int /\ m \in Int /\ h \in Int /\ f \in Int /\ t \in Int
      /\ l = m + f /\ s - l = h + t
  BY Terms DEF CacheInv, Accounts
<1>5. /\ (s + 1) - l = h + (t + 1)
      /\ l + 1 = m + (f + 1) /\ (s + 1) - (l + 1) = h + t
  <2> HIDE DEF l, s, m, h, f, t
  <2> QED
    BY <1>4, Balance
<1>6. IsFiniteSet(Tallying(TRUE)) /\ IsFiniteSet(Tallying(FALSE))
  BY TallyingFinite
<1>7. CASE /\ hash \in DOMAIN cache /\ new.hit = TRUE /\ cache' = cache
           /\ counts' = [counts EXCEPT ![cache[hash]] = @ + 1]
  <2>1. cache[hash] \in 1..Len(counts)
    BY <1>0, <1>7 DEF CacheType
  <2>2. counts' \in Seq(Nat) /\ Len(counts') = l
    BY <1>0, <1>7, <2>1
  <2>3. CountsSum(counts') = s + 1
    BY <1>0, <1>7, <2>1, CountsSumIs
  <2>4. TRUE \in BOOLEAN /\ c \notin Tallying(TRUE) /\ Tallying(TRUE)' = Tallying(TRUE) \cup {c}
        /\ Tallying(FALSE)' = Tallying(FALSE)
    BY <1>0, <1>1, <1>2, <1>7, TallyingMore, (~TRUE) = FALSE
  <2>5. Cardinality(Tallying(TRUE)') = t + 1 /\ Cardinality(Tallying(FALSE)') = f
    BY <1>6, <2>4, FS_AddElement
  <2>6. CacheType'
    BY <1>0, <1>1, <1>7, <2>2 DEF CacheType
  <2>7. Accounts'
    BY <1>0, <1>1, <1>4, <1>5, <1>7, <2>2, <2>3, <2>5, Zenon DEF Accounts
  <2> QED
    BY <1>3, <2>6, <2>7 DEF CacheInv
<1>8. ASSUME new.hit = FALSE, counts' = Append(counts, 1), NEW left \in Evicted,
             cache' = [k \in DOMAIN left \cup {hash} |->
                         IF k = hash THEN Len(counts) + 1 ELSE left[k]]
      PROVE  CacheInv'
  <2>1. counts' \in Seq(Nat) /\ Len(counts') = l + 1
    BY <1>0, <1>8
  <2>2. CountsSum(counts') = s + 1
    BY <1>0, <1>8, CountsSumIs
  <2>3. FALSE \in BOOLEAN /\ Tallying(FALSE)' = Tallying(FALSE) \cup {c} /\ c \notin Tallying(FALSE)
        /\ Tallying(TRUE)' = Tallying(TRUE)
    BY <1>0, <1>1, <1>2, <1>8, TallyingMore, (~FALSE) = TRUE
  <2>4. Cardinality(Tallying(FALSE)') = f + 1 /\ Cardinality(Tallying(TRUE)') = t
    BY <1>6, <2>3, FS_AddElement
  <2>5. /\ DOMAIN left \subseteq DOMAIN cache
        /\ \A k \in DOMAIN left : left[k] = cache[k]
        /\ IsFiniteSet(DOMAIN left \cup {hash})
        /\ Cardinality(DOMAIN left \cup {hash}) <= Max({maxCacheSize, 1})
    BY <1>0, <1>8, EvictedRoom
  <2>6. DOMAIN cache' = DOMAIN left \cup {hash}
    BY <1>8
  <2>7. \A k \in DOMAIN cache' : cache'[k] \in 1..Len(counts')
    <3>1. \A k \in DOMAIN left : left[k] \in 1..Len(counts)
      BY <1>0, <2>5 DEF CacheType
    <3>2. Len(counts) \in Nat
      BY <1>0
    <3> QED
      BY <1>8, <2>1, <3>1, <3>2
  <2>8. CacheType'
    BY <1>0, <1>1, <2>1, <2>5, <2>6, <2>7 DEF CacheType
  <2>9. Accounts'
    BY <1>1, <1>5, <2>1, <2>2, <2>4, <2>5, <2>6, Zenon DEF Accounts
  <2> QED
    BY <1>3, <2>8, <2>9 DEF CacheInv
<1> QED
  BY <1>2, <1>7, <1>8

\* The count that follows it keeps them (ComputeSubtreeSignature's second Lock).
LEMMA TallyKeeps ==
    ASSUME CacheInv, NEW c \in Callers, Tally(c)
    PROVE  CacheInv'
<1> DEFINE l == Len(counts)  s == CountsSum(counts)  m == stats.misses  h == stats.hits
           f == Cardinality(Tallying(FALSE))  t == Cardinality(Tallying(TRUE))
           new == [caller[c] EXCEPT !.pc = "tag"]
<1>0. CallersOK /\ CacheType /\ stats \in Stats
  BY DEF CacheInv, CacheType
<1>1. /\ UNCHANGED <<counts, cache>> /\ caller[c].pc = "tally" /\ Goto(c, new)
      /\ stats' = [stats EXCEPT !.hits = IF caller[c].hit THEN @ + 1 ELSE @,
                                !.misses = IF caller[c].hit THEN @ ELSE @ + 1]
  BY DEF Tally
<1>2. caller[c].hit \in BOOLEAN /\ DOMAIN caller[c] = Common \cup {"todo", "hit"}
  BY <1>0, <1>1 DEF CallersOK, Shape, Wants
<1>3. new.pc = "tag" /\ new.hit \in BOOLEAN /\ DOMAIN new = Common \cup {"todo", "hit"}
  BY <1>2 DEF Common
<1> HIDE DEF new
<1>4. CallersOK'
  <2>1. Shape(new)
    BY <1>3 DEF Shape
  <2> QED
    BY <1>0, <1>1, <2>1, GotoShape
<1>5. /\ l \in Int /\ s \in Int /\ m \in Int /\ h \in Int /\ f \in Int /\ t \in Int
      /\ l = m + f /\ s - l = h + t
  BY Terms DEF CacheInv, Accounts
<1>6. l = (m + 1) + (f - 1) /\ s - l = (h + 1) + (t - 1)
  <2> HIDE DEF l, s, m, h, f, t
  <2> QED
    BY <1>5, Balance
<1>7. IsFiniteSet(Tallying(TRUE)) /\ IsFiniteSet(Tallying(FALSE))
  BY TallyingFinite
<1>8. CASE caller[c].hit = TRUE
  <2>1. stats' = [stats EXCEPT !.hits = @ + 1]
    BY <1>0, <1>1, <1>8 DEF Stats
  <2>2. stats' \in Stats /\ stats'.hits = h + 1 /\ stats'.misses = m
    BY <1>0, <2>1 DEF Stats
  <2>3. TRUE \in BOOLEAN /\ c \in Tallying(TRUE) /\ Tallying(TRUE)' = Tallying(TRUE) \ {c}
        /\ Tallying(FALSE)' = Tallying(FALSE)
    BY <1>0, <1>1, <1>3, <1>8, TallyingLess, (~TRUE) = FALSE
  <2>4. Cardinality(Tallying(TRUE)') = t - 1 /\ Cardinality(Tallying(FALSE)') = f
    BY <1>7, <2>3, FS_RemoveElement
  <2>5. CacheType'
    BY <1>0, <1>1, <2>2 DEF CacheType
  <2>6. Cardinality(DOMAIN cache) <= Max({maxCacheSize, 1})
    BY DEF CacheInv, Accounts
  <2>7. Accounts'
    BY <1>1, <1>5, <1>6, <2>2, <2>4, <2>6, Zenon DEF Accounts
  <2> QED
    BY <1>4, <2>5, <2>7 DEF CacheInv
<1>9. CASE caller[c].hit # TRUE
  <2>1. caller[c].hit = FALSE
    BY <1>2, <1>9
  <2>2. stats' = [stats EXCEPT !.misses = @ + 1]
    BY <1>0, <1>1, <2>1 DEF Stats
  <2>3. stats' \in Stats /\ stats'.hits = h /\ stats'.misses = m + 1
    BY <1>0, <2>2 DEF Stats
  <2>4. FALSE \in BOOLEAN /\ c \in Tallying(FALSE) /\ Tallying(FALSE)' = Tallying(FALSE) \ {c}
        /\ Tallying(TRUE)' = Tallying(TRUE)
    BY <1>0, <1>1, <1>3, <2>1, TallyingLess, (~FALSE) = TRUE
  <2>5. Cardinality(Tallying(FALSE)') = f - 1 /\ Cardinality(Tallying(TRUE)') = t
    BY <1>7, <2>4, FS_RemoveElement
  <2>6. CacheType'
    BY <1>0, <1>1, <2>3 DEF CacheType
  <2>7. Cardinality(DOMAIN cache) <= Max({maxCacheSize, 1})
    BY DEF CacheInv, Accounts
  <2>8. Accounts'
    BY <1>1, <1>5, <1>6, <2>3, <2>5, <2>7, Zenon DEF Accounts
  <2> QED
    BY <1>4, <2>6, <2>8 DEF CacheInv
<1> QED
  BY <1>8, <1>9

\* What CompressSpan counts leaves the hits and misses as they are.
LEMMA StatsStep ==
    ASSUME NEW r \in Stats, NEW x \in Nat, NEW y \in Nat
    PROVE  /\ [r EXCEPT !.total = x, !.compressed = y] \in Stats
           /\ [r EXCEPT !.total = x, !.compressed = y].hits = r.hits
           /\ [r EXCEPT !.total = x, !.compressed = y].misses = r.misses
<1> DEFINE q == [r EXCEPT !.total = x]
<1>1. q \in Stats /\ q.hits = r.hits /\ q.misses = r.misses
  BY DEF Stats
<1>2. [r EXCEPT !.total = x, !.compressed = y] = [q EXCEPT !.compressed = y]
  OBVIOUS
<1> HIDE DEF q
<1>3. [q EXCEPT !.compressed = y] \in Stats /\ [q EXCEPT !.compressed = y].hits = q.hits
      /\ [q EXCEPT !.compressed = y].misses = q.misses
  BY <1>1 DEF Stats
<1> QED
  BY <1>1, <1>2, <1>3

\* All other steps leave them alone.
LEMMA ElsewhereKeeps ==
    ASSUME CacheInv, NEW c \in Callers, Elsewhere(c)
    PROVE  CacheInv'
<1>0. CallersOK /\ CacheType /\ stats \in Stats
  BY DEF CacheInv, CacheType
<1>1. /\ UNCHANGED <<counts, cache>> /\ caller[c].pc # "tally"
      /\ stats' = stats \/ (stats' = [stats EXCEPT !.total = @ + 1, !.compressed = @ + 1])
                        \/ (stats' = [stats EXCEPT !.total = @ + 1, !.compressed = @])
  BY <1>0, ElsewhereMoves
<1>2. PICK new : Goto(c, new) /\ Shape(new) /\ new.pc # "tally"
  BY <1>0, ElsewhereMoves
<1>3. CallersOK'
  BY <1>0, <1>2, GotoShape
<1>4. stats' \in Stats /\ stats'.hits = stats.hits /\ stats'.misses = stats.misses
  <2>1. CASE stats' = stats
    BY <1>0, <2>1 DEF Stats
  <2>2. stats.total + 1 \in Nat /\ stats.compressed \in Nat /\ stats.compressed + 1 \in Nat
    BY <1>0 DEF Stats
  <2>3. ASSUME NEW y \in Nat, stats' = [stats EXCEPT !.total = stats.total + 1, !.compressed = y]
        PROVE  stats' \in Stats /\ stats'.hits = stats.hits /\ stats'.misses = stats.misses
    BY <1>0, <2>2, <2>3, StatsStep
  <2> QED
    BY <1>1, <2>1, <2>2, <2>3
<1>5. CacheType'
  BY <1>0, <1>1, <1>4 DEF CacheType
<1>6. Tallying(TRUE)' = Tallying(TRUE) /\ Tallying(FALSE)' = Tallying(FALSE)
  BY <1>0, <1>1, <1>2, TallyingKept
<1>7. Accounts'
  BY <1>1, <1>4, <1>6 DEF CacheInv, Accounts
<1> QED
  BY <1>3, <1>5, <1>7 DEF CacheInv

\* The accounts start empty (NewCompressor).
LEMMA CacheInit == Init => CacheInv
<1> SUFFICES ASSUME Init PROVE CacheInv
  OBVIOUS
<1>1. /\ caller = [c \in Callers |-> Idle] /\ counts = <<>> /\ cache = [h \in {} |-> 0]
      /\ stats = [total |-> 0, compressed |-> 0, hits |-> 0, misses |-> 0]
  BY DEF Init
<1>2. CallersOK
  BY <1>1 DEF CallersOK, Shape, Idle
<1>3. DOMAIN cache = {} /\ IsFiniteSet({}) /\ Cardinality({}) = 0
  BY <1>1, FS_EmptySet
<1>4. counts \in Seq(Nat) /\ Len(counts) = 0 /\ stats \in Stats /\ stats.hits = 0 /\ stats.misses = 0
  BY <1>1 DEF Stats
<1>5. CacheType
  BY <1>3, <1>4 DEF CacheType
<1>6. \A hit : Tallying(hit) = {}
  BY <1>1 DEF Tallying, Idle
<1>7. CountsSum(counts) = 0
  <2>1. counts \in Seq(Int)
    BY <1>1
  <2>2. CountsSum(counts) = SumOf(counts, 0)
    BY <1>4, <2>1, FoldCounts DEF CountsSum
  <2> QED
    BY <2>2, SumNone
<1>8. Max({maxCacheSize, 1}) >= 0 /\ Max({maxCacheSize, 1}) \in Nat
  BY Room, CacheAssumption
<1>9. Accounts
  <2>1. 0 = 0 + 0 /\ 0 - 0 = 0 + 0
    OBVIOUS
  <2> QED
    BY <2>1, <1>3, <1>4, <1>6, <1>7, <1>8, Zenon DEF Accounts
<1> QED
  BY <1>2, <1>5, <1>9 DEF CacheInv

\* The cache never outgrows maxCacheSize, and hits and misses are what the Counts add up
\* to, whatever callers share it (ComputeSubtreeSignature, evictOldCache).
THEOREM CacheKeepsAccounts == Spec => []CacheAccounts
<1>1. CacheInv /\ [Next]_vars => CacheInv'
  <2> SUFFICES ASSUME CacheInv, [Next]_vars PROVE CacheInv'
    OBVIOUS
  <2>1. CASE UNCHANGED vars
    BY <2>1 DEF vars, CacheInv, CallersOK, CacheType, Accounts, Tallying
  <2>2. ASSUME NEW c \in Callers, Elsewhere(c) \/ Signature(c) \/ Tally(c)
        PROVE  CacheInv'
    BY <2>2, ElsewhereKeeps, SignatureKeeps, TallyKeeps
  <2>3. Next => \E c \in Callers : Elsewhere(c) \/ Signature(c) \/ Tally(c)
    BY DEF Next, Elsewhere
  <2> QED
    BY <2>1, <2>2, <2>3
<1>2. CacheInv => CacheAccounts
  BY AccountsIs DEF CacheInv
<1> QED
  BY CacheInit, <1>1, <1>2, PTL DEF Spec

-----------------------------------------------------------------------------
(* Sequences that list the elements of a set, each once.                   *)

Lists(o, S) == o \in Seq(S) /\ ToSet(o) = S /\ IsInjective(o)

\* The sequences of a finite set list it.
LEMMA SeqsList ==
    ASSUME NEW S, IsFiniteSet(S), NEW o \in SetToSeqs(S)
    PROVE  Lists(o, S) /\ Len(o) = Cardinality(S)
<1> DEFINE c == Cardinality(S)
<1>1. c \in Nat
  BY FS_CardinalityType
<1>2. o \in [1..c -> S] /\ \A i, j \in 1..c : i # j => o[i] # o[j]
  BY Zenon DEF SetToSeqs
<1>3. IsFiniteSet(1..c) /\ Cardinality(1..c) = c
  BY <1>1, FS_Interval
<1> HIDE DEF c
<1>4. IsInjective(o) /\ o \in Seq(S) /\ Len(o) = c /\ DOMAIN o = 1..c
  BY <1>1, <1>2 DEF IsInjective
<1>5. o \in Injection(1..c, S)
  BY <1>2, <1>4 DEF Injection
<1>6. o \in Surjection(1..c, S)
  BY <1>3, <1>5, FS_Injection DEF c
<1>7. ToSet(o) = S
  BY <1>2, <1>4, <1>6 DEF Surjection, ToSet
<1> QED
  BY <1>4, <1>7 DEF Lists, c

\* A sequence that lists it is one of them.
LEMMA ListsSeqs ==
    ASSUME NEW S, NEW o, Lists(o, S)
    PROVE  IsFiniteSet(S) /\ o \in SetToSeqs(S) /\ Len(o) = Cardinality(S)
<1>1. /\ Len(o) \in Nat /\ DOMAIN o = 1..Len(o) /\ o \in [1..Len(o) -> S]
  BY DEF Lists
<1>2. o \in Bijection(1..Len(o), S)
  <2>1. o \in Injection(1..Len(o), S)
    BY <1>1 DEF Lists, Injection
  <2>2. \A t \in S : \E s \in 1..Len(o) : o[s] = t
    BY <1>1 DEF Lists, ToSet
  <2>3. o \in Surjection(1..Len(o), S)
    BY <1>1, <2>2 DEF Surjection
  <2> QED
    BY <2>1, <2>3 DEF Bijection
<1>3. ExistsBijection(1..Len(o), S)
  BY <1>2 DEF ExistsBijection
<1>4. IsFiniteSet(S) /\ Cardinality(S) = Len(o)
  BY <1>1, <1>3, FS_NatBijection, FS_CountingElements
<1>5. \A i, j \in 1..Len(o) : i # j => o[i] # o[j]
  BY <1>1 DEF Lists, IsInjective
<1> QED
  BY <1>1, <1>4, <1>5, Zenon DEF SetToSeqs

\* Numbers can be listed in order.
LEMMA InOrderExists ==
    \A n \in Nat : \A T \in SUBSET (1..n) :
        \E o : Lists(o, T) /\ \A k, l \in DOMAIN o : k < l => o[k] < o[l]
<1> DEFINE P == {n \in Nat : \A T \in SUBSET (1..n) :
                    \E o : Lists(o, T) /\ \A k, l \in DOMAIN o : k < l => o[k] < o[l]}
<1>1. 0 \in P
  <2>1. \A T \in SUBSET (1..0) : T = {}
    OBVIOUS
  <2>2. Lists(<<>>, {}) /\ \A k, l \in DOMAIN <<>> : k < l => <<>>[k] < <<>>[l]
    BY DEF Lists, ToSet, IsInjective
  <2> QED
    BY <2>1, <2>2
<1>2. ASSUME NEW n \in Nat, n \in P
      PROVE  n + 1 \in P
  <2>1. ASSUME NEW T \in SUBSET (1..(n + 1))
        PROVE  \E o : Lists(o, T) /\ \A k, l \in DOMAIN o : k < l => o[k] < o[l]
    <3>1. CASE n + 1 \notin T
      <4>1. T \in SUBSET (1..n)
        BY <3>1
      <4> QED
        BY <1>2, <4>1
    <3>2. CASE n + 1 \in T
      <4> DEFINE U == T \ {n + 1}
      <4>1. U \in SUBSET (1..n) /\ T = U \cup {n + 1}
        BY <3>2
      <4>2. PICK q : Lists(q, U) /\ \A k, l \in DOMAIN q : k < l => q[k] < q[l]
        BY <1>2, <4>1
      <4> DEFINE o == Append(q, n + 1)
      <4> HIDE DEF U
      <4>3. q \in Seq(T) /\ q \in Seq(U) /\ Len(q) \in Nat
        BY <4>1, <4>2 DEF Lists
      <4>4. /\ o \in Seq(T) /\ Len(o) = Len(q) + 1 /\ DOMAIN o = 1..(Len(q) + 1)
            /\ o[Len(q) + 1] = n + 1 /\ \A k \in 1..Len(q) : o[k] = q[k] /\ q[k] \in U
        BY <3>2, <4>3
      <4> HIDE DEF o
      <4>5. \A k \in 1..(Len(q) + 1) : k = Len(q) + 1 \/ k \in 1..Len(q)
        BY <4>3
      <4>6. \A x \in U : x < n + 1 /\ x # n + 1
        BY <4>1
      <4>7. ToSet(q) = U /\ IsInjective(q) /\ DOMAIN q = 1..Len(q)
        BY <4>2, <4>3 DEF Lists
      <4>8. ToSet(o) = T
        BY <4>1, <4>3, <4>4, <4>5, <4>7 DEF ToSet
      <4>9. IsInjective(o)
        BY <4>4, <4>5, <4>6, <4>7 DEF IsInjective
      <4>10. \A k, l \in DOMAIN o : k < l => o[k] < o[l]
        <5> SUFFICES ASSUME NEW k \in DOMAIN o, NEW l \in DOMAIN o, k < l
                     PROVE  o[k] < o[l]
          OBVIOUS
        <5>1. k \in 1..Len(q)
          BY <4>3, <4>4
        <5>2. CASE l = Len(q) + 1
          BY <4>4, <4>6, <5>1, <5>2
        <5>3. CASE l \in 1..Len(q)
          BY <4>2, <4>4, <4>7, <5>1, <5>3
        <5> QED
          BY <4>4, <4>5, <5>2, <5>3
      <4> QED
        BY <4>4, <4>8, <4>9, <4>10 DEF Lists
    <3> QED
      BY <3>1, <3>2
  <2> QED
    BY <2>1
<1>3. Nat \subseteq P
  <2> HIDE DEF P
  <2> QED
    BY <1>1, <1>2, NatInd
<1> QED
  BY <1>3

\* So InOrder lists them.
LEMMA InOrderLists ==
    ASSUME NEW n \in Nat, NEW S \in SUBSET (1..n)
    PROVE  Lists(InOrder(S), S)
<1>1. PICK o : Lists(o, S) /\ \A k, l \in DOMAIN o : k < l => o[k] < o[l]
  BY InOrderExists
<1>2. o \in SetToSeqs(S) /\ IsFiniteSet(S)
  BY <1>1, ListsSeqs
<1>3. InOrder(S) \in SetToSeqs(S)
  BY <1>1, <1>2, Zenon DEF InOrder
<1> QED
  BY <1>2, <1>3, SeqsList

-----------------------------------------------------------------------------
(* The tree that BuildTraceTree makes.                                     *)

IsRows(rows) == rows \in Seq(ToSet(rows))

\* The rows are numbered from one.
LEMMA RowsAre ==
    ASSUME NEW rows, IsRows(rows)
    PROVE  Len(rows) \in Nat /\ DOMAIN rows = 1..Len(rows) /\ NoSpan \notin DOMAIN rows
  BY DEF IsRows, NoSpan

\* The link to the parent is nil or goes to a span with the parent's id.
LEMMA ParentIs ==
    ASSUME NEW rows, IsRows(rows), NEW i \in DOMAIN rows
    PROVE  /\ ParentOf(rows, i) \in DOMAIN rows \cup {NoSpan}
           /\ ParentOf(rows, i) # NoSpan =>
                /\ rows[i].parent # EmptyID /\ rows[ParentOf(rows, i)].id = rows[i].parent
                /\ ParentOf(rows, i) = Max({k \in DOMAIN rows : rows[k].id = rows[i].parent})
           /\ ParentOf(rows, i) = NoSpan =>
                \/ rows[i].parent = EmptyID
                \/ \A k \in DOMAIN rows : rows[k].id # rows[i].parent
<1> DEFINE p == rows[i].parent
           ids == {rows[k].id : k \in DOMAIN rows}
           K == {k \in DOMAIN rows : rows[k].id = p}
<1>0. Len(rows) \in Nat /\ DOMAIN rows = 1..Len(rows) /\ NoSpan \notin DOMAIN rows
  BY RowsAre
<1>1. DOMAIN SpanMap(rows) = ids
  BY DEF SpanMap
<1>2. CASE p # EmptyID /\ p \in ids
  <2>1. ParentOf(rows, i) = Max(K)
    BY <1>1, <1>2 DEF ParentOf, SpanMap
  <2>2. K \in SUBSET (1..Len(rows)) /\ K # {}
    BY <1>0, <1>2
  <2>3. Max(K) \in K
    <3> HIDE DEF K
    <3> QED
      BY <1>0, <2>2, MaxIn
  <2> QED
    BY <1>0, <1>2, <2>1, <2>3
<1>3. CASE ~(p # EmptyID /\ p \in ids)
  <2>1. ParentOf(rows, i) = NoSpan
    BY <1>1, <1>3 DEF ParentOf
  <2> QED
    BY <1>3, <2>1
<1> QED
  BY <1>2, <1>3

\* The root is nil or a span without a parent.
LEMMA RootIs ==
    ASSUME NEW rows, IsRows(rows)
    PROVE  \/ RootSpan(rows) = NoSpan /\ \A i \in DOMAIN rows : rows[i].parent # EmptyID
           \/ /\ RootSpan(rows) \in DOMAIN rows /\ rows[RootSpan(rows)].parent = EmptyID
              /\ ParentOf(rows, RootSpan(rows)) = NoSpan
<1> DEFINE N == {i \in DOMAIN rows : rows[i].parent = EmptyID}
<1>0. Len(rows) \in Nat /\ DOMAIN rows = 1..Len(rows)
  BY RowsAre
<1>1. CASE N = {}
  BY <1>1 DEF RootSpan
<1>2. CASE N # {}
  <2>1. RootSpan(rows) = Max(N)
    BY <1>2 DEF RootSpan
  <2>2. N \in SUBSET (1..Len(rows))
    BY <1>0
  <2>3. Max(N) \in N
    <3> HIDE DEF N
    <3> QED
      BY <1>0, <1>2, <2>2, MaxIn
  <2>4. ParentOf(rows, RootSpan(rows)) = NoSpan
    BY <2>1, <2>3 DEF ParentOf
  <2> QED
    BY <2>1, <2>3, <2>4
<1> QED
  BY <1>1, <1>2

Kids(rows, i) == {j \in DOMAIN rows : ParentOf(rows, j) = i}

IsTree(tree) ==
    /\ DOMAIN tree = {"rows", "root", "children"}
    /\ IsRows(tree.rows) /\ tree.root = RootSpan(tree.rows)
    /\ DOMAIN tree.children = DOMAIN tree.rows
    /\ \A i \in DOMAIN tree.rows : Lists(tree.children[i], Kids(tree.rows, i))

\* The children of every span are ordered by their start.
InStartOrder(tree) ==
    \A i \in DOMAIN tree.rows :
        LET o == tree.children[i]
        IN  \A k, l \in DOMAIN o : k < l => tree.rows[o[k]].start <= tree.rows[o[l]].start

\* Every span is appended to the children of its parent.
LEMMA BuildIsTree ==
    ASSUME NEW rows, IsRows(rows)
    PROVE  IsTree(BuildTraceTree(rows)) /\ BuildTraceTree(rows).rows = rows
<1> DEFINE tree == BuildTraceTree(rows)
<1>1. /\ DOMAIN tree = {"rows", "root", "children"} /\ tree.rows = rows
      /\ tree.root = RootSpan(rows)
      /\ tree.children = [i \in DOMAIN rows |-> InOrder(Kids(rows, i))]
  BY DEF BuildTraceTree, Kids
<1>2. \A i \in DOMAIN rows : Lists(InOrder(Kids(rows, i)), Kids(rows, i))
  <2> SUFFICES ASSUME NEW i \in DOMAIN rows
               PROVE  Lists(InOrder(Kids(rows, i)), Kids(rows, i))
    OBVIOUS
  <2>1. Kids(rows, i) \in SUBSET (1..Len(rows)) /\ Len(rows) \in Nat
    BY RowsAre DEF Kids
  <2> QED
    BY <2>1, InOrderLists
<1> HIDE DEF tree
<1>3. IsTree(tree)
  BY <1>1, <1>2 DEF IsTree
<1> QED
  BY <1>1, <1>3 DEF tree

\* Sorting leaves it the same tree.
LEMMA SortedIsTree ==
    ASSUME NEW tree, IsTree(tree), NEW t \in Sorted(tree)
    PROVE  /\ IsTree(t) /\ t.rows = tree.rows /\ t.root = tree.root
           /\ InStartOrder(t)
<1> DEFINE rows == tree.rows
           Orders(s) == {o \in SetToSeqs(ToSet(s)) :
                           \A i, j \in DOMAIN o : i < j => rows[o[i]].start <= rows[o[j]].start}
           every == UNION {Orders(tree.children[i]) : i \in DOMAIN rows}
<1>1. PICK f \in [DOMAIN rows -> every] :
        /\ \A i \in DOMAIN rows : f[i] \in Orders(tree.children[i])
        /\ t = [tree EXCEPT !.children = f]
  BY Zenon DEF Sorted
<1>2. /\ DOMAIN t = {"rows", "root", "children"} /\ t.rows = rows /\ t.root = tree.root
      /\ t.children = f /\ DOMAIN f = DOMAIN rows
  BY <1>1 DEF IsTree
<1>3. ASSUME NEW i \in DOMAIN rows
      PROVE  /\ Lists(f[i], Kids(rows, i))
             /\ \A k, l \in DOMAIN f[i] : k < l => rows[f[i][k]].start <= rows[f[i][l]].start
  <2>1. /\ f[i] \in SetToSeqs(ToSet(tree.children[i]))
        /\ \A k, l \in DOMAIN f[i] : k < l => rows[f[i][k]].start <= rows[f[i][l]].start
    BY <1>1
  <2>2. ToSet(tree.children[i]) = Kids(rows, i)
    BY DEF IsTree, Lists
  <2>3. IsFiniteSet(Kids(rows, i))
    <3>1. Lists(tree.children[i], Kids(rows, i))
      BY DEF IsTree
    <3> QED
      BY <3>1, ListsSeqs
  <2>4. Lists(f[i], Kids(rows, i))
    BY <2>1, <2>2, <2>3, SeqsList
  <2> QED
    BY <2>1, <2>4
<1> HIDE DEF rows
<1>4. IsRows(rows) /\ tree.root = RootSpan(rows)
  BY DEF IsTree, rows
<1>5. IsTree(t)
  BY <1>2, <1>3, <1>4 DEF IsTree
<1>6. InStartOrder(t)
  BY <1>2, <1>3 DEF InStartOrder
<1> QED
  BY <1>2, <1>5, <1>6 DEF rows

-----------------------------------------------------------------------------
(* The way up from a span, and the induction along it.                     *)

\* A span is grounded if its parent is, or if it has none.
LEMMA GroundedStep ==
    ASSUME NEW rows, IsRows(rows), NEW i \in DOMAIN rows
    PROVE  i \in Grounded(rows) <=>
             (ParentOf(rows, i) = NoSpan \/ ParentOf(rows, i) \in Grounded(rows))
<1> DEFINE p == ParentOf(rows, i)
<1>0. p \in DOMAIN rows \cup {NoSpan} /\ NoSpan \notin DOMAIN rows
  BY ParentIs, RowsAre
<1>1. ASSUME p = NoSpan PROVE i \in Grounded(rows)
  BY <1>0, <1>1 DEF Grounded
<1>2. ASSUME p \in Grounded(rows) PROVE i \in Grounded(rows)
  BY <1>2 DEF Grounded
<1>3. ASSUME i \in Grounded(rows), p # NoSpan PROVE p \in Grounded(rows)
  <2>1. ASSUME NEW T \in SUBSET DOMAIN rows, p \in T
        PROVE  \E j \in T : ParentOf(rows, j) \notin T
    <3>1. T \cup {i} \in SUBSET DOMAIN rows
      OBVIOUS
    <3>2. PICK j \in T \cup {i} : ParentOf(rows, j) \notin T \cup {i}
      BY <1>3, <3>1 DEF Grounded
    <3> QED
      BY <2>1, <3>2
  <2> QED
    BY <1>0, <1>3, <2>1 DEF Grounded
<1> QED
  BY <1>1, <1>2, <1>3

\* What holds of a span when it holds of its parent, holds of all grounded spans.
LEMMA FromTop ==
    ASSUME NEW rows, IsRows(rows), NEW Q \in SUBSET Grounded(rows),
           \A i \in Grounded(rows) :
               ParentOf(rows, i) = NoSpan \/ ParentOf(rows, i) \in Q => i \in Q
    PROVE  Q = Grounded(rows)
<1> SUFFICES ASSUME NEW i \in Grounded(rows) \ Q PROVE FALSE
  OBVIOUS
<1>1. Grounded(rows) \subseteq DOMAIN rows
  BY DEF Grounded
<1>2. PICK j \in Grounded(rows) \ Q : ParentOf(rows, j) \notin Grounded(rows) \ Q
  BY <1>1, Zenon DEF Grounded
<1>3. ParentOf(rows, j) = NoSpan \/ ParentOf(rows, j) \in Grounded(rows)
  BY <1>1, GroundedStep
<1> QED
  BY <1>2, <1>3

\* The spans above a span, and the span.
Closed(rows, T) == \A k \in T : ParentOf(rows, k) \in T \cup {NoSpan}
Up(rows, i) == {j \in DOMAIN rows : \A T \in SUBSET DOMAIN rows : i \in T /\ Closed(rows, T) => j \in T}

\* They are the span and what is above its parent.
LEMMA UpStep ==
    ASSUME NEW rows, IsRows(rows), NEW i \in DOMAIN rows
    PROVE  /\ i \in Up(rows, i) /\ Closed(rows, Up(rows, i))
           /\ ParentOf(rows, i) = NoSpan => Up(rows, i) = {i}
           /\ ParentOf(rows, i) # NoSpan => Up(rows, i) = {i} \cup Up(rows, ParentOf(rows, i))
<1> DEFINE p == ParentOf(rows, i)
<1>0. p \in DOMAIN rows \cup {NoSpan} /\ NoSpan \notin DOMAIN rows
      /\ \A k \in DOMAIN rows : ParentOf(rows, k) \in DOMAIN rows \cup {NoSpan}
  BY ParentIs, RowsAre
<1>1. i \in Up(rows, i)
  BY DEF Up
<1>2. \A m \in DOMAIN rows : Closed(rows, Up(rows, m))
  <2> SUFFICES ASSUME NEW m \in DOMAIN rows, NEW k \in Up(rows, m), ParentOf(rows, k) # NoSpan
               PROVE  ParentOf(rows, k) \in Up(rows, m)
    BY DEF Closed
  <2>1. k \in DOMAIN rows /\ ParentOf(rows, k) \in DOMAIN rows
    BY <1>0 DEF Up
  <2>2. ASSUME NEW T \in SUBSET DOMAIN rows, m \in T, Closed(rows, T)
        PROVE  ParentOf(rows, k) \in T
    <3>1. k \in T
      BY <2>2 DEF Up
    <3> QED
      BY <2>2, <3>1 DEF Closed
  <2> QED
    BY <2>1, <2>2 DEF Up
<1>3. ASSUME p = NoSpan PROVE Up(rows, i) = {i}
  <2>1. Closed(rows, {i}) /\ {i} \in SUBSET DOMAIN rows
    BY <1>3 DEF Closed
  <2>2. Up(rows, i) \subseteq {i}
    BY <2>1 DEF Up
  <2> QED
    BY <1>1, <2>2
<1>4. ASSUME p # NoSpan PROVE Up(rows, i) = {i} \cup Up(rows, p)
  <2>0. p \in DOMAIN rows
    BY <1>0, <1>4
  <2> DEFINE U == {i} \cup Up(rows, p)
  <2>1. p \in Up(rows, p) /\ Closed(rows, Up(rows, p)) /\ Up(rows, p) \in SUBSET DOMAIN rows
    BY <1>2, <2>0 DEF Up
  <2>2. Closed(rows, U) /\ U \in SUBSET DOMAIN rows /\ i \in U
    BY <2>1 DEF Closed
  <2>3. Up(rows, i) \subseteq U
    <3> HIDE DEF U
    <3> QED
      BY <2>2 DEF Up
  <2>4. p \in Up(rows, i)
    BY <1>1, <1>2, <1>4 DEF Closed
  <2>5. Up(rows, i) \in SUBSET DOMAIN rows
    BY DEF Up
  <2>6. Up(rows, p) \subseteq Up(rows, i)
    <3> SUFFICES ASSUME NEW j \in Up(rows, p) PROVE j \in Up(rows, i)
      OBVIOUS
    <3> QED
      BY <1>2, <2>4, <2>5 DEF Up
  <2> QED
    BY <1>1, <2>3, <2>6
<1> QED
  BY <1>1, <1>2, <1>3, <1>4

\* A grounded span is not above its parent.
LEMMA NotAbove ==
    ASSUME NEW rows, IsRows(rows), NEW i \in Grounded(rows), ParentOf(rows, i) # NoSpan
    PROVE  i \notin Up(rows, ParentOf(rows, i))
<1> DEFINE C == {k \in Up(rows, i) : i \in Up(rows, k)}
           p == ParentOf(rows, i)
<1>0. i \in DOMAIN rows /\ C \in SUBSET DOMAIN rows /\ p \in DOMAIN rows
  BY ParentIs DEF Up, Grounded
<1>1. SUFFICES ASSUME i \in Up(rows, p) PROVE FALSE
  OBVIOUS
<1>2. i \in C
  BY <1>0, UpStep
<1>3. PICK k \in C : ParentOf(rows, k) \notin C
  <2> HIDE DEF C
  <2> QED
    BY <1>0, <1>2 DEF Grounded
<1>4. k # i
  <2>1. p \in Up(rows, i)
    BY <1>0, UpStep DEF Closed
  <2> QED
    BY <1>1, <1>3, <2>1
<1>5. k \in DOMAIN rows /\ k \in Up(rows, i) /\ i \in Up(rows, k)
  BY <1>0, <1>3
<1>6. ParentOf(rows, k) # NoSpan /\ i \in Up(rows, ParentOf(rows, k))
  BY <1>4, <1>5, UpStep
<1>7. ParentOf(rows, k) \in Up(rows, i)
  BY <1>0, <1>5, <1>6, UpStep DEF Closed
<1> QED
  BY <1>3, <1>6, <1>7

\* The spans that are not above a span: fewer for its children.
Rank(rows, i) == Len(rows) - Cardinality(Up(rows, i))

\* It is a number below the number of the rows.
LEMMA RankIs ==
    ASSUME NEW rows, IsRows(rows), NEW i \in DOMAIN rows
    PROVE  /\ Rank(rows, i) \in Nat /\ Rank(rows, i) < Len(rows)
           /\ i \in Grounded(rows) => \A j \in Kids(rows, i) :
                  j \in Grounded(rows) /\ Rank(rows, j) < Rank(rows, i)
<1>0. Len(rows) \in Nat /\ DOMAIN rows = 1..Len(rows) /\ NoSpan \notin DOMAIN rows
  BY RowsAre
<1>1. IsFiniteSet(DOMAIN rows) /\ Cardinality(DOMAIN rows) = Len(rows)
  <2>1. IsFiniteSet(1..Len(rows))
        /\ Cardinality(1..Len(rows)) = IF 1 > Len(rows) THEN 0 ELSE Len(rows) - 1 + 1
    <3>1. 1 \in Int /\ Len(rows) \in Int
      BY <1>0
    <3> HIDE <1>0
    <3> QED
      BY <3>1, FS_Interval
  <2>2. (IF 1 > Len(rows) THEN 0 ELSE Len(rows) - 1 + 1) = Len(rows)
    BY <1>0
  <2> QED
    BY <1>0, <2>1, <2>2
<1>2. ASSUME NEW k \in DOMAIN rows
      PROVE  /\ IsFiniteSet(Up(rows, k)) /\ Cardinality(Up(rows, k)) \in 1..Len(rows)
  <2>1. Up(rows, k) \in SUBSET DOMAIN rows /\ k \in Up(rows, k)
    BY UpStep DEF Up
  <2>2. IsFiniteSet(Up(rows, k)) /\ Cardinality(Up(rows, k)) <= Len(rows)
    BY <1>1, <2>1, FS_Subset
  <2>3. Cardinality(Up(rows, k)) \in Nat /\ Cardinality(Up(rows, k)) # 0
    BY <2>1, <2>2, FS_CardinalityType, FS_EmptySet
  <2> QED
    BY <1>0, <2>2, <2>3
<1>3. Rank(rows, i) \in Nat /\ Rank(rows, i) < Len(rows)
  <2> DEFINE u == Cardinality(Up(rows, i))
  <2>1. u \in 1..Len(rows)
    BY <1>2
  <2> HIDE DEF u
  <2> QED
    BY <1>0, <2>1 DEF Rank, u
<1>4. ASSUME i \in Grounded(rows), NEW j \in Kids(rows, i)
      PROVE  j \in Grounded(rows) /\ Rank(rows, j) < Rank(rows, i)
  <2>1. j \in DOMAIN rows /\ ParentOf(rows, j) = i /\ i # NoSpan
    BY <1>0 DEF Kids
  <2>2. j \in Grounded(rows)
    BY <1>4, <2>1, GroundedStep
  <2>3. Up(rows, j) = {j} \cup Up(rows, i) /\ j \notin Up(rows, i)
    BY <2>1, <2>2, UpStep, NotAbove
  <2>4. Cardinality(Up(rows, j)) = Cardinality(Up(rows, i)) + 1
    <3>1. Up(rows, j) = Up(rows, i) \cup {j}
      BY <2>3
    <3> QED
      BY <1>2, <2>3, <3>1, FS_AddElement
  <2> DEFINE u == Cardinality(Up(rows, i))  v == Cardinality(Up(rows, j))
  <2>5. u \in 1..Len(rows) /\ v = u + 1
    BY <1>2, <2>4
  <2> HIDE DEF u, v
  <2>6. Len(rows) - v < Len(rows) - u
    BY <1>0, <2>5
  <2> QED
    BY <2>2, <2>6 DEF Rank, u, v
<1> QED
  BY <1>3, <1>4

\* What holds of a span when it holds of its children, holds of all grounded spans.
LEMMA FromBelow ==
    ASSUME NEW rows, IsRows(rows), NEW Q \in SUBSET Grounded(rows),
           \A i \in Grounded(rows) : Kids(rows, i) \subseteq Q => i \in Q
    PROVE  Q = Grounded(rows)
<1> SUFFICES ASSUME Grounded(rows) \ Q # {} PROVE FALSE
  OBVIOUS
<1> DEFINE R == {Rank(rows, i) : i \in Grounded(rows) \ Q}
<1>1. Grounded(rows) \subseteq DOMAIN rows
  BY DEF Grounded
<1>2. R \subseteq Nat /\ R # {}
  BY <1>1, RankIs
<1>3. PICK r \in R : \A q \in R : r <= q
  <2> HIDE DEF R
  <2> QED
    BY <1>2, Least
<1>4. PICK i \in Grounded(rows) \ Q : r = Rank(rows, i)
  OBVIOUS
<1>5. \A j \in Kids(rows, i) : j \in Grounded(rows) /\ Rank(rows, j) < r
  BY <1>1, <1>4, RankIs
<1>6. \A j \in Kids(rows, i) : j \in Q
  <2> SUFFICES ASSUME NEW j \in Kids(rows, i), j \notin Q PROVE FALSE
    OBVIOUS
  <2>1. Rank(rows, j) \in R /\ Rank(rows, j) \in Nat /\ r \in Nat
    BY <1>1, <1>2, <1>5
  <2> QED
    BY <1>3, <1>5, <2>1
<1> QED
  BY <1>4, <1>6

-----------------------------------------------------------------------------
(* Sequences put together.                                                 *)

\* A sequence of one.
LEMMA OneIs ==
    ASSUME NEW S, NEW x \in S
    PROVE  <<x>> \in Seq(S) /\ Len(<<x>>) = 1 /\ ToSet(<<x>>) = {x} /\ IsInjective(<<x>>)
<1> DEFINE s == <<x>>
<1>1. s \in Seq(S) /\ Len(s) = 1 /\ DOMAIN s = {1} /\ s[1] = x
  OBVIOUS
<1> HIDE DEF s
<1>2. ToSet(s) = {x}
  BY <1>1 DEF ToSet
<1>3. IsInjective(s)
  BY <1>1 DEF IsInjective
<1> QED
  BY <1>1, <1>2, <1>3 DEF s

\* The elements of two sequences, one after the other.
LEMMA ConcatIs ==
    ASSUME NEW S, NEW a \in Seq(S), NEW b \in Seq(S)
    PROVE  /\ a \o b \in Seq(S) /\ Len(a \o b) = Len(a) + Len(b)
           /\ \A k \in 1..Len(a) : (a \o b)[k] = a[k]
           /\ \A k \in 1..Len(b) : (a \o b)[Len(a) + k] = b[k]
           /\ \A k \in 1..Len(a \o b) : k \in 1..Len(a) \/ \E l \in 1..Len(b) : k = Len(a) + l
<1>1. Len(a) \in Nat /\ Len(b) \in Nat
  OBVIOUS
<1>2. a \o b \in Seq(S) /\ Len(a \o b) = Len(a) + Len(b)
  OBVIOUS
<1>3. \A k \in 1..Len(a) : (a \o b)[k] = a[k]
  OBVIOUS
<1>4. \A k \in 1..Len(b) : (a \o b)[Len(a) + k] = b[k]
  BY <1>1
<1>5. ASSUME NEW k \in 1..Len(a \o b)
      PROVE  k \in 1..Len(a) \/ \E l \in 1..Len(b) : k = Len(a) + l
  <2> DEFINE m == Len(a)  n == Len(b)
  <2>1. m \in Nat /\ n \in Nat /\ k \in 1..(m + n)
    BY <1>1, <1>2
  <2> HIDE DEF m, n
  <2>2. ASSUME k \notin 1..m PROVE \E l \in 1..n : k = m + l
    <3>1. k - m \in 1..n /\ k = m + (k - m)
      BY <2>1, <2>2
    <3> QED
      BY <3>1
  <2> QED
    BY <2>2 DEF m, n
<1> QED
  BY <1>2, <1>3, <1>4, <1>5

\* Their set, and that no element comes twice.
LEMMA ConcatLists ==
    ASSUME NEW S, NEW a \in Seq(S), NEW b \in Seq(S)
    PROVE  /\ ToSet(a \o b) = ToSet(a) \cup ToSet(b)
           /\ IsInjective(a) /\ IsInjective(b) /\ ToSet(a) \cap ToSet(b) = {} => IsInjective(a \o b)
<1> DEFINE c == a \o b
<1>1. /\ c \in Seq(S) /\ Len(c) = Len(a) + Len(b)
      /\ \A k \in 1..Len(a) : c[k] = a[k]
      /\ \A k \in 1..Len(b) : c[Len(a) + k] = b[k]
      /\ \A k \in 1..Len(c) : k \in 1..Len(a) \/ \E l \in 1..Len(b) : k = Len(a) + l
  BY ConcatIs
<1>2. /\ DOMAIN a = 1..Len(a) /\ DOMAIN b = 1..Len(b) /\ DOMAIN c = 1..Len(c)
      /\ Len(a) \in Nat /\ Len(b) \in Nat
  BY <1>1
<1> HIDE DEF c
<1>3. \A k \in 1..Len(a) : k \in 1..Len(c)
  BY <1>1, <1>2
<1>4. \A k \in 1..Len(b) : Len(a) + k \in 1..Len(c)
  BY <1>1, <1>2
<1>5. ToSet(c) = ToSet(a) \cup ToSet(b)
  <2>1. ToSet(c) \subseteq ToSet(a) \cup ToSet(b)
    <3> SUFFICES ASSUME NEW k \in 1..Len(c) PROVE c[k] \in ToSet(a) \cup ToSet(b)
      BY <1>2 DEF ToSet
    <3> QED
      BY <1>1, <1>2 DEF ToSet
  <2>2. ToSet(a) \subseteq ToSet(c)
    BY <1>1, <1>2, <1>3 DEF ToSet
  <2>3. ToSet(b) \subseteq ToSet(c)
    <3> SUFFICES ASSUME NEW k \in 1..Len(b) PROVE b[k] \in ToSet(c)
      BY <1>2 DEF ToSet
    <3> QED
      BY <1>1, <1>2, <1>4 DEF ToSet
  <2> QED
    BY <2>1, <2>2, <2>3
<1>6. ASSUME IsInjective(a), IsInjective(b), ToSet(a) \cap ToSet(b) = {},
             NEW k \in 1..Len(c), NEW l \in 1..Len(c), c[k] = c[l]
      PROVE  k = l
  <2>1. \A x \in 1..Len(a), y \in 1..Len(b) : a[x] # b[y]
    BY <1>2, <1>6 DEF ToSet
  <2>2. CASE k \in 1..Len(a) /\ l \in 1..Len(a)
    BY <1>1, <1>2, <1>6, <2>2 DEF IsInjective
  <2>3. CASE k \in 1..Len(a) /\ \E y \in 1..Len(b) : l = Len(a) + y
    BY <1>1, <1>6, <2>1, <2>3
  <2>4. CASE l \in 1..Len(a) /\ \E x \in 1..Len(b) : k = Len(a) + x
    BY <1>1, <1>6, <2>1, <2>4
  <2>5. CASE /\ \E x \in 1..Len(b) : k = Len(a) + x
             /\ \E y \in 1..Len(b) : l = Len(a) + y
    <3>1. PICK x \in 1..Len(b), y \in 1..Len(b) : k = Len(a) + x /\ l = Len(a) + y
      BY <2>5
    <3>2. b[x] = b[y]
      BY <1>1, <1>6, <3>1
    <3>3. x = y
      BY <1>2, <1>6, <3>2 DEF IsInjective
    <3> QED
      BY <3>1, <3>3
  <2> QED
    BY <1>1, <2>2, <2>3, <2>4, <2>5
<1> QED
  BY <1>2, <1>5, <1>6 DEF c, IsInjective

\* FlattenSeq's recursion.
Flattens(ss, n, f) == f = [i \in 1..n |-> IF i = 1 THEN ss[i] ELSE f[i - 1] \o ss[i]]

\* It has a solution.
LEMMA FlattensExists ==
    ASSUME NEW ss
    PROVE  \A n \in Nat : \E f : Flattens(ss, n, f)
<1> DEFINE P == {n \in Nat : \E f : Flattens(ss, n, f)}
<1>1. 0 \in P
  <2>1. Flattens(ss, 0, [i \in 1..0 |-> 0])
    BY DEF Flattens
  <2> QED
    BY <2>1
<1>2. ASSUME NEW n \in Nat, n \in P
      PROVE  n + 1 \in P
  <2>1. PICK f : Flattens(ss, n, f)
    BY <1>2
  <2> DEFINE g == [i \in 1..(n + 1) |->
                     IF i <= n THEN f[i] ELSE IF i = 1 THEN ss[i] ELSE f[i - 1] \o ss[i]]
  <2>2. ASSUME NEW i \in 1..(n + 1)
        PROVE  g[i] = IF i = 1 THEN ss[i] ELSE g[i - 1] \o ss[i]
    <3>1. i # 1 => i - 1 \in 1..(n + 1) /\ i - 1 <= n
      OBVIOUS
    <3>2. i # 1 => g[i - 1] = f[i - 1]
      BY <3>1
    <3>3. CASE i <= n
      <4>1. i \in 1..n
        BY <3>3
      <4>2. f[i] = IF i = 1 THEN ss[i] ELSE f[i - 1] \o ss[i]
        BY <2>1, <4>1 DEF Flattens
      <4> QED
        BY <3>2, <3>3, <4>2
    <3>4. CASE ~(i <= n)
      BY <3>2, <3>4
    <3> QED
      BY <3>3, <3>4
  <2>3. Flattens(ss, n + 1, g)
    <3>1. g = [i \in 1..(n + 1) |-> g[i]]
      OBVIOUS
    <3> HIDE DEF g
    <3> QED
      BY <2>2, <3>1 DEF Flattens
  <2> QED
    BY <2>3
<1> QED
  <2> HIDE DEF P
  <2>1. Nat \subseteq P
    BY <1>1, <1>2, NatInd
  <2> QED
    BY <2>1 DEF P

\* FlattenSeq step by step.
LEMMA FlattenIs ==
    ASSUME NEW S, NEW ss \in Seq(Seq(S)), Len(ss) # 0
    PROVE  \E f : /\ FlattenSeq(ss) = f[Len(ss)] /\ f[1] = ss[1]
                  /\ \A i \in 1..Len(ss) : i # 1 => f[i] = f[i - 1] \o ss[i]
<1> DEFINE n == Len(ss)
<1>1. n \in Nat /\ n \in 1..n /\ 1 \in 1..n
  OBVIOUS
<1> DEFINE f == CHOOSE it : it = [i \in 1..n |-> IF i = 1 THEN ss[i] ELSE it[i - 1] \o ss[i]]
<1>2. FlattenSeq(ss) = f[n]
  BY Zenon DEF FlattenSeq
<1>3. f = [i \in 1..n |-> IF i = 1 THEN ss[i] ELSE f[i - 1] \o ss[i]]
  <2>1. \E it : it = [i \in 1..n |-> IF i = 1 THEN ss[i] ELSE it[i - 1] \o ss[i]]
    <3>1. PICK g : Flattens(ss, n, g)
      BY <1>1, FlattensExists
    <3> HIDE DEF f, n
    <3> QED
      BY <3>1, Zenon DEF Flattens
  <2> QED
    BY <2>1, Zenon
<1> HIDE DEF f
<1>4. f[1] = ss[1]
  BY <1>1, <1>3
<1>5. \A i \in 1..n : i # 1 => f[i] = f[i - 1] \o ss[i]
  BY <1>1, <1>3
<1> QED
  BY <1>2, <1>4, <1>5

\* The elements of all pieces, and that none comes twice.
LEMMA FlattenLists ==
    ASSUME NEW S, NEW ss \in Seq(Seq(S))
    PROVE  /\ FlattenSeq(ss) \in Seq(S)
           /\ ToSet(FlattenSeq(ss)) = UNION {ToSet(ss[i]) : i \in DOMAIN ss}
           /\ (/\ \A i \in DOMAIN ss : IsInjective(ss[i])
               /\ \A i, j \in DOMAIN ss : i # j => ToSet(ss[i]) \cap ToSet(ss[j]) = {})
              => IsInjective(FlattenSeq(ss))
<1> DEFINE n == Len(ss)
<1>0. n \in Nat /\ DOMAIN ss = 1..n /\ \A i \in 1..n : ss[i] \in Seq(S)
  OBVIOUS
<1>1. CASE n = 0
  <2>1. ss = <<>> /\ FlattenSeq(ss) = ss
    BY <1>1 DEF FlattenSeq
  <2>2. DOMAIN <<>> = {} /\ <<>> \in Seq(S)
    OBVIOUS
  <2> QED
    BY <2>1, <2>2 DEF ToSet, IsInjective
<1>2. CASE n # 0
  <2>1. PICK f : /\ FlattenSeq(ss) = f[n] /\ f[1] = ss[1]
                 /\ \A i \in 1..n : i # 1 => f[i] = f[i - 1] \o ss[i]
    BY <1>2, FlattenIs
  <2> DEFINE Apart == /\ \A i \in DOMAIN ss : IsInjective(ss[i])
                      /\ \A i, j \in DOMAIN ss : i # j => ToSet(ss[i]) \cap ToSet(ss[j]) = {}
             Good(k) == /\ f[k] \in Seq(S) /\ ToSet(f[k]) = UNION {ToSet(ss[i]) : i \in 1..k}
                        /\ Apart => IsInjective(f[k])
             P == {k \in Nat : k + 1 <= n => Good(k + 1)}
  <2> HIDE DEF n
  <2>2. 0 \in P
    <3>1. 1 \in 1..n /\ 1..1 = {1} /\ 0 + 1 = 1
      BY <1>0, <1>2
    <3>2. Good(1)
      BY <1>0, <2>1, <3>1
    <3> QED
      BY <3>1, <3>2
  <2>3. ASSUME NEW k \in Nat, k \in P PROVE k + 1 \in P
    <3> SUFFICES ASSUME k + 1 + 1 <= n PROVE Good(k + 1 + 1)
      OBVIOUS
    <3>0. k + 1 <= n => Good(k + 1)
      BY <2>3
    <3> DEFINE l == k + 1
    <3>1. l \in 1..n /\ l + 1 \in 1..n /\ l + 1 # 1 /\ (l + 1) - 1 = l /\ 1..(l + 1) = 1..l \cup {l + 1}
          /\ l + 1 \notin 1..l /\ \A i \in 1..l : i \in 1..n
      BY <1>0
    <3> HIDE DEF l
    <3>2. Good(l)
      <4>1. k + 1 <= n
        BY <1>0, <3>1 DEF l
      <4>2. Good(k + 1)
        BY <3>0, <4>1
      <4> QED
        BY <4>2 DEF l
    <3>3. f[l + 1] = f[l] \o ss[l + 1] /\ ss[l + 1] \in Seq(S)
      BY <1>0, <2>1, <3>1
    <3>4. /\ f[l + 1] \in Seq(S) /\ ToSet(f[l + 1]) = ToSet(f[l]) \cup ToSet(ss[l + 1])
          /\ (/\ IsInjective(f[l]) /\ IsInjective(ss[l + 1])
              /\ ToSet(f[l]) \cap ToSet(ss[l + 1]) = {}) => IsInjective(f[l + 1])
      BY <3>2, <3>3, ConcatIs, ConcatLists
    <3>5. ToSet(f[l + 1]) = UNION {ToSet(ss[i]) : i \in 1..(l + 1)}
      BY <3>1, <3>2, <3>4
    <3>6. ASSUME Apart PROVE IsInjective(f[l + 1])
      <4>1. IsInjective(f[l]) /\ IsInjective(ss[l + 1])
        BY <1>0, <3>1, <3>2, <3>6
      <4>2. ToSet(f[l]) \cap ToSet(ss[l + 1]) = {}
        <5> SUFFICES ASSUME NEW x, x \in ToSet(f[l]), x \in ToSet(ss[l + 1]) PROVE FALSE
          OBVIOUS
        <5>1. PICK i \in 1..l : x \in ToSet(ss[i])
          BY <3>2
        <5>2. i \in DOMAIN ss /\ l + 1 \in DOMAIN ss /\ i # l + 1
          BY <1>0, <3>1
        <5>3. ToSet(ss[i]) \cap ToSet(ss[l + 1]) = {}
          BY <3>6, <5>2
        <5> QED
          BY <5>1, <5>3
      <4> QED
        BY <3>4, <4>1, <4>2
    <3>7. Good(l + 1)
      BY <3>4, <3>5, <3>6
    <3> QED
      BY <3>7 DEF l
  <2>4. Nat \subseteq P
    <3> HIDE DEF P
    <3> QED
      BY <2>2, <2>3, NatInd
  <2>5. n - 1 \in Nat /\ (n - 1) + 1 = n /\ n <= n
    BY <1>0, <1>2
  <2>6. Good(n)
    <3>1. n - 1 \in P
      BY <2>4, <2>5
    <3> QED
      BY <2>5, <3>1
  <2> QED
    BY <1>0, <2>1, <2>6
<1> QED
  BY <1>1, <1>2

-----------------------------------------------------------------------------
(* The subtree of a span.                                                  *)

\* What is above a grounded span is grounded.
LEMMA UpGrounded ==
    ASSUME NEW rows, IsRows(rows)
    PROVE  \A x \in Grounded(rows) : Up(rows, x) \subseteq Grounded(rows)
<1> DEFINE Q == {x \in Grounded(rows) : Up(rows, x) \subseteq Grounded(rows)}
<1>1. ASSUME NEW x \in Grounded(rows), ParentOf(rows, x) = NoSpan \/ ParentOf(rows, x) \in Q
      PROVE  x \in Q
  <2>1. x \in DOMAIN rows
    BY DEF Grounded
  <2>2. NoSpan \notin Q
    BY RowsAre DEF Grounded
  <2> QED
    BY <1>1, <2>1, <2>2, UpStep
<1> QED
  <2> HIDE DEF Q
  <2>1. Q \in SUBSET Grounded(rows)
    BY DEF Q
  <2>2. Q = Grounded(rows)
    BY <1>1, <2>1, FromTop
  <2> QED
    BY <2>2 DEF Q

\* On the way up from a span is one child of each other span on it.
LEMMA OneKidAbove ==
    ASSUME NEW rows, IsRows(rows), NEW i \in DOMAIN rows
    PROVE  \A x \in Grounded(rows) :
               /\ \A a, b \in Kids(rows, i) : a \in Up(rows, x) /\ b \in Up(rows, x) => a = b
               /\ i \in Up(rows, x) <=> x = i \/ \E a \in Kids(rows, i) : a \in Up(rows, x)
<1> DEFINE Good(x) ==
               /\ \A a, b \in Kids(rows, i) : a \in Up(rows, x) /\ b \in Up(rows, x) => a = b
               /\ i \in Up(rows, x) <=> x = i \/ \E a \in Kids(rows, i) : a \in Up(rows, x)
           Q == {x \in Grounded(rows) : Good(x)}
<1>0. NoSpan \notin DOMAIN rows /\ i # NoSpan
      /\ \A a \in Kids(rows, i) : a \in DOMAIN rows /\ ParentOf(rows, a) = i
  BY RowsAre DEF Kids
<1>1. ASSUME NEW x \in Grounded(rows), ParentOf(rows, x) = NoSpan PROVE x \in Q
  <2>1. x \in DOMAIN rows
    BY DEF Grounded
  <2>2. Up(rows, x) = {x} /\ x \notin Kids(rows, i)
    BY <1>0, <1>1, <2>1, UpStep
  <2> QED
    BY <2>2
<1>2. ASSUME NEW x \in Grounded(rows), ParentOf(rows, x) \in Q PROVE x \in Q
  <2> DEFINE p == ParentOf(rows, x)
  <2>1. x \in DOMAIN rows /\ p \in DOMAIN rows /\ p # NoSpan /\ Good(p) /\ p \in Grounded(rows)
    BY <1>0, <1>2 DEF Grounded
  <2>2. Up(rows, x) = {x} \cup Up(rows, p) /\ x \notin Up(rows, p) /\ p \in Up(rows, p)
    BY <2>1, UpStep, NotAbove
  <2>3. \A a \in Kids(rows, i) : a \in Up(rows, p) => i \in Up(rows, p)
    BY <2>1
  <2>4. ASSUME x \in Kids(rows, i) PROVE p = i /\ \A a \in Kids(rows, i) : a \notin Up(rows, p)
    <3>1. p = i
      BY <1>0, <2>4
    <3>2. ASSUME NEW a \in Kids(rows, i), a \in Up(rows, i) PROVE FALSE
      <4>1. a \in Grounded(rows)
        BY <2>1, <3>1, <3>2, UpGrounded
      <4> QED
        BY <1>0, <3>2, <4>1, NotAbove
    <3> QED
      BY <3>1, <3>2
  <2>5. \A a, b \in Kids(rows, i) : a \in Up(rows, x) /\ b \in Up(rows, x) => a = b
    BY <2>1, <2>2, <2>4
  <2>6. i \in Up(rows, x) <=> x = i \/ \E a \in Kids(rows, i) : a \in Up(rows, x)
    <3>1. p = i => x \in Kids(rows, i)
      BY <2>1 DEF Kids
    <3> QED
      BY <2>1, <2>2, <2>3, <2>4, <3>1
  <2> QED
    BY <2>5, <2>6
<1> QED
  <2>1. Q \in SUBSET Grounded(rows)
    OBVIOUS
  <2>2. Q = Grounded(rows)
    <3> HIDE DEF Q
    <3> QED
      BY <1>1, <1>2, <2>1, FromTop
  <2> QED
    BY <2>2

WalkFrom(tree, f, i) ==
    <<i>> \o FlattenSeq([k \in DOMAIN tree.children[i] |-> f[tree.children[i][k]]])

\* A walk over all subtrees exists, since the children's subtrees are smaller.
LEMMA WalkExists ==
    ASSUME NEW tree, IsTree(tree)
    PROVE  \E f : f = [i \in Grounded(tree.rows) |-> WalkFrom(tree, f, i)]
<1> DEFINE rows == tree.rows
           G == Grounded(rows)
           P == {m \in Nat : \E f : f = [i \in G |-> f[i]] /\ \A i \in G :
                    Rank(rows, i) < m => f[i] = WalkFrom(tree, f, i)}
<1>0. IsRows(rows) /\ G \subseteq DOMAIN rows
  BY DEF IsTree, Grounded
<1>1. ASSUME NEW i \in G, NEW f, NEW g, \A j \in Kids(rows, i) : f[j] = g[j]
      PROVE  WalkFrom(tree, f, i) = WalkFrom(tree, g, i)
  <2> DEFINE o == tree.children[i]
  <2>1. \A k \in DOMAIN o : o[k] \in Kids(rows, i)
    BY <1>0 DEF IsTree, Lists, ToSet
  <2>2. [k \in DOMAIN o |-> f[o[k]]] = [k \in DOMAIN o |-> g[o[k]]]
    BY <1>1, <2>1
  <2> QED
    BY <2>2 DEF WalkFrom
<1>2. \A i \in G : Rank(rows, i) \in Nat /\ Rank(rows, i) < Len(rows)
                   /\ \A j \in Kids(rows, i) : j \in G /\ Rank(rows, j) < Rank(rows, i)
  BY <1>0, RankIs
<1> HIDE DEF G, rows
<1>3. 0 \in P
  <2> DEFINE f == [i \in G |-> 0]
  <2>1. f = [i \in G |-> f[i]] /\ \A i \in G : ~(Rank(rows, i) < 0)
    BY <1>2
  <2> HIDE DEF f
  <2> QED
    BY <2>1
<1>4. ASSUME NEW m \in Nat, m \in P PROVE m + 1 \in P
  <2>1. PICK f : f = [i \in G |-> f[i]] /\ \A i \in G : Rank(rows, i) < m => f[i] = WalkFrom(tree, f, i)
    BY <1>4
  <2> DEFINE g == [i \in G |-> IF Rank(rows, i) = m THEN WalkFrom(tree, f, i) ELSE f[i]]
  <2>2. ASSUME NEW i \in G, Rank(rows, i) < m + 1
        PROVE  g[i] = WalkFrom(tree, g, i)
    <3>1. \A j \in Kids(rows, i) : f[j] = g[j]
      BY <1>2, <2>2
    <3>2. WalkFrom(tree, f, i) = WalkFrom(tree, g, i)
      <4> HIDE DEF g
      <4> QED
        BY <1>1, <3>1
    <3>3. Rank(rows, i) = m \/ Rank(rows, i) < m
      BY <1>2, <2>2
    <3> QED
      BY <1>2, <2>1, <3>2, <3>3
  <2>3. g = [i \in G |-> g[i]]
    OBVIOUS
  <2> HIDE DEF g
  <2> QED
    BY <2>2, <2>3
<1>5. Nat \subseteq P
  <2> HIDE DEF P
  <2> QED
    BY <1>3, <1>4, NatInd
<1>6. Len(rows) \in P
  BY <1>0, <1>5, RowsAre
<1>7. PICK f : f = [i \in G |-> f[i]] /\ \A i \in G : Rank(rows, i) < Len(rows) => f[i] = WalkFrom(tree, f, i)
  BY <1>6
<1>8. \A i \in G : f[i] = WalkFrom(tree, f, i)
  BY <1>2, <1>7
<1>9. f = [i \in G |-> WalkFrom(tree, f, i)]
  BY <1>7, <1>8
<1> QED
  BY <1>9 DEF G, rows

\* Walk is a span, and then the walks of its children.
LEMMA WalkIs ==
    ASSUME NEW tree, IsTree(tree), NEW i \in Grounded(tree.rows)
    PROVE  Walk(tree, i) = <<i>> \o FlattenSeq([k \in DOMAIN tree.children[i] |->
                                                   Walk(tree, tree.children[i][k])])
<1> DEFINE walk == CHOOSE f : f = [n \in Grounded(tree.rows) |->
              <<n>> \o FlattenSeq([k \in DOMAIN tree.children[n] |-> f[tree.children[n][k]]])]
<1>1. \A j : Walk(tree, j) = walk[j]
  BY Zenon DEF Walk
<1>2. \E f : f = [n \in Grounded(tree.rows) |->
              <<n>> \o FlattenSeq([k \in DOMAIN tree.children[n] |-> f[tree.children[n][k]]])]
  BY WalkExists, Zenon DEF WalkFrom
<1>3. walk = [n \in Grounded(tree.rows) |->
              <<n>> \o FlattenSeq([k \in DOMAIN tree.children[n] |-> walk[tree.children[n][k]]])]
  BY <1>2, Zenon
<1> HIDE DEF walk
<1>4. walk[i] = <<i>> \o FlattenSeq([k \in DOMAIN tree.children[i] |-> walk[tree.children[i][k]]])
  BY <1>3
<1> QED
  BY <1>1, <1>4

Below(rows, i) == {x \in Grounded(rows) : i \in Up(rows, x)}

\* It meets the spans below, and every one of them once (collectAllFrames).
LEMMA WalkLists ==
    ASSUME NEW tree, IsTree(tree)
    PROVE  \A i \in Grounded(tree.rows) : Lists(Walk(tree, i), Below(tree.rows, i))
<1> DEFINE rows == tree.rows
           G == Grounded(rows)
           Q == {i \in G : Lists(Walk(tree, i), Below(rows, i))}
<1>0. IsRows(rows) /\ G \subseteq DOMAIN rows
  BY DEF IsTree, Grounded
<1>1. ASSUME NEW i \in G, Kids(rows, i) \subseteq Q PROVE i \in Q
  <2> DEFINE o == tree.children[i]
             ss == [k \in 1..Len(o) |-> Walk(tree, o[k])]
  <2>1. /\ Lists(o, Kids(rows, i)) /\ Len(o) \in Nat /\ DOMAIN o = 1..Len(o)
        /\ \A k \in 1..Len(o) : o[k] \in Kids(rows, i)
    BY <1>0 DEF IsTree, Lists
  <2>2. \A k \in 1..Len(o) : Lists(ss[k], Below(rows, o[k])) /\ ss[k] \in Seq(DOMAIN rows)
    <3> SUFFICES ASSUME NEW k \in 1..Len(o)
                 PROVE  Lists(Walk(tree, o[k]), Below(rows, o[k]))
                        /\ Walk(tree, o[k]) \in Seq(DOMAIN rows)
      OBVIOUS
    <3>1. Lists(Walk(tree, o[k]), Below(rows, o[k]))
      BY <1>1, <2>1
    <3>2. Below(rows, o[k]) \subseteq DOMAIN rows
      BY <1>0 DEF Below
    <3> QED
      BY <3>1, <3>2 DEF Lists
  <2> HIDE DEF o
  <2>3. ss \in Seq(Seq(DOMAIN rows)) /\ DOMAIN ss = 1..Len(o)
    <3>1. DOMAIN ss = 1..Len(o) /\ ss = [k \in 1..Len(o) |-> ss[k]]
      OBVIOUS
    <3> DEFINE D == Seq(DOMAIN rows)  n == Len(o)
    <3>2. n \in Nat /\ ss = [k \in 1..n |-> ss[k]] /\ \A k \in 1..n : ss[k] \in D
      BY <2>1, <2>2, <3>1
    <3> HIDE DEF ss, D, n
    <3>3. ss \in Seq(D)
      BY <3>2
    <3> QED
      BY <3>1, <3>3 DEF D
  <2>4. Walk(tree, i) = <<i>> \o FlattenSeq(ss)
    BY <1>1, <2>1, WalkIs DEF o
  <2> HIDE DEF ss
  <2>5. ToSet(FlattenSeq(ss)) = UNION {Below(rows, o[k]) : k \in 1..Len(o)}
    <3>1. \A k \in 1..Len(o) : ToSet(ss[k]) = Below(rows, o[k])
      BY <2>2 DEF Lists
    <3>2. {ToSet(ss[k]) : k \in DOMAIN ss} = {Below(rows, o[k]) : k \in 1..Len(o)}
      BY <2>3, <3>1
    <3>3. ToSet(FlattenSeq(ss)) = UNION {ToSet(ss[k]) : k \in DOMAIN ss}
      BY <2>3, FlattenLists
    <3> QED
      BY <3>2, <3>3, Zenon
  <2>6. \A x \in G : \A a, b \in Kids(rows, i) : a \in Up(rows, x) /\ b \in Up(rows, x) => a = b
    BY <1>0, <1>1, OneKidAbove
  <2>7. \A x \in G : i \in Up(rows, x) <=> x = i \/ \E a \in Kids(rows, i) : a \in Up(rows, x)
    BY <1>0, <1>1, OneKidAbove
  <2>8. IsInjective(FlattenSeq(ss))
    <3>1. \A k \in DOMAIN ss : IsInjective(ss[k])
      BY <2>2, <2>3 DEF Lists
    <3>2. ASSUME NEW k \in DOMAIN ss, NEW l \in DOMAIN ss, k # l,
                 NEW x, x \in ToSet(ss[k]), x \in ToSet(ss[l])
          PROVE  FALSE
      <4>1. x \in Below(rows, o[k]) /\ x \in Below(rows, o[l])
        BY <2>2, <2>3, <3>2 DEF Lists
      <4>2. o[k] = o[l]
        BY <2>1, <2>3, <2>6, <4>1 DEF Below
      <4> QED
        BY <2>1, <2>3, <3>2, <4>2 DEF Lists, IsInjective
    <3> QED
      BY <2>3, <3>1, <3>2, FlattenLists
  <2>9. i \notin ToSet(FlattenSeq(ss))
    <3> SUFFICES ASSUME NEW k \in 1..Len(o), o[k] \in Up(rows, i) PROVE FALSE
      BY <2>5 DEF Below
    <3>1. o[k] \in DOMAIN rows /\ ParentOf(rows, o[k]) = i /\ i # NoSpan
      BY <1>0, <2>1, RowsAre DEF Kids
    <3>2. o[k] \in G
      BY <1>0, <3>1, GroundedStep
    <3> QED
      BY <1>0, <3>1, <3>2, NotAbove
  <2>10. FlattenSeq(ss) \in Seq(DOMAIN rows) /\ <<i>> \in Seq(DOMAIN rows)
         /\ ToSet(<<i>>) = {i} /\ IsInjective(<<i>>)
    <3>1. FlattenSeq(ss) \in Seq(DOMAIN rows)
      BY <2>3, FlattenLists
    <3>2. <<i>> \in Seq(DOMAIN rows) /\ ToSet(<<i>>) = {i} /\ IsInjective(<<i>>)
      <4>1. i \in DOMAIN rows
        BY <1>0
      <4> QED
        BY <4>1, OneIs
    <3> QED
      BY <3>1, <3>2
  <2>11. IsInjective(Walk(tree, i)) /\ ToSet(Walk(tree, i)) = {i} \cup ToSet(FlattenSeq(ss))
         /\ Walk(tree, i) \in Seq(DOMAIN rows)
    <3> DEFINE a == <<i>>  b == FlattenSeq(ss)
    <3>1. a \in Seq(DOMAIN rows) /\ b \in Seq(DOMAIN rows) /\ IsInjective(a) /\ IsInjective(b)
          /\ ToSet(a) = {i} /\ i \notin ToSet(b) /\ Walk(tree, i) = a \o b
      BY <2>4, <2>8, <2>9, <2>10
    <3> HIDE DEF a, b
    <3>2. /\ ToSet(a \o b) = ToSet(a) \cup ToSet(b)
          /\ IsInjective(a) /\ IsInjective(b) /\ ToSet(a) \cap ToSet(b) = {} => IsInjective(a \o b)
      BY <3>1, ConcatLists
    <3>3. a \o b \in Seq(DOMAIN rows)
      BY <3>1, ConcatIs
    <3> QED
      BY <3>1, <3>2, <3>3 DEF b
  <2>12. Below(rows, i) = {i} \cup UNION {Below(rows, o[k]) : k \in 1..Len(o)}
    <3>1. Kids(rows, i) = {o[k] : k \in 1..Len(o)}
      BY <2>1 DEF Lists, ToSet
    <3>2. i \in Below(rows, i)
      BY <1>0, UpStep DEF Below
    <3>3. \A x \in G : x \in Below(rows, i) <=> x = i \/ \E k \in 1..Len(o) : x \in Below(rows, o[k])
      BY <2>7, <3>1 DEF Below
    <3>4. Below(rows, i) \subseteq G /\ \A k \in 1..Len(o) : Below(rows, o[k]) \subseteq G
      BY DEF Below
    <3> QED
      BY <3>2, <3>3, <3>4
  <2>13. ToSet(Walk(tree, i)) = Below(rows, i)
    BY <2>5, <2>11, <2>12
  <2>14. Walk(tree, i) \in Seq(Below(rows, i))
    <3>1. \A s \in Seq(DOMAIN rows) : s \in Seq(ToSet(s))
      BY DEF ToSet
    <3> QED
      BY <2>11, <2>13, <3>1
  <2> QED
    BY <2>11, <2>13, <2>14 DEF Lists
<1>2. Q = G
  <2>1. Q \in SUBSET Grounded(rows)
    OBVIOUS
  <2> HIDE DEF Q
  <2> QED
    BY <1>0, <1>1, <2>1, FromBelow
<1> QED
  BY <1>2

AboveFrom(rows, f, i) ==
    IF ParentOf(rows, i) = NoSpan THEN <<>> ELSE <<ParentOf(rows, i)>> \o f[ParentOf(rows, i)]

\* The way up of every span exists, since the parent's is shorter.
LEMMA AboveExists ==
    ASSUME NEW rows, IsRows(rows)
    PROVE  \E f : f = [i \in Grounded(rows) |-> AboveFrom(rows, f, i)]
<1> DEFINE G == Grounded(rows)
           D(i) == Len(rows) - Rank(rows, i)
           P == {m \in Nat : \E f : f = [i \in G |-> f[i]] /\ \A i \in G :
                    D(i) < m => f[i] = AboveFrom(rows, f, i)}
<1>0. G \subseteq DOMAIN rows /\ Len(rows) \in Nat
  BY RowsAre DEF Grounded
<1>2. ASSUME NEW i \in G
      PROVE  /\ D(i) \in Nat /\ D(i) < Len(rows) + 1
             /\ ParentOf(rows, i) # NoSpan =>
                    ParentOf(rows, i) \in G /\ D(ParentOf(rows, i)) < D(i)
  <2>1. Rank(rows, i) \in Nat /\ Rank(rows, i) < Len(rows)
    BY <1>0, RankIs
  <2>2. ASSUME ParentOf(rows, i) # NoSpan
        PROVE  ParentOf(rows, i) \in G /\ D(ParentOf(rows, i)) < D(i)
    <3> DEFINE p == ParentOf(rows, i)
    <3>1. p \in G
      BY <1>0, <2>2, GroundedStep
    <3>2. i \in Kids(rows, p)
      BY <1>0 DEF Kids
    <3>3. Rank(rows, p) \in Nat /\ Rank(rows, i) < Rank(rows, p)
      BY <1>0, <3>1, <3>2, RankIs
    <3> HIDE DEF p
    <3>4. D(p) < D(i)
      BY <1>0, <2>1, <3>3
    <3> QED
      BY <3>1, <3>4 DEF p
  <2>3. D(i) \in Nat /\ D(i) < Len(rows) + 1
    BY <1>0, <2>1
  <2> QED
    BY <2>2, <2>3
<1> HIDE DEF G, D
<1>3. 0 \in P
  <2> DEFINE f == [i \in G |-> 0]
  <2>1. f = [i \in G |-> f[i]] /\ \A i \in G : ~(D(i) < 0)
    BY <1>2
  <2> HIDE DEF f
  <2> QED
    BY <2>1
<1>4. ASSUME NEW m \in Nat, m \in P PROVE m + 1 \in P
  <2>1. PICK f : f = [i \in G |-> f[i]] /\ \A i \in G : D(i) < m => f[i] = AboveFrom(rows, f, i)
    BY <1>4
  <2> DEFINE g == [i \in G |-> IF D(i) = m THEN AboveFrom(rows, f, i) ELSE f[i]]
  <2>2. ASSUME NEW i \in G, D(i) < m + 1
        PROVE  g[i] = AboveFrom(rows, g, i)
    <3>1. ParentOf(rows, i) # NoSpan => f[ParentOf(rows, i)] = g[ParentOf(rows, i)]
      BY <1>2, <2>2
    <3>2. AboveFrom(rows, f, i) = AboveFrom(rows, g, i)
      <4> HIDE DEF g
      <4> QED
        BY <3>1 DEF AboveFrom
    <3>3. D(i) = m \/ D(i) < m
      BY <1>2, <2>2
    <3> QED
      BY <1>2, <2>1, <3>2, <3>3
  <2>3. g = [i \in G |-> g[i]]
    OBVIOUS
  <2> HIDE DEF g
  <2> QED
    BY <2>2, <2>3
<1>5. Nat \subseteq P
  <2> HIDE DEF P
  <2> QED
    BY <1>3, <1>4, NatInd
<1>6. Len(rows) + 1 \in P
  BY <1>0, <1>5
<1>7. PICK f : f = [i \in G |-> f[i]] /\ \A i \in G :
                 D(i) < Len(rows) + 1 => f[i] = AboveFrom(rows, f, i)
  BY <1>6
<1>8. \A i \in G : f[i] = AboveFrom(rows, f, i)
  BY <1>2, <1>7
<1>9. f = [i \in G |-> AboveFrom(rows, f, i)]
  BY <1>7, <1>8
<1> QED
  BY <1>9 DEF G

\* Above goes from parent to parent.
LEMMA AboveIs ==
    ASSUME NEW rows, IsRows(rows), NEW i \in Grounded(rows)
    PROVE  Above(rows, i) = IF ParentOf(rows, i) = NoSpan THEN <<>>
                            ELSE <<ParentOf(rows, i)>> \o Above(rows, ParentOf(rows, i))
<1> DEFINE up == CHOOSE f : f = [j \in Grounded(rows) |->
                   IF ParentOf(rows, j) = NoSpan THEN <<>>
                   ELSE <<ParentOf(rows, j)>> \o f[ParentOf(rows, j)]]
<1>1. \A j : Above(rows, j) = up[j]
  BY Zenon DEF Above
<1>2. \E f : f = [j \in Grounded(rows) |->
                   IF ParentOf(rows, j) = NoSpan THEN <<>>
                   ELSE <<ParentOf(rows, j)>> \o f[ParentOf(rows, j)]]
  BY AboveExists, Zenon DEF AboveFrom
<1>3. up = [j \in Grounded(rows) |->
              IF ParentOf(rows, j) = NoSpan THEN <<>>
              ELSE <<ParentOf(rows, j)>> \o up[ParentOf(rows, j)]]
  BY <1>2, Zenon
<1> HIDE DEF up
<1> QED
  BY <1>1, <1>3

\* It meets what is above the span, without the span.
LEMMA AboveLists ==
    ASSUME NEW rows, IsRows(rows)
    PROVE  \A i \in Grounded(rows) : /\ Above(rows, i) \in Seq(DOMAIN rows)
                                     /\ ToSet(Above(rows, i)) = Up(rows, i) \ {i}
<1> DEFINE Good(i) == /\ Above(rows, i) \in Seq(DOMAIN rows)
                      /\ ToSet(Above(rows, i)) = Up(rows, i) \ {i}
           Q == {i \in Grounded(rows) : Good(i)}
<1>0. Grounded(rows) \subseteq DOMAIN rows /\ NoSpan \notin DOMAIN rows
  BY RowsAre DEF Grounded
<1>1. ASSUME NEW i \in Grounded(rows), ParentOf(rows, i) = NoSpan PROVE i \in Q
  <2>1. Above(rows, i) = <<>> /\ Up(rows, i) = {i}
    BY <1>0, <1>1, AboveIs, UpStep
  <2>2. Good(i)
    BY <2>1 DEF ToSet
  <2> QED
    BY <2>2
<1>2. ASSUME NEW i \in Grounded(rows), ParentOf(rows, i) \in Q PROVE i \in Q
  <2> DEFINE p == ParentOf(rows, i)
  <2>1. p \in DOMAIN rows /\ p # NoSpan /\ Good(p) /\ i \in DOMAIN rows
    BY <1>0, <1>2
  <2>2. Above(rows, i) = <<p>> \o Above(rows, p)
    BY <2>1, AboveIs
  <2>3. Up(rows, i) = {i} \cup Up(rows, p) /\ i \notin Up(rows, p) /\ p \in Up(rows, p)
    BY <2>1, UpStep, NotAbove
  <2> HIDE DEF p
  <2>4. <<p>> \in Seq(DOMAIN rows) /\ ToSet(<<p>>) = {p}
    BY <2>1 DEF ToSet
  <2>5. Above(rows, i) \in Seq(DOMAIN rows) /\ ToSet(Above(rows, i)) = {p} \cup ToSet(Above(rows, p))
    <3> DEFINE a == <<p>>  b == Above(rows, p)
    <3>1. a \in Seq(DOMAIN rows) /\ b \in Seq(DOMAIN rows) /\ Above(rows, i) = a \o b /\ ToSet(a) = {p}
      BY <2>1, <2>2, <2>4
    <3> HIDE DEF a, b
    <3>2. ToSet(a \o b) = ToSet(a) \cup ToSet(b)
      BY <3>1, ConcatLists
    <3>3. a \o b \in Seq(DOMAIN rows)
      BY <3>1, ConcatIs
    <3> QED
      BY <3>1, <3>2, <3>3 DEF b
  <2>6. Good(i)
    BY <2>1, <2>3, <2>5
  <2> QED
    BY <2>6
<1>3. Q = Grounded(rows)
  <2>1. Q \in SUBSET Grounded(rows)
    OBVIOUS
  <2> HIDE DEF Q
  <2> QED
    BY <1>1, <1>2, <2>1, FromTop
<1> QED
  BY <1>3

\* Below the root is a tree, and the walk from the root meets it once (TreeBelowRoot).
LEMMA TreeIsTree ==
    ASSUME NEW tree, IsTree(tree), tree.root # NoSpan
    PROVE  /\ \A i \in DOMAIN tree.rows : tree.root \notin ToSet(tree.children[i])
           /\ \A i, j \in DOMAIN tree.rows :
                ToSet(tree.children[i]) \cap ToSet(tree.children[j]) # {} => i = j
           /\ IsInjective(Walk(tree, tree.root))
           /\ ToSet(Walk(tree, tree.root)) = {tree.root} \cup
                {i \in Grounded(tree.rows) : tree.root \in ToSet(Above(tree.rows, i))}
<1> DEFINE rows == tree.rows
           root == tree.root
<1>1. IsRows(rows) /\ root \in DOMAIN rows /\ ParentOf(rows, root) = NoSpan
  BY RootIs DEF IsTree
<1>2. root \in Grounded(rows)
  BY <1>1, GroundedStep
<1>3. \A i \in DOMAIN rows : ToSet(tree.children[i]) = Kids(rows, i)
  BY DEF IsTree, Lists
<1>4. Lists(Walk(tree, root), Below(rows, root))
  BY <1>2, WalkLists
<1>5. Below(rows, root) = {root} \cup {i \in Grounded(rows) : root \in ToSet(Above(rows, i))}
  <2>1. root \in Below(rows, root)
    BY <1>1, <1>2, UpStep DEF Below
  <2>2. \A i \in Grounded(rows) : ToSet(Above(rows, i)) = Up(rows, i) \ {i}
    BY <1>1, AboveLists
  <2> QED
    BY <2>1, <2>2 DEF Below
<1>6. \A i \in DOMAIN rows : i # NoSpan
  BY <1>1, RowsAre
<1> QED
  BY <1>1, <1>3, <1>4, <1>5, <1>6 DEF Kids, Lists

-----------------------------------------------------------------------------
(* What every caller carries.                                              *)

Timed(rows) ==
    \A i \in DOMAIN rows : /\ rows[i].start \in Int /\ rows[i].dur \in Nat
                           /\ CutOff(rows[i].dur)

\* The rows of a caller: the spans that were saved, in some order, or what the table
\* makes of them.
Origin(saved, stored, rows) ==
    /\ IsRows(saved) /\ IsRows(rows) /\ Timed(rows)
    /\ \/ stored = TRUE /\ \A i \in DOMAIN rows : rows[i].parent # EmptyID
       \/ /\ stored = FALSE
          /\ \E p \in SetToSeqs(DOMAIN saved) : rows = [i \in DOMAIN saved |-> saved[p[i]]]

Drawn(tree, body) ==
    \/ body.format = "svg" /\ body.boxes = DrawFrame(tree, Width)
    \/ body.format = "folded" /\ body.lines = Folded(tree)
    \/ /\ body.format = "stats" /\ body.frames = FrameStats(tree)
       /\ body.hot \in HotSpots(tree, HotCount)

Walking(me) ==
    /\ me.stored = FALSE /\ me.tree.root # NoSpan
    /\ me.todo \in Seq(Grounded(me.tree.rows)) /\ me.todo # <<>>
    /\ \/ InStartOrder(me.tree)
       \/ me.pc \in {"span", "sign"} /\ Head(me.todo) = me.tree.root

Answered(me) ==
    /\ me.stored = TRUE /\ me.code = 200 => Encodable(me.tree.rows)
    /\ me.body # <<>> => me.tree.root # NoSpan /\ Drawn(me.tree, me.body)

Carries(me) ==
    /\ Shape(me)
    /\ me.pc # "idle" =>
         /\ IsTree(me.tree) /\ Origin(me.saved, me.stored, me.tree.rows)
         /\ me.stored = TRUE => me.pc \in {"json", "flame", "answered"}
         /\ me.pc \in {"span", "sign", "tally", "tag"} => Walking(me)
         /\ me.pc = "answered" => Answered(me)

Signs(s) ==
    \E t : /\ IsTree(t) /\ InStartOrder(t) /\ Origin(s.saved, FALSE, t.rows)
           /\ \E n \in Grounded(t.rows) : s.span = t.rows[n] /\ s.hash = Structure(t, n)

TracesInv ==
    /\ DOMAIN caller = Callers /\ \A c \in Callers : Carries(caller[c])
    /\ \A s \in signed : Signs(s)

\* Spans in memory, in whatever order.
LEMMA BuildRows ==
    ASSUME NEW want \in Wants, NEW saved \in Traces(want), NEW p \in SetToSeqs(DOMAIN saved)
    PROVE  Origin(saved, FALSE, [i \in DOMAIN saved |-> saved[p[i]]])
<1> DEFINE rows == [i \in DOMAIN saved |-> saved[p[i]]]
<1>1. /\ IsRows(saved)
      /\ \A row \in ToSet(saved) : row.start \in Int /\ row.dur \in Nat /\ CutOff(row.dur)
  BY TracesAssumption DEF IsRows
<1>2. Len(saved) \in Nat /\ DOMAIN saved = 1..Len(saved)
  BY <1>1, RowsAre
<1>3. IsFiniteSet(DOMAIN saved) /\ Cardinality(DOMAIN saved) = Len(saved)
  <2>1. saved \in Seq(ToSet(saved))
    BY <1>1 DEF IsRows
  <2>2. IsFiniteSet(1..Len(saved))
    <3>1. 1 \in Int /\ Len(saved) \in Int
      BY <1>2
    <3> QED
      BY <3>1, FS_Interval
  <2>3. ExistsBijection(1..Len(saved), 1..Len(saved))
    <3> DEFINE S == 1..Len(saved)
    <3>1. [x \in S |-> x] \in Bijection(S, S)
      BY DEF Bijection, Injection, Surjection, IsInjective
    <3> QED
      BY <3>1 DEF ExistsBijection
  <2> QED
    BY <1>2, <2>2, <2>3, FS_CountingElements
<1>4. Lists(p, DOMAIN saved) /\ Len(p) = Len(saved)
  BY <1>3, SeqsList
<1>5. \A i \in DOMAIN saved : p[i] \in DOMAIN saved
  BY <1>2, <1>4 DEF Lists
<1>6. \A i \in DOMAIN saved : saved[p[i]] \in ToSet(saved)
  BY <1>5 DEF ToSet
<1>7. DOMAIN rows = DOMAIN saved /\ \A i \in DOMAIN saved : rows[i] = saved[p[i]]
  OBVIOUS
<1>8. rows = [i \in 1..Len(saved) |-> rows[i]]
  BY <1>2
<1> HIDE DEF rows
<1>9. IsRows(rows)
  <2> DEFINE D == ToSet(rows)  n == Len(saved)
  <2>1. \A i \in 1..n : rows[i] \in D
    BY <1>2, <1>7 DEF ToSet
  <2>2. n \in Nat /\ rows = [i \in 1..n |-> rows[i]]
    BY <1>2, <1>8
  <2> HIDE DEF D, n
  <2>3. rows \in Seq(D)
    BY <2>1, <2>2
  <2> QED
    BY <2>3 DEF IsRows, D
<1>10. Timed(rows)
  BY <1>1, <1>6, <1>7 DEF Timed
<1> QED
  BY <1>1, <1>9, <1>10 DEF Origin, rows

\* What GetTraceByID reads: no span comes back without a parent id.
LEMMA QueryRows ==
    ASSUME NEW want \in Wants, NEW saved \in Traces(want),
           NEW rows \in RowOrders([i \in DOMAIN saved |-> Stored(saved[i])])
    PROVE  Origin(saved, TRUE, rows)
<1> DEFINE put == [i \in DOMAIN saved |-> Stored(saved[i])]
<1>1. /\ IsRows(saved)
      /\ \A row \in ToSet(saved) :
           /\ DOMAIN row = {"id", "parent", "name", "start", "dur", "big", "tagged"}
           /\ row.start \in Int /\ row.dur \in Nat /\ CutOff(row.dur)
  BY TracesAssumption DEF IsRows
<1>2. Len(saved) \in Nat /\ DOMAIN saved = 1..Len(saved)
  BY <1>1, RowsAre
<1>3. ASSUME NEW row \in ToSet(saved)
      PROVE  /\ Stored(row).start \in Int /\ Stored(row).dur \in Nat
             /\ CutOff(Stored(row).dur) /\ Stored(row).parent # EmptyID
  <2>1. /\ Stored(row).start = row.start /\ Stored(row).dur = row.dur
        /\ Stored(row).parent = Padded(row.parent)
    BY <1>1 DEF Stored
  <2> QED
    BY <1>1, <2>1, IDAssumption DEF Padded
<1>4. rows \in [DOMAIN put -> ToSet(put)] /\ DOMAIN put = DOMAIN saved
  BY Zenon DEF RowOrders
<1>5. \A x \in ToSet(put) :
        x.start \in Int /\ x.dur \in Nat /\ CutOff(x.dur) /\ x.parent # EmptyID
  BY <1>3 DEF ToSet
<1> HIDE DEF put
<1>6. Timed(rows) /\ \A i \in DOMAIN rows : rows[i].parent # EmptyID
  BY <1>4, <1>5 DEF Timed
<1>7. IsRows(rows)
  <2> DEFINE D == ToSet(rows)  n == Len(saved)
  <2>1. n \in Nat /\ rows = [i \in 1..n |-> rows[i]] /\ \A i \in 1..n : rows[i] \in D
    BY <1>2, <1>4 DEF ToSet
  <2> HIDE DEF D, n
  <2>2. rows \in Seq(D)
    BY <2>1
  <2> QED
    BY <2>2 DEF IsRows, D
<1> QED
  BY <1>1, <1>6, <1>7 DEF Origin

\* A request begins with the tree of its rows.
LEMMA AskCarries ==
    ASSUME NEW c \in Callers, NEW want \in Wants, NEW saved \in Traces(want),
           Query(c, saved, want) \/ Build(c, saved, want)
    PROVE  \E new : Goto(c, new) /\ Carries(new)
<1>1. ASSUME NEW rows, NEW stored \in BOOLEAN, Origin(saved, stored, rows),
             stored = TRUE => want \in {"json", "flame"},
             Goto(c, [pc |-> want, saved |-> saved, stored |-> stored, tree |-> BuildTraceTree(rows)])
      PROVE  \E new : Goto(c, new) /\ Carries(new)
  <2> DEFINE new == [pc |-> want, saved |-> saved, stored |-> stored, tree |-> BuildTraceTree(rows)]
  <2>1. /\ new.pc = want /\ new.saved = saved /\ new.stored = stored
        /\ new.tree = BuildTraceTree(rows) /\ DOMAIN new = Common
    BY DEF Common
  <2>2. IsTree(new.tree) /\ new.tree.rows = rows
    <3>1. IsRows(rows)
      BY <1>1 DEF Origin
    <3> QED
      BY <2>1, <3>1, BuildIsTree
  <2>3. Goto(c, new)
    BY <1>1
  <2> HIDE DEF new
  <2>4. Shape(new)
    BY <2>1 DEF Shape
  <2>5. want \notin {"idle", "answered", "span", "sign", "tally", "tag"}
    BY DEF Wants
  <2>6. Carries(new)
    BY <1>1, <2>1, <2>2, <2>4, <2>5 DEF Carries
  <2> QED
    BY <2>3, <2>6
<1>2. CASE Query(c, saved, want)
  <2>1. want \in {"json", "flame"}
    BY <1>2 DEF Query
  <2>2. PICK rows \in RowOrders([i \in DOMAIN saved |-> Stored(saved[i])]) :
          Goto(c, [pc |-> want, saved |-> saved, stored |-> TRUE, tree |-> BuildTraceTree(rows)])
    BY <1>2 DEF Query
  <2>3. Origin(saved, TRUE, rows)
    BY <2>2, QueryRows
  <2> QED
    BY <1>1, <2>1, <2>2, <2>3
<1>3. CASE Build(c, saved, want)
  <2>1. PICK p \in SetToSeqs(DOMAIN saved) :
          Goto(c, [pc |-> want, saved |-> saved, stored |-> FALSE,
                   tree |-> BuildTraceTree([i \in DOMAIN saved |-> saved[p[i]]])])
    BY <1>3 DEF Build
  <2>2. Origin(saved, FALSE, [i \in DOMAIN saved |-> saved[p[i]]])
    BY <2>1, BuildRows
  <2> QED
    BY <1>1, <2>1, <2>2
<1> QED
  BY <1>2, <1>3

\* An answer carries its tree.
LEMMA AnswerCarries ==
    ASSUME NEW c \in Callers, Carries(caller[c]), caller[c].pc # "idle",
           NEW tree, IsTree(tree), tree.rows = caller[c].tree.rows, NEW code, NEW body,
           Answer(c, tree, code, body),
           caller[c].stored = TRUE /\ code = 200 => Encodable(tree.rows),
           body # <<>> => tree.root # NoSpan /\ Drawn(tree, body)
    PROVE  \E new : Goto(c, new) /\ Carries(new)
<1>0. Answer(c, tree, code, body)
  OBVIOUS
<1>1. PICK new : /\ Goto(c, new) /\ new.pc = "answered"
                 /\ DOMAIN new = Common \cup {"code", "body"}
                 /\ new.tree = tree /\ new.saved = caller[c].saved
                 /\ new.stored = caller[c].stored /\ new.code = code /\ new.body = body
  BY ONLY <1>0, AnswerIs
<1>2. Shape(new)
  BY <1>1 DEF Shape
<1>3. Answered(new)
  BY <1>1 DEF Answered
<1>4. Origin(new.saved, new.stored, new.tree.rows)
  BY <1>1 DEF Carries
<1>5. Carries(new)
  BY <1>1, <1>2, <1>3, <1>4 DEF Carries
<1> QED
  BY <1>1, <1>5

\* The root of a trace from the table is nil.
LEMMA StoredRoot ==
    ASSUME NEW me, Carries(me), me.pc # "idle", me.stored = TRUE
    PROVE  me.tree.root = NoSpan
<1>1. IsTree(me.tree) /\ Origin(me.saved, me.stored, me.tree.rows)
  BY DEF Carries
<1>2. \A i \in DOMAIN me.tree.rows : me.tree.rows[i].parent # EmptyID
  BY <1>1 DEF Origin
<1> QED
  BY <1>1, <1>2, RootIs DEF IsTree

\* getTrace answers 200 only if the trace could be encoded.
LEMMA GetTraceCarries ==
    ASSUME NEW c \in Callers, Carries(caller[c]), GetTrace(c)
    PROVE  \E new : Goto(c, new) /\ Carries(new)
<1>1. caller[c].pc = "json"
  BY DEF GetTrace
<1>2. IsTree(caller[c].tree)
  BY <1>1 DEF Carries
<1>3. PICK code : /\ Answer(c, caller[c].tree, code, <<>>)
                  /\ code = 200 => Encodable(caller[c].tree.rows)
  <2> DEFINE rows == caller[c].tree.rows
  <2>1. CASE rows = <<>> /\ Answer(c, caller[c].tree, 404, <<>>)
    <3>1. 404 # 200
      OBVIOUS
    <3> QED
      BY <2>1, <3>1
  <2>2. CASE Answer(c, caller[c].tree, IF Encodable(rows) THEN 200 ELSE 0, <<>>)
    <3>1. (IF Encodable(rows) THEN 200 ELSE 0) = 200 => Encodable(rows)
      OBVIOUS
    <3> QED
      BY <2>2, <3>1
  <2> QED
    BY <2>1, <2>2 DEF GetTrace
<1> QED
  BY <1>1, <1>2, <1>3, AnswerCarries

\* getFlameGraph answers with the sorted tree and what is drawn from it.
LEMMA FlameGraphCarries ==
    ASSUME NEW c \in Callers, Carries(caller[c]), FlameGraph(c)
    PROVE  \E new : Goto(c, new) /\ Carries(new)
<1> DEFINE tree == caller[c].tree
<1>1. caller[c].pc = "flame"
  BY DEF FlameGraph
<1>2. IsTree(tree)
  BY <1>1 DEF Carries
<1>3. CASE tree.root = NoSpan /\ Answer(c, tree, IF tree.rows = <<>> THEN 500 ELSE 404, <<>>)
  <2> DEFINE code == IF tree.rows = <<>> THEN 500 ELSE 404
  <2>1. code # 200
    OBVIOUS
  <2>2. Answer(c, tree, code, <<>>)
    BY <1>3
  <2> HIDE DEF code
  <2> QED
    BY <1>1, <1>2, <2>1, <2>2, AnswerCarries
<1>4. ASSUME tree.root # NoSpan, NEW t \in Sorted(tree),
             \/ Answer(c, t, 200, [format |-> "svg", boxes |-> DrawFrame(t, Width)])
             \/ Answer(c, t, 200, [format |-> "folded", lines |-> Folded(t)])
             \/ \E hot \in HotSpots(t, HotCount) :
                  Answer(c, t, 200, [format |-> "stats", frames |-> FrameStats(t), hot |-> hot])
             \/ Answer(c, t, 0, <<>>)
      PROVE  \E new : Goto(c, new) /\ Carries(new)
  <2>1. IsTree(t) /\ t.rows = tree.rows /\ t.root = tree.root
    BY <1>2, SortedIsTree
  <2>2. caller[c].stored # TRUE
    BY <1>1, <1>4, StoredRoot
  <2>3. ASSUME NEW body, Answer(c, t, 200, body), Drawn(t, body)
        PROVE  \E new : Goto(c, new) /\ Carries(new)
    BY <1>1, <1>4, <2>1, <2>2, <2>3, AnswerCarries
  <2>4. Drawn(t, [format |-> "svg", boxes |-> DrawFrame(t, Width)])
    BY DEF Drawn
  <2>5. Drawn(t, [format |-> "folded", lines |-> Folded(t)])
    BY DEF Drawn
  <2>6. ASSUME NEW hot \in HotSpots(t, HotCount)
        PROVE  Drawn(t, [format |-> "stats", frames |-> FrameStats(t), hot |-> hot])
    BY DEF Drawn
  <2>7. ASSUME Answer(c, t, 0, <<>>) PROVE \E new : Goto(c, new) /\ Carries(new)
    BY <1>1, <2>1, <2>2, <2>7, AnswerCarries
  <2> QED
    BY <1>4, <2>3, <2>4, <2>5, <2>6, <2>7
<1>5. \/ tree.root = NoSpan /\ Answer(c, tree, IF tree.rows = <<>> THEN 500 ELSE 404, <<>>)
      \/ /\ tree.root # NoSpan
         /\ \E t \in Sorted(tree) :
              \/ Answer(c, t, 200, [format |-> "svg", boxes |-> DrawFrame(t, Width)])
              \/ Answer(c, t, 200, [format |-> "folded", lines |-> Folded(t)])
              \/ \E hot \in HotSpots(t, HotCount) :
                   Answer(c, t, 200, [format |-> "stats", frames |-> FrameStats(t), hot |-> hot])
              \/ Answer(c, t, 0, <<>>)
  BY DEF FlameGraph
<1> QED
  BY <1>3, <1>4, <1>5

\* CompressTrace begins with the root.
LEMMA CompressTraceCarries ==
    ASSUME NEW c \in Callers, Carries(caller[c]), CompressTrace(c)
    PROVE  \E new : Goto(c, new) /\ Carries(new)
<1> DEFINE me == caller[c]
           tree == caller[c].tree
           new == [pc |-> "span", saved |-> me.saved, stored |-> me.stored,
                   tree |-> tree, todo |-> <<tree.root>>, hit |-> FALSE]
<1>1. me.pc = "compress" /\ (\/ tree.root = NoSpan /\ Answer(c, tree, 200, <<>>)
                             \/ tree.root # NoSpan /\ Goto(c, new))
  BY DEF CompressTrace
<1>2. IsTree(tree) /\ me.stored # TRUE /\ Origin(me.saved, me.stored, tree.rows)
  BY <1>1 DEF Carries
<1>3. CASE Answer(c, tree, 200, <<>>)
  BY <1>1, <1>2, <1>3, AnswerCarries
<1>4. CASE tree.root # NoSpan /\ Goto(c, new)
  <2>1. tree.root \in Grounded(tree.rows)
    <3>1. IsRows(tree.rows) /\ tree.root \in DOMAIN tree.rows /\ ParentOf(tree.rows, tree.root) = NoSpan
      BY <1>2, <1>4, RootIs DEF IsTree
    <3> QED
      BY <3>1, GroundedStep
  <2>2. /\ new.pc = "span" /\ new.saved = me.saved /\ new.stored = me.stored /\ new.tree = tree
        /\ new.todo = <<tree.root>> /\ new.hit \in BOOLEAN /\ DOMAIN new = Common \cup {"todo", "hit"}
    BY DEF Common
  <2>3. new.todo \in Seq(Grounded(tree.rows)) /\ new.todo # <<>> /\ Head(new.todo) = tree.root
    BY <2>1, <2>2
  <2>4. new.stored = FALSE
    BY <1>2, <2>2 DEF Origin
  <2>5. Goto(c, new)
    BY <1>4
  <2> HIDE DEF new
  <2>6. Shape(new)
    BY <2>2 DEF Shape
  <2>7. Walking(new)
    BY <1>4, <2>2, <2>3, <2>4 DEF Walking
  <2>8. Carries(new)
    BY <1>2, <2>2, <2>4, <2>6, <2>7 DEF Carries
  <2> QED
    BY <2>5, <2>8
<1> QED
  BY <1>1, <1>3, <1>4

\* A caller that walks on.
LEMMA WalkCarries ==
    ASSUME NEW c \in Callers, Carries(caller[c]), caller[c].pc \in {"span", "sign", "tally", "tag"},
           NEW new, DOMAIN new = DOMAIN caller[c], new.hit \in BOOLEAN,
           new.pc \in {"span", "sign", "tally", "tag"},
           new.saved = caller[c].saved, new.stored = caller[c].stored,
           IsTree(new.tree), new.tree.rows = caller[c].tree.rows, new.tree.root = caller[c].tree.root,
           new.todo \in Seq(Grounded(new.tree.rows)), new.todo # <<>>,
           \/ InStartOrder(new.tree)
           \/ new.pc \in {"span", "sign"} /\ Head(new.todo) = new.tree.root
    PROVE  Carries(new)
<1>1. DOMAIN caller[c] = Common \cup {"todo", "hit"} /\ Walking(caller[c])
      /\ Origin(caller[c].saved, caller[c].stored, caller[c].tree.rows)
  BY DEF Carries, Shape, Wants
<1>2. Shape(new)
  BY <1>1 DEF Shape
<1>3. new.stored = FALSE /\ new.tree.root # NoSpan
  BY <1>1 DEF Walking
<1>4. Walking(new)
  BY <1>3 DEF Walking
<1>5. new.pc # "idle" /\ new.pc # "answered"
  OBVIOUS
<1> QED
  BY <1>1, <1>2, <1>3, <1>4, <1>5 DEF Carries

\* CompressSpan, the signature and its count leave the span where it is.
LEMMA StayCarries ==
    ASSUME NEW c \in Callers, Carries(caller[c]), CompressSpan(c) \/ Signature(c) \/ Tally(c)
    PROVE  \E new : Goto(c, new) /\ Carries(new)
<1> DEFINE me == caller[c]
<1>1. me.pc \in {"span", "sign", "tally", "tag"}
  BY DEF CompressSpan, Signature, Tally
<1>2. /\ DOMAIN me = Common \cup {"todo", "hit"} /\ me.hit \in BOOLEAN
      /\ Walking(me) /\ IsTree(me.tree)
  BY <1>1 DEF Carries, Shape, Wants
<1>3. CASE CompressSpan(c) \/ Tally(c)
  <2>1. PICK pc \in {"sign", "tag"} :
          /\ Goto(c, [me EXCEPT !.pc = pc])
          /\ (pc = "sign" /\ me.pc = "span") \/ (pc = "tag" /\ me.pc = "tally")
    <3>1. CASE CompressSpan(c)
      BY <3>1 DEF CompressSpan
    <3>2. CASE Tally(c)
      BY <3>2 DEF Tally
    <3> QED
      BY <1>3, <3>1, <3>2
  <2> DEFINE new == [me EXCEPT !.pc = pc]
  <2>2. /\ DOMAIN new = DOMAIN me /\ new.pc = pc /\ new.hit = me.hit /\ new.saved = me.saved
        /\ new.stored = me.stored /\ new.tree = me.tree /\ new.todo = me.todo
    BY <1>2 DEF Common
  <2>3. \/ InStartOrder(me.tree)
        \/ pc \in {"span", "sign"} /\ Head(me.todo) = me.tree.root
    BY <1>2, <2>1 DEF Walking
  <2> HIDE DEF new
  <2>4. Carries(new)
    BY <1>1, <1>2, <2>2, <2>3, WalkCarries DEF Walking
  <2> QED
    BY <2>1, <2>4 DEF new
<1>4. CASE Signature(c)
  <2>1. PICK t \in SortedFor(me), b \in BOOLEAN :
           Goto(c, [me EXCEPT !.pc = "tally", !.tree = t, !.hit = b])
    BY <1>4 DEF Signature
  <2> DEFINE new == [me EXCEPT !.pc = "tally", !.tree = t, !.hit = b]
  <2>2. /\ DOMAIN new = DOMAIN me /\ new.pc = "tally" /\ new.hit = b /\ new.saved = me.saved
        /\ new.stored = me.stored /\ new.tree = t /\ new.todo = me.todo
    BY <1>2 DEF Common
  <2>3. IsTree(t) /\ t.rows = me.tree.rows /\ t.root = me.tree.root /\ InStartOrder(t)
    <3>1. CASE Head(me.todo) = me.tree.root
      <4>1. t \in Sorted(me.tree)
        BY <2>1, <3>1 DEF SortedFor
      <4> QED
        BY <1>2, <4>1, SortedIsTree
    <3>2. CASE Head(me.todo) # me.tree.root
      BY <1>2, <2>1, <3>2 DEF SortedFor, Walking
    <3> QED
      BY <3>1, <3>2
  <2> HIDE DEF new
  <2>4. Carries(new)
    BY <1>1, <1>2, <2>2, <2>3, WalkCarries DEF Walking
  <2> QED
    BY <2>1, <2>4 DEF new
<1> QED
  BY <1>3, <1>4

\* CompressTrace goes on to the children, with sorted children all the way down.
LEMMA TagCarries ==
    ASSUME NEW c \in Callers, Carries(caller[c]), Tag(c)
    PROVE  /\ \E new : Goto(c, new) /\ Carries(new)
           /\ \E s : signed' = signed \cup {s} /\ Signs(s)
<1> DEFINE me == caller[c]
           tree == me.tree
           n == Head(me.todo)
           rest == tree.children[n] \o Tail(me.todo)
           s == [saved |-> me.saved, span |-> tree.rows[n], hash |-> Structure(tree, n)]
<1>1. /\ me.pc = "tag" /\ signed' = signed \cup {s}
      /\ \/ Answer(c, tree, 200, <<>>)
         \/ rest # <<>> /\ Goto(c, [me EXCEPT !.pc = "span", !.todo = rest])
  BY DEF Tag
<1>2. /\ DOMAIN me = Common \cup {"todo", "hit"} /\ me.hit \in BOOLEAN
      /\ Walking(me) /\ IsTree(tree) /\ Origin(me.saved, me.stored, tree.rows)
  BY <1>1 DEF Carries, Shape, Wants
<1>3. /\ me.stored = FALSE /\ InStartOrder(tree) /\ me.todo # <<>>
      /\ me.todo \in Seq(Grounded(tree.rows))
  BY <1>1, <1>2 DEF Walking
<1>4. n \in Grounded(tree.rows) /\ Tail(me.todo) \in Seq(Grounded(tree.rows))
  <2> DEFINE G == Grounded(tree.rows)  todo == me.todo
  <2>1. todo \in Seq(G) /\ todo # <<>>
    BY <1>3
  <2> HIDE DEF G, todo
  <2>2. Head(todo) \in G /\ Tail(todo) \in Seq(G)
    BY <2>1
  <2> QED
    BY <2>2 DEF G, todo
<1>5. rest \in Seq(Grounded(tree.rows))
  <2>1. IsRows(tree.rows) /\ n \in DOMAIN tree.rows
    BY <1>2, <1>4 DEF IsTree, Grounded
  <2>2. Lists(tree.children[n], Kids(tree.rows, n))
    BY <1>2, <2>1 DEF IsTree
  <2>3. Kids(tree.rows, n) \subseteq Grounded(tree.rows)
    BY <1>4, <2>1, RankIs
  <2>4. tree.children[n] \in Seq(Grounded(tree.rows))
    BY <2>2, <2>3 DEF Lists
  <2> QED
    BY <1>4, <2>4, ConcatIs
<1>6. Signs(s)
  <2>1. s.saved = me.saved /\ s.span = tree.rows[n] /\ s.hash = Structure(tree, n)
    OBVIOUS
  <2> HIDE DEF s
  <2>2. Origin(s.saved, FALSE, tree.rows)
    BY <1>2, <1>3, <2>1
  <2> QED
    BY <1>2, <1>3, <1>4, <2>1, <2>2 DEF Signs
<1>7. CASE Answer(c, tree, 200, <<>>)
  <2>1. \E new : Goto(c, new) /\ Carries(new)
    BY <1>1, <1>2, <1>3, <1>7, AnswerCarries
  <2> QED
    BY <1>1, <1>6, <2>1
<1>8. CASE rest # <<>> /\ Goto(c, [me EXCEPT !.pc = "span", !.todo = rest])
  <2> DEFINE new == [me EXCEPT !.pc = "span", !.todo = rest]
  <2>1. /\ DOMAIN new = DOMAIN me /\ new.pc = "span" /\ new.hit = me.hit /\ new.saved = me.saved
        /\ new.stored = me.stored /\ new.tree = me.tree /\ new.todo = rest
    BY <1>2 DEF Common
  <2>2. Goto(c, new)
    BY <1>8
  <2> HIDE DEF new, rest
  <2>3. Carries(new)
    BY <1>1, <1>2, <1>3, <1>5, <1>8, <2>1, WalkCarries
  <2> HIDE DEF s
  <2> QED
    BY <1>1, <1>6, <2>2, <2>3
<1> QED
  BY <1>1, <1>7, <1>8

\* What every caller carries stays so.
LEMMA TracesStep == TracesInv /\ [Next]_vars => TracesInv'
<1> SUFFICES ASSUME TracesInv, [Next]_vars PROVE TracesInv'
  OBVIOUS
<1>0. DOMAIN caller = Callers /\ \A c \in Callers : Carries(caller[c])
      /\ \A s \in signed : Signs(s)
  BY DEF TracesInv
<1>1. CASE UNCHANGED vars
  BY <1>0, <1>1 DEF vars, TracesInv
<1>2. ASSUME NEW c \in Callers, NEW new, Goto(c, new), Carries(new),
             signed' = signed \/ \E s : signed' = signed \cup {s} /\ Signs(s)
      PROVE  TracesInv'
  <2>1. /\ caller'[c] = new /\ DOMAIN caller' = Callers
        /\ \A d \in Callers : d # c => caller'[d] = caller[d]
    BY <1>0, <1>2, GotoOne
  <2>2. \A d \in Callers : Carries(caller'[d])
    BY <1>0, <1>2, <2>1
  <2>3. \A s \in signed' : Signs(s)
    BY <1>0, <1>2
  <2> QED
    BY <2>1, <2>2, <2>3 DEF TracesInv
<1>3. ASSUME NEW c \in Callers, NEW want \in Wants, NEW saved \in Traces(want),
             Query(c, saved, want) \/ Build(c, saved, want)
      PROVE  TracesInv'
  <2>1. signed' = signed
    BY <1>3 DEF Query, Build
  <2>2. \E new : Goto(c, new) /\ Carries(new)
    BY <1>3, AskCarries
  <2> QED
    BY <1>2, <2>1, <2>2
<1>4. ASSUME NEW c \in Callers, GetTrace(c) PROVE TracesInv'
  <2>1. signed' = signed
    BY <1>4 DEF GetTrace
  <2> QED
    BY <1>0, <1>2, <1>4, <2>1, GetTraceCarries
<1>5. ASSUME NEW c \in Callers, FlameGraph(c) PROVE TracesInv'
  <2>1. signed' = signed
    BY <1>5 DEF FlameGraph
  <2> QED
    BY <1>0, <1>2, <1>5, <2>1, FlameGraphCarries
<1>6. ASSUME NEW c \in Callers, CompressTrace(c) PROVE TracesInv'
  <2>1. signed' = signed
    BY <1>6 DEF CompressTrace
  <2> QED
    BY <1>0, <1>2, <1>6, <2>1, CompressTraceCarries
<1>7. ASSUME NEW c \in Callers, CompressSpan(c) \/ Signature(c) \/ Tally(c) PROVE TracesInv'
  <2>1. signed' = signed
    BY <1>7 DEF CompressSpan, Signature, Tally
  <2> QED
    BY <1>0, <1>2, <1>7, <2>1, StayCarries
<1>8. ASSUME NEW c \in Callers, Tag(c) PROVE TracesInv'
  BY <1>0, <1>2, <1>8, TagCarries
<1> QED
  BY <1>1, <1>3, <1>4, <1>5, <1>6, <1>7, <1>8 DEF Next

\* And it is so in the beginning.
LEMMA TracesInit == Init => TracesInv
<1> SUFFICES ASSUME Init PROVE TracesInv
  OBVIOUS
<1>1. caller = [c \in Callers |-> Idle] /\ signed = {}
  BY DEF Init
<1>2. Idle.pc = "idle"
  BY DEF Idle
<1>3. Carries(Idle)
  BY <1>2 DEF Carries, Shape
<1> QED
  BY <1>1, <1>3 DEF TracesInv

Nameless(rows) == {i \in DOMAIN rows : rows[i].id = ZeroID}

\* What a caller shows of a trace it got from the table.
LEMMA RootlessCarries ==
    ASSUME NEW me, Carries(me), me.pc = "answered", me.stored = TRUE,
           Nameless(me.tree.rows) # {},
           me.tree.rows[Max(Nameless(me.tree.rows))].parent = ZeroID
    PROVE  me.code # 200
<1> DEFINE rows == me.tree.rows
           nameless == Nameless(rows)
<1>1. IsTree(me.tree) /\ Answered(me) /\ Origin(me.saved, me.stored, rows)
  BY DEF Carries
<1>2. IsRows(rows) /\ nameless # {} /\ rows[Max(nameless)].parent = ZeroID
      /\ nameless = {i \in DOMAIN rows : rows[i].id = ZeroID}
  BY <1>1 DEF Origin, Nameless
<1> HIDE DEF rows, nameless
<1> DEFINE m == Max(nameless)
<1>3. m \in DOMAIN rows /\ rows[m].id = ZeroID
  <2>1. Len(rows) \in Nat /\ nameless \in SUBSET (1..Len(rows))
    BY <1>2, RowsAre
  <2>2. m \in nameless
    BY <1>2, <2>1, MaxIn
  <2> QED
    BY <1>2, <2>2
<1>4. rows[m].parent = ZeroID
  BY <1>2
<1>5. ParentOf(rows, m) # NoSpan
  BY <1>2, <1>3, <1>4, IDAssumption, ParentIs
<1>6. ParentOf(rows, m) = Max({k \in DOMAIN rows : rows[k].id = rows[m].parent})
  <2> HIDE DEF m
  <2> QED
    BY <1>2, <1>3, <1>5, ParentIs
<1>7. ParentOf(rows, m) = m
  BY <1>2, <1>4, <1>6
<1>8. m \notin Grounded(rows)
  <2> HIDE DEF m
  <2>1. {m} \in SUBSET DOMAIN rows /\ \A j \in {m} : ParentOf(rows, j) \in {m}
    BY <1>3, <1>7
  <2> QED
    BY <2>1 DEF Grounded
<1>9. ~Encodable(rows)
  BY <1>3, <1>8 DEF Encodable
<1> QED
  BY <1>1, <1>9 DEF Answered, rows

\* Whatever ids the spans carry, what hangs below the root is a tree, and a walk from the
\* root ends and meets every span of it once (BuildTraceTree, collectAllFrames).
THEOREM RootHoldsTree == Spec => []TreeBelowRoot
<1>1. TracesInv => TreeBelowRoot
  <2> SUFFICES ASSUME TracesInv, NEW c \in Callers, Rooted(c)
               PROVE  LET tree == caller[c].tree
                          spans == DOMAIN tree.rows
                          walk == Walk(tree, tree.root)
                      IN  /\ \A i \in spans : tree.root \notin ToSet(tree.children[i])
                          /\ \A i, j \in spans :
                               ToSet(tree.children[i]) \cap ToSet(tree.children[j]) # {} => i = j
                          /\ IsInjective(walk)
                          /\ ToSet(walk) = {tree.root} \cup
                                {i \in Grounded(tree.rows) : tree.root \in ToSet(Above(tree.rows, i))}
    BY DEF TreeBelowRoot
  <2>1. IsTree(caller[c].tree) /\ caller[c].tree.root # NoSpan
    BY DEF TracesInv, Carries, Rooted
  <2> QED
    BY <2>1, TreeIsTree, Zenon
<1> QED
  BY TracesInit, TracesStep, <1>1, PTL DEF Spec

\* A trace from the table never has a root, and cannot be encoded if its last span without an
\* id has no parent (padString, doFlush, GetTraceByID).
THEOREM NoRootFromTable == Spec => []StoredTraceRootless
<1>1. TracesInv => StoredTraceRootless
  <2> SUFFICES ASSUME TracesInv, NEW c \in Callers, caller[c].pc # "idle", caller[c].stored
               PROVE  LET rows == caller[c].tree.rows
                          nameless == {i \in DOMAIN rows : rows[i].id = ZeroID}
                      IN  /\ caller[c].tree.root = NoSpan
                          /\ (/\ caller[c].pc = "answered"
                              /\ nameless # {}
                              /\ rows[Max(nameless)].parent = ZeroID) => caller[c].code # 200
    BY DEF StoredTraceRootless
  <2>1. Carries(caller[c])
    BY DEF TracesInv
  <2>2. caller[c].stored = TRUE
    BY <2>1 DEF Carries, Origin
  <2>3. caller[c].tree.root = NoSpan
    BY <2>1, <2>2, StoredRoot
  <2> DEFINE rows == caller[c].tree.rows
             nameless == {i \in DOMAIN rows : rows[i].id = ZeroID}
  <2>4. ASSUME caller[c].pc = "answered", nameless # {}, rows[Max(nameless)].parent = ZeroID
        PROVE  caller[c].code # 200
    <3>1. Nameless(caller[c].tree.rows) = nameless
      BY DEF Nameless
    <3>2. /\ Nameless(caller[c].tree.rows) # {}
          /\ caller[c].tree.rows[Max(Nameless(caller[c].tree.rows))].parent = ZeroID
      BY <2>4, <3>1
    <3>3. caller[c].pc = "answered"
      BY <2>4
    <3> QED
      BY ONLY <2>1, <2>2, <3>2, <3>3, RootlessCarries
  <2> QED
    BY <2>3, <2>4
<1> QED
  BY TracesInit, TracesStep, <1>1, PTL DEF Spec

-----------------------------------------------------------------------------
(* The signature of a subtree, and the order of the rows.                  *)

StructureFrom(tree, f, i) ==
    <<tree.rows[i].name, [k \in DOMAIN tree.children[i] |-> f[tree.children[i][k]]]>>

\* The structures of all subtrees exist, since the children's subtrees are smaller.
LEMMA StructureExists ==
    ASSUME NEW tree, IsTree(tree)
    PROVE  \E f : f = [i \in Grounded(tree.rows) |-> StructureFrom(tree, f, i)]
<1> DEFINE rows == tree.rows
           G == Grounded(rows)
           P == {m \in Nat : \E f : f = [i \in G |-> f[i]] /\ \A i \in G :
                    Rank(rows, i) < m => f[i] = StructureFrom(tree, f, i)}
<1>0. IsRows(rows) /\ G \subseteq DOMAIN rows
  BY DEF IsTree, Grounded
<1>1. ASSUME NEW i \in G, NEW f, NEW g, \A j \in Kids(rows, i) : f[j] = g[j]
      PROVE  StructureFrom(tree, f, i) = StructureFrom(tree, g, i)
  <2> DEFINE o == tree.children[i]
  <2>1. \A k \in DOMAIN o : o[k] \in Kids(rows, i)
    BY <1>0 DEF IsTree, Lists, ToSet
  <2>2. [k \in DOMAIN o |-> f[o[k]]] = [k \in DOMAIN o |-> g[o[k]]]
    BY <1>1, <2>1
  <2> QED
    BY <2>2 DEF StructureFrom
<1>2. \A i \in G : Rank(rows, i) \in Nat /\ Rank(rows, i) < Len(rows)
                   /\ \A j \in Kids(rows, i) : j \in G /\ Rank(rows, j) < Rank(rows, i)
  BY <1>0, RankIs
<1> HIDE DEF G, rows
<1>3. 0 \in P
  <2> DEFINE f == [i \in G |-> 0]
  <2>1. f = [i \in G |-> f[i]] /\ \A i \in G : ~(Rank(rows, i) < 0)
    BY <1>2
  <2> HIDE DEF f
  <2> QED
    BY <2>1
<1>4. ASSUME NEW m \in Nat, m \in P PROVE m + 1 \in P
  <2>1. PICK f : f = [i \in G |-> f[i]]
                 /\ \A i \in G : Rank(rows, i) < m => f[i] = StructureFrom(tree, f, i)
    BY <1>4
  <2> DEFINE g == [i \in G |-> IF Rank(rows, i) = m THEN StructureFrom(tree, f, i) ELSE f[i]]
  <2>2. ASSUME NEW i \in G, Rank(rows, i) < m + 1
        PROVE  g[i] = StructureFrom(tree, g, i)
    <3>1. \A j \in Kids(rows, i) : f[j] = g[j]
      BY <1>2, <2>2
    <3>2. StructureFrom(tree, f, i) = StructureFrom(tree, g, i)
      <4> HIDE DEF g
      <4> QED
        BY <1>1, <3>1
    <3>3. Rank(rows, i) = m \/ Rank(rows, i) < m
      BY <1>2, <2>2
    <3> QED
      BY <1>2, <2>1, <3>2, <3>3
  <2>3. g = [i \in G |-> g[i]]
    OBVIOUS
  <2> HIDE DEF g
  <2> QED
    BY <2>2, <2>3
<1>5. Nat \subseteq P
  <2> HIDE DEF P
  <2> QED
    BY <1>3, <1>4, NatInd
<1>6. Len(rows) \in P
  BY <1>0, <1>5, RowsAre
<1>7. PICK f : f = [i \in G |-> f[i]]
               /\ \A i \in G : Rank(rows, i) < Len(rows) => f[i] = StructureFrom(tree, f, i)
  BY <1>6
<1>8. \A i \in G : f[i] = StructureFrom(tree, f, i)
  BY <1>2, <1>7
<1>9. f = [i \in G |-> StructureFrom(tree, f, i)]
  BY <1>7, <1>8
<1> QED
  BY <1>9 DEF G, rows

\* The structure of a span is its name and the structures of its children.
LEMMA StructureIs ==
    ASSUME NEW tree, IsTree(tree), NEW i \in Grounded(tree.rows)
    PROVE  Structure(tree, i) =
             <<tree.rows[i].name,
               [k \in DOMAIN tree.children[i] |-> Structure(tree, tree.children[i][k])]>>
<1> DEFINE s == CHOOSE f : f = [n \in Grounded(tree.rows) |->
             <<tree.rows[n].name, [k \in DOMAIN tree.children[n] |-> f[tree.children[n][k]]]>>]
<1>1. \A j : Structure(tree, j) = s[j]
  BY Zenon DEF Structure
<1>2. \E f : f = [n \in Grounded(tree.rows) |->
             <<tree.rows[n].name, [k \in DOMAIN tree.children[n] |-> f[tree.children[n][k]]]>>]
  BY StructureExists, Zenon DEF StructureFrom
<1>3. s = [n \in Grounded(tree.rows) |->
             <<tree.rows[n].name, [k \in DOMAIN tree.children[n] |-> s[tree.children[n][k]]]>>]
  BY <1>2, Zenon
<1> HIDE DEF s
<1>4. s[i] = <<tree.rows[i].name, [k \in DOMAIN tree.children[i] |-> s[tree.children[i][k]]]>>
  BY <1>3
<1> QED
  BY <1>1, <1>4

\* There is one way to list spans that start at different times in the order of their starts.
LEMMA OneOrder ==
    ASSUME NEW S, NEW key, \A x \in S : key[x] \in Int,
           NEW s, Lists(s, S), \A k, l \in DOMAIN s : k < l => key[s[k]] < key[s[l]],
           NEW r, Lists(r, S), \A k, l \in DOMAIN r : k < l => key[r[k]] < key[r[l]]
    PROVE  s = r
<1>1. Len(s) = Len(r) /\ Len(s) \in Nat
  BY ListsSeqs DEF Lists
<1> DEFINE n == Len(s)
<1>2. /\ s \in [1..n -> S] /\ r \in [1..n -> S] /\ DOMAIN s = 1..n /\ DOMAIN r = 1..n
      /\ \A x \in S : (\E k \in 1..n : s[k] = x) /\ (\E k \in 1..n : r[k] = x)
  <2>1. s \in Seq(S) /\ r \in Seq(S) /\ ToSet(s) = S /\ ToSet(r) = S
    BY DEF Lists
  <2>2. DOMAIN s = 1..n /\ DOMAIN r = 1..n /\ s \in [1..n -> S] /\ r \in [1..n -> S]
    BY <1>1, <2>1
  <2>3. ASSUME NEW x \in S PROVE (\E k \in 1..n : s[k] = x) /\ (\E k \in 1..n : r[k] = x)
    <3>1. x \in ToSet(s) /\ x \in ToSet(r)
      BY <2>1
    <3> HIDE DEF n
    <3> QED
      BY <2>2, <3>1 DEF ToSet
  <2> QED
    BY <2>2, <2>3
<1> HIDE DEF n
<1> DEFINE D == {k \in 1..n : s[k] # r[k]}
<1>3. SUFFICES ASSUME D # {} PROVE FALSE
  <2>1. CASE D = {}
    <3>1. \A k \in 1..n : s[k] = r[k]
      BY <2>1
    <3>2. s = [k \in 1..n |-> s[k]] /\ r = [k \in 1..n |-> r[k]]
      BY <1>2
    <3>3. [k \in 1..n |-> s[k]] = [k \in 1..n |-> r[k]]
      BY <3>1
    <3> QED
      BY ONLY <3>2, <3>3
  <2> QED
    BY <2>1
<1>4. D \subseteq Nat
  BY <1>1 DEF n
<1>5. PICK k \in D : \A j \in D : k <= j
  <2> HIDE DEF D
  <2> QED
    BY <1>3, <1>4, Least
<1>6. \A j \in 1..n : j < k => s[j] = r[j]
  <2> SUFFICES ASSUME NEW j \in 1..n, j < k, s[j] # r[j] PROVE FALSE
    OBVIOUS
  <2>1. j \in D /\ k \in Nat /\ j \in Nat
    BY <1>4
  <2> QED
    BY <1>5, <2>1
<1>7. k \in 1..n /\ s[k] # r[k] /\ n \in Nat
  BY <1>1 DEF n
<1>8. PICK a \in 1..n, b \in 1..n : r[a] = s[k] /\ s[b] = r[k]
  BY <1>2, <1>7
<1>9. \A x \in 1..n : key[s[x]] \in Int /\ key[r[x]] \in Int
  BY <1>2
<1>10. k < a /\ k < b
  <2>1. a # k /\ b # k
    BY <1>7, <1>8
  <2>2. ~(a < k)
    <3> SUFFICES ASSUME a < k PROVE FALSE
      OBVIOUS
    <3>1. s[a] = s[k]
      BY <1>6, <1>8
    <3>2. key[s[a]] < key[s[k]]
      BY <1>2, <1>7
    <3> QED
      BY <1>7, <1>9, <3>1, <3>2
  <2>3. ~(b < k)
    <3> SUFFICES ASSUME b < k PROVE FALSE
      OBVIOUS
    <3>1. r[b] = r[k]
      BY <1>6, <1>8
    <3>2. key[r[b]] < key[r[k]]
      BY <1>2, <1>7
    <3> QED
      BY <1>7, <1>9, <3>1, <3>2
  <2> QED
    BY <1>7, <2>1, <2>2, <2>3
<1>11. key[r[k]] < key[s[k]]
  <2>1. key[r[k]] < key[r[a]]
    BY <1>2, <1>7, <1>10
  <2> QED
    BY <1>8, <2>1
<1>12. key[s[k]] < key[r[k]]
  <2>1. key[s[k]] < key[s[b]]
    BY <1>2, <1>7, <1>10
  <2> QED
    BY <1>8, <2>1
<1>13. \A x, y \in Int : ~(x < y /\ y < x)
  OBVIOUS
<1> QED
  BY <1>7, <1>9, <1>11, <1>12, <1>13

\* The same spans in two orders: f says where each of one is in the other.
Reordered(ra, rb, f) ==
    /\ f \in [DOMAIN ra -> DOMAIN rb] /\ IsInjective(f)
    /\ \A j \in DOMAIN rb : \E i \in DOMAIN ra : f[i] = j
    /\ \A i \in DOMAIN ra : rb[f[i]] = ra[i]

Distinct(rows) == \A i, j \in DOMAIN rows : rows[i].id = rows[j].id => i = j

\* If no id is repeated, a span's parent goes to the same place.
LEMMA ParentMoves ==
    ASSUME NEW ra, NEW rb, NEW f, IsRows(ra), IsRows(rb), Reordered(ra, rb, f),
           Distinct(ra), Distinct(rb), NEW i \in DOMAIN ra
    PROVE  ParentOf(rb, f[i]) = IF ParentOf(ra, i) = NoSpan THEN NoSpan ELSE f[ParentOf(ra, i)]
<1> DEFINE j == f[i]
           p == ParentOf(ra, i)
           q == ParentOf(rb, j)
<1>1. j \in DOMAIN rb /\ rb[j] = ra[i]
  BY DEF Reordered
<1>2. CASE p = NoSpan
  <2>1. \/ ra[i].parent = EmptyID
        \/ \A k \in DOMAIN ra : ra[k].id # ra[i].parent
    BY <1>2, ParentIs
  <2>2. ASSUME q # NoSpan PROVE FALSE
    <3>1. q \in DOMAIN rb /\ rb[j].parent # EmptyID /\ rb[q].id = rb[j].parent
      BY <1>1, <2>2, ParentIs
    <3>2. PICK k \in DOMAIN ra : f[k] = q
      BY <3>1 DEF Reordered
    <3>3. ra[k].id = ra[i].parent
      BY <1>1, <3>1, <3>2 DEF Reordered
    <3> QED
      BY <1>1, <2>1, <3>1, <3>3
  <2> QED
    BY <1>2, <2>2
<1>3. CASE p # NoSpan
  <2>1. p \in DOMAIN ra /\ ra[i].parent # EmptyID /\ ra[p].id = ra[i].parent
    BY <1>3, ParentIs
  <2>2. f[p] \in DOMAIN rb /\ rb[f[p]] = ra[p]
    BY <2>1 DEF Reordered
  <2>3. q # NoSpan
    <3>1. rb[j].parent = ra[i].parent /\ rb[f[p]].id = ra[p].id
      BY <1>1, <2>2
    <3> HIDE DEF j, q, p
    <3>2. q = NoSpan => rb[j].parent = EmptyID \/ \A k \in DOMAIN rb : rb[k].id # rb[j].parent
      BY <1>1, ParentIs DEF q
    <3> QED
      BY <2>1, <2>2, <3>1, <3>2
  <2>4. q \in DOMAIN rb /\ rb[q].id = rb[j].parent
    BY <1>1, <2>3, ParentIs
  <2>5. q = f[p]
    BY <1>1, <2>1, <2>2, <2>4 DEF Distinct
  <2> QED
    BY <1>3, <2>5
<1> QED
  BY <1>2, <1>3

\* So do its children, and the end of its way up.
LEMMA KidsMove ==
    ASSUME NEW ra, NEW rb, NEW f, IsRows(ra), IsRows(rb), Reordered(ra, rb, f),
           Distinct(ra), Distinct(rb)
    PROVE  /\ \A i \in DOMAIN ra : Kids(rb, f[i]) = {f[k] : k \in Kids(ra, i)}
           /\ \A i \in Grounded(ra) : f[i] \in Grounded(rb)
<1>0. /\ NoSpan \notin DOMAIN ra /\ NoSpan \notin DOMAIN rb
      /\ \A i \in DOMAIN ra : f[i] \in DOMAIN rb
      /\ \A i, j \in DOMAIN ra : f[i] = f[j] => i = j
  BY RowsAre DEF Reordered, IsInjective
<1>1. ASSUME NEW i \in DOMAIN ra
      PROVE  Kids(rb, f[i]) = {f[k] : k \in Kids(ra, i)}
  <2>1. ASSUME NEW k \in DOMAIN ra PROVE ParentOf(rb, f[k]) = f[i] <=> ParentOf(ra, k) = i
    <3>1. ParentOf(rb, f[k]) = IF ParentOf(ra, k) = NoSpan THEN NoSpan ELSE f[ParentOf(ra, k)]
      BY ParentMoves
    <3>2. ParentOf(ra, k) \in DOMAIN ra \cup {NoSpan}
      BY ParentIs
    <3> QED
      BY <1>0, <3>1, <3>2
  <2>2. ASSUME NEW j \in Kids(rb, f[i]) PROVE \E k \in Kids(ra, i) : j = f[k]
    <3>1. PICK k \in DOMAIN ra : f[k] = j
      BY <2>2 DEF Kids, Reordered
    <3> QED
      BY <2>1, <2>2, <3>1 DEF Kids
  <2>3. ASSUME NEW k \in Kids(ra, i) PROVE f[k] \in Kids(rb, f[i])
    BY <1>0, <2>1, <2>3 DEF Kids
  <2> QED
    BY <2>2, <2>3
<1>2. \A i \in Grounded(ra) : f[i] \in Grounded(rb)
  <2> DEFINE Q == {i \in Grounded(ra) : f[i] \in Grounded(rb)}
  <2>1. ASSUME NEW i \in Grounded(ra), ParentOf(ra, i) = NoSpan \/ ParentOf(ra, i) \in Q
        PROVE  i \in Q
    <3>1. i \in DOMAIN ra /\ f[i] \in DOMAIN rb
      BY <1>0 DEF Grounded
    <3>2. ParentOf(rb, f[i]) = IF ParentOf(ra, i) = NoSpan THEN NoSpan ELSE f[ParentOf(ra, i)]
      BY <3>1, ParentMoves
    <3>3. f[i] \in Grounded(rb)
      BY <2>1, <3>1, <3>2, GroundedStep
    <3> QED
      BY <3>3
  <2>2. Q \in SUBSET Grounded(ra)
    OBVIOUS
  <2>3. Q = Grounded(ra)
    <3> HIDE DEF Q
    <3> QED
      BY <2>1, <2>2, FromTop
  <2> QED
    BY <2>3
<1> QED
  BY <1>1, <1>2

\* Spans of one parent start at different times.
Apart(rows) == \A i, j \in DOMAIN rows :
    i # j /\ rows[i].parent = rows[j].parent => rows[i].start # rows[j].start

\* Children in the order of their starts are, then, in one order.
LEMMA StrictOrder ==
    ASSUME NEW rows, IsRows(rows), Timed(rows), Apart(rows), NEW i \in DOMAIN rows,
           NEW o, Lists(o, Kids(rows, i)),
           \A k, l \in DOMAIN o : k < l => rows[o[k]].start <= rows[o[l]].start
    PROVE  \A k, l \in DOMAIN o : k < l => rows[o[k]].start < rows[o[l]].start
<1> SUFFICES ASSUME NEW k \in DOMAIN o, NEW l \in DOMAIN o, k < l
             PROVE  rows[o[k]].start < rows[o[l]].start
  OBVIOUS
<1>1. o[k] \in Kids(rows, i) /\ o[l] \in Kids(rows, i)
  BY DEF Lists, ToSet
<1>2. k \in Nat /\ l \in Nat
  BY DEF Lists
<1>3. o[k] # o[l]
  BY <1>2 DEF Lists, IsInjective
<1>4. /\ o[k] \in DOMAIN rows /\ o[l] \in DOMAIN rows
      /\ ParentOf(rows, o[k]) = i /\ ParentOf(rows, o[l]) = i
  BY <1>1 DEF Kids
<1>5. i # NoSpan
  BY RowsAre
<1>6. rows[i].id = rows[o[k]].parent /\ rows[i].id = rows[o[l]].parent
  BY <1>4, <1>5, ParentIs
<1>7. rows[o[k]].start # rows[o[l]].start
  BY <1>3, <1>4, <1>6 DEF Apart
<1>8. rows[o[k]].start <= rows[o[l]].start
  OBVIOUS
<1>9. rows[o[k]].start \in Int /\ rows[o[l]].start \in Int
  BY <1>4 DEF Timed
<1> QED
  BY <1>7, <1>8, <1>9

\* The children of a span in one order of the rows are those in the other.
LEMMA ChildrenMove ==
    ASSUME NEW ta, NEW tb, NEW f, IsTree(ta), IsTree(tb), InStartOrder(ta), InStartOrder(tb),
           Timed(ta.rows), Timed(tb.rows), Reordered(ta.rows, tb.rows, f),
           Distinct(ta.rows), Distinct(tb.rows), Apart(ta.rows), Apart(tb.rows),
           NEW i \in DOMAIN ta.rows
    PROVE  tb.children[f[i]] = [k \in DOMAIN ta.children[i] |-> f[ta.children[i][k]]]
<1> DEFINE ra == ta.rows
           rb == tb.rows
           o == ta.children[i]
           r == tb.children[f[i]]
           s == [k \in DOMAIN o |-> f[o[k]]]
           S == Kids(rb, f[i])
           key == [j \in DOMAIN rb |-> rb[j].start]
<1>1. IsRows(ra) /\ IsRows(rb) /\ f[i] \in DOMAIN rb
  BY DEF IsTree, Reordered
<1>2. Lists(o, Kids(ra, i)) /\ Lists(r, S)
  BY <1>1 DEF IsTree
<1>3. S = {f[k] : k \in Kids(ra, i)}
  BY <1>1, KidsMove
<1>4. /\ \A k \in DOMAIN ra : f[k] \in DOMAIN rb /\ rb[f[k]] = ra[k]
      /\ \A k, l \in DOMAIN ra : f[k] = f[l] => k = l
  BY DEF Reordered, IsInjective
<1>5. Kids(ra, i) \subseteq DOMAIN ra /\ S \subseteq DOMAIN rb
  BY DEF Kids
<1>6. /\ \A k, l \in DOMAIN o : k < l => ra[o[k]].start < ra[o[l]].start
      /\ \A k, l \in DOMAIN r : k < l => rb[r[k]].start < rb[r[l]].start
  <2>1. /\ \A k, l \in DOMAIN o : k < l => ra[o[k]].start <= ra[o[l]].start
        /\ \A k, l \in DOMAIN r : k < l => rb[r[k]].start <= rb[r[l]].start
    BY <1>1 DEF InStartOrder
  <2>2. f[i] \in DOMAIN rb /\ Timed(ra) /\ Timed(rb) /\ Apart(ra) /\ Apart(rb) /\ i \in DOMAIN ra
    BY <1>1
  <2> HIDE DEF o, r, ra, rb
  <2>3. \A k, l \in DOMAIN o : k < l => ra[o[k]].start < ra[o[l]].start
    BY <1>1, <1>2, <2>1, <2>2, StrictOrder
  <2>4. \A k, l \in DOMAIN r : k < l => rb[r[k]].start < rb[r[l]].start
    BY <1>1, <1>2, <2>1, <2>2, StrictOrder DEF S
  <2> QED
    BY <2>3, <2>4
<1>7. \A j \in S : key[j] \in Int
  BY <1>5 DEF Timed
<1>8. \A k \in DOMAIN o : o[k] \in Kids(ra, i)
  BY <1>2 DEF Lists, ToSet
<1>9. \A j \in Kids(ra, i) : \E k \in DOMAIN o : o[k] = j
  BY <1>2 DEF Lists, ToSet
<1>10. Lists(s, S)
  <2>1. DOMAIN o = 1..Len(o) /\ Len(o) \in Nat /\ \A k, l \in DOMAIN o : o[k] = o[l] => k = l
    BY <1>2 DEF Lists, IsInjective
  <2> HIDE DEF o, ra, rb, S
  <2>2. \A k \in DOMAIN o : s[k] = f[o[k]] /\ s[k] \in S
    BY <1>3, <1>8
  <2>3. s \in Seq(S)
    <3> DEFINE n == Len(o)
    <3>1. n \in Nat /\ s = [k \in 1..n |-> s[k]] /\ \A k \in 1..n : s[k] \in S
      BY <2>1, <2>2
    <3> HIDE DEF n, s
    <3> QED
      BY <3>1
  <2>4. DOMAIN s = DOMAIN o
    OBVIOUS
  <2> HIDE DEF s
  <2>5. ToSet(s) = S
    <3>1. ASSUME NEW j \in S PROVE j \in ToSet(s)
      <4>1. PICK k \in Kids(ra, i) : j = f[k]
        BY <1>3
      <4>2. PICK l \in DOMAIN o : o[l] = k
        BY <1>9
      <4> QED
        BY <2>2, <2>4, <4>1, <4>2 DEF ToSet
    <3>2. ASSUME NEW j \in ToSet(s) PROVE j \in S
      BY <2>2, <2>4 DEF ToSet
    <3> QED
      BY <3>1, <3>2
  <2>6. IsInjective(s)
    <3> SUFFICES ASSUME NEW k \in DOMAIN s, NEW l \in DOMAIN s, s[k] = s[l] PROVE k = l
      BY DEF IsInjective
    <3>1. f[o[k]] = f[o[l]] /\ o[k] \in DOMAIN ra /\ o[l] \in DOMAIN ra
      BY <1>5, <1>8, <2>2, <2>4
    <3> QED
      BY <1>4, <2>1, <2>4, <3>1
  <2> QED
    BY <2>3, <2>5, <2>6 DEF Lists
<1>11. \A k, l \in DOMAIN s : k < l => key[s[k]] < key[s[l]]
  <2>1. \A k \in DOMAIN o : f[o[k]] \in DOMAIN rb /\ rb[f[o[k]]] = ra[o[k]]
    BY <1>4, <1>5, <1>8
  <2> QED
    BY <1>6, <2>1
<1>12. \A k, l \in DOMAIN r : k < l => key[r[k]] < key[r[l]]
  <2>1. \A k \in DOMAIN r : r[k] \in DOMAIN rb
    BY <1>2, <1>5 DEF Lists, ToSet
  <2> QED
    BY <1>6, <2>1
<1>13. s = r
  <2> HIDE DEF key, s, r, S
  <2> QED
    BY <1>2, <1>7, <1>10, <1>11, <1>12, OneOrder
<1> QED
  BY <1>13

\* So is the structure of every subtree.
LEMMA StructureMoves ==
    ASSUME NEW ta, NEW tb, NEW f, IsTree(ta), IsTree(tb), InStartOrder(ta), InStartOrder(tb),
           Timed(ta.rows), Timed(tb.rows), Reordered(ta.rows, tb.rows, f),
           Distinct(ta.rows), Distinct(tb.rows), Apart(ta.rows), Apart(tb.rows)
    PROVE  \A i \in Grounded(ta.rows) : Structure(ta, i) = Structure(tb, f[i])
<1> DEFINE ra == ta.rows
           G == Grounded(ra)
           Q == {i \in G : Structure(ta, i) = Structure(tb, f[i])}
<1>0. IsRows(ra) /\ IsRows(tb.rows) /\ G \subseteq DOMAIN ra
  BY DEF IsTree, Grounded
<1>1. ASSUME NEW i \in G, Kids(ra, i) \subseteq Q PROVE i \in Q
  <2> DEFINE o == ta.children[i]
             r == tb.children[f[i]]
  <2>1. i \in DOMAIN ra /\ f[i] \in Grounded(tb.rows)
    BY <1>0, KidsMove
  <2>2. r = [k \in DOMAIN o |-> f[o[k]]]
    BY <2>1, ChildrenMove
  <2>3. \A k \in DOMAIN o : Structure(ta, o[k]) = Structure(tb, f[o[k]])
    <3>1. \A k \in DOMAIN o : o[k] \in Kids(ra, i)
      BY <2>1 DEF IsTree, Lists, ToSet
    <3> QED
      BY <1>1, <3>1
  <2>4. ra[i].name = tb.rows[f[i]].name
    BY <2>1 DEF Reordered
  <2>5. Structure(ta, i) = <<ra[i].name, [k \in DOMAIN o |-> Structure(ta, o[k])]>>
    BY StructureIs
  <2>6. Structure(tb, f[i]) = <<tb.rows[f[i]].name, [k \in DOMAIN r |-> Structure(tb, r[k])]>>
    BY <2>1, StructureIs
  <2> HIDE DEF o, r
  <2>7. [k \in DOMAIN o |-> Structure(ta, o[k])] = [k \in DOMAIN r |-> Structure(tb, r[k])]
    BY <2>2, <2>3
  <2> QED
    BY <2>4, <2>5, <2>6, <2>7
<1>2. Q \in SUBSET G
  OBVIOUS
<1>3. Q = G
  <2> HIDE DEF Q
  <2> QED
    BY <1>0, <1>1, <1>2, FromBelow
<1> QED
  BY <1>3

\* Spans saved once and without doubles come in one order or another.
LEMMA SavedReordered ==
    ASSUME NEW saved, Unambiguous(saved), NEW ra, NEW rb,
           Origin(saved, FALSE, ra), Origin(saved, FALSE, rb)
    PROVE  /\ \E f : Reordered(ra, rb, f)
           /\ Distinct(ra) /\ Distinct(rb) /\ Apart(ra) /\ Apart(rb)
<1> DEFINE D == DOMAIN saved
<1>0. Len(saved) \in Nat /\ D = 1..Len(saved)
  BY RowsAre DEF Origin
<1>1. ASSUME NEW rows, Origin(saved, FALSE, rows)
      PROVE  /\ \E p : /\ Lists(p, D) /\ Len(p) = Len(saved) /\ rows = [i \in D |-> saved[p[i]]]
                       /\ p \in [D -> D]
             /\ Distinct(rows) /\ Apart(rows)
  <2>1. PICK p \in SetToSeqs(D) : rows = [i \in D |-> saved[p[i]]]
    BY <1>1 DEF Origin
  <2>2. IsFiniteSet(D) /\ Cardinality(D) = Len(saved)
    <3>1. IsFiniteSet(1..Len(saved))
      <4>1. 1 \in Int /\ Len(saved) \in Int
        BY <1>0
      <4> QED
        BY <4>1, FS_Interval
    <3>2. ExistsBijection(1..Len(saved), 1..Len(saved))
      <4> DEFINE S == 1..Len(saved)
      <4>1. [x \in S |-> x] \in Bijection(S, S)
        BY DEF Bijection, Injection, Surjection, IsInjective
      <4> QED
        BY <4>1 DEF ExistsBijection
    <3> QED
      BY <1>0, <3>1, <3>2, FS_CountingElements
  <2>3. Lists(p, D) /\ Len(p) = Len(saved)
    BY <2>1, <2>2, SeqsList
  <2>4. p \in [D -> D] /\ \A i, j \in D : p[i] = p[j] => i = j
    <3>1. p \in Seq(D) /\ DOMAIN p = D
      BY <1>0, <2>3 DEF Lists
    <3>2. p \in [1..Len(p) -> D]
      BY <3>1
    <3> QED
      BY <1>0, <2>3, <3>1, <3>2 DEF Lists, IsInjective
  <2>5. DOMAIN rows = D /\ \A i \in D : rows[i] = saved[p[i]]
    BY <2>1
  <2>6. Distinct(rows) /\ Apart(rows)
    BY <2>4, <2>5 DEF Distinct, Apart, Unambiguous
  <2> QED
    BY <2>1, <2>3, <2>4, <2>6
<1> HIDE DEF D
<1>2. PICK p : Lists(p, D) /\ ra = [i \in D |-> saved[p[i]]] /\ p \in [D -> D]
  BY <1>1
<1>3. PICK q : Lists(q, D) /\ rb = [i \in D |-> saved[q[i]]] /\ q \in [D -> D]
  BY <1>1
<1> DEFINE f == [i \in D |-> CHOOSE j \in D : q[j] = p[i]]
<1>4. ASSUME NEW r, Lists(r, D), r \in [D -> D], NEW x \in D
      PROVE  (\E j \in D : r[j] = x) /\ \A i, j \in D : r[i] = r[j] => i = j
  BY <1>4 DEF Lists, ToSet, IsInjective
<1>5. \A i \in D : f[i] \in D /\ q[f[i]] = p[i]
  <2>1. \A i \in D : \E j \in D : q[j] = p[i]
    <3>1. \A i \in D : p[i] \in D
      BY <1>2
    <3> QED
      BY <1>3, <1>4, <3>1
  <2> QED
    BY <2>1
<1>6. f \in [D -> D]
  BY <1>5
<1> HIDE DEF f
<1>7. DOMAIN ra = D /\ DOMAIN rb = D
  BY <1>2, <1>3
<1>8. IsInjective(f)
  <2> SUFFICES ASSUME NEW i \in D, NEW j \in D, f[i] = f[j] PROVE i = j
    BY <1>6 DEF IsInjective
  <2>1. p[i] = p[j]
    BY <1>5
  <2> QED
    BY <1>2, <1>4, <2>1
<1>9. \A j \in D : \E i \in D : f[i] = j
  <2> SUFFICES ASSUME NEW j \in D PROVE \E i \in D : f[i] = j
    OBVIOUS
  <2>1. q[j] \in D
    BY <1>3
  <2>2. PICK i \in D : p[i] = q[j]
    BY <1>2, <1>4, <2>1
  <2>3. q[f[i]] = q[j] /\ f[i] \in D
    BY <1>5, <2>2
  <2>4. f[i] = j
    BY <1>3, <1>4, <2>3
  <2> QED
    BY <2>4
<1>10. \A i \in D : rb[f[i]] = ra[i]
  BY <1>2, <1>3, <1>5
<1>11. Reordered(ra, rb, f)
  BY <1>6, <1>7, <1>8, <1>9, <1>10 DEF Reordered
<1> QED
  BY <1>1, <1>11

\* A subtree gets the same signature whatever order its spans come in, if no id is
\* repeated and no two children of a span start together (buildSubtreeStructure).
THEOREM OneSignature == Spec => []SignatureIgnoresRowOrder
<1>1. TracesInv => SignatureIgnoresRowOrder
  <2> SUFFICES ASSUME TracesInv, NEW a \in signed, NEW b \in signed,
                      a.saved = b.saved, a.span = b.span, Unambiguous(a.saved)
               PROVE  a.hash = b.hash
    BY DEF SignatureIgnoresRowOrder
  <2>1. PICK ta : /\ IsTree(ta) /\ InStartOrder(ta) /\ Origin(a.saved, FALSE, ta.rows)
                  /\ \E n \in Grounded(ta.rows) : a.span = ta.rows[n] /\ a.hash = Structure(ta, n)
    BY DEF TracesInv, Signs
  <2>2. PICK tb : /\ IsTree(tb) /\ InStartOrder(tb) /\ Origin(a.saved, FALSE, tb.rows)
                  /\ \E n \in Grounded(tb.rows) : b.span = tb.rows[n] /\ b.hash = Structure(tb, n)
    BY DEF TracesInv, Signs
  <2>3. PICK n \in Grounded(ta.rows) : a.span = ta.rows[n] /\ a.hash = Structure(ta, n)
    BY <2>1
  <2>4. PICK m \in Grounded(tb.rows) : b.span = tb.rows[m] /\ b.hash = Structure(tb, m)
    BY <2>2
  <2>5. /\ \E f : Reordered(ta.rows, tb.rows, f)
        /\ Distinct(ta.rows) /\ Distinct(tb.rows) /\ Apart(ta.rows) /\ Apart(tb.rows)
    BY <2>1, <2>2, SavedReordered
  <2>6. PICK f : Reordered(ta.rows, tb.rows, f)
    BY <2>5
  <2>7. Timed(ta.rows) /\ Timed(tb.rows)
    BY <2>1, <2>2 DEF Origin
  <2>8. n \in DOMAIN ta.rows /\ m \in DOMAIN tb.rows
    BY DEF Grounded
  <2>9. f[n] \in DOMAIN tb.rows /\ tb.rows[f[n]] = ta.rows[n]
    BY <2>6, <2>8 DEF Reordered
  <2>10. f[n] = m
    BY <2>3, <2>4, <2>5, <2>8, <2>9 DEF Distinct
  <2>11. Structure(ta, n) = Structure(tb, f[n])
    BY <2>1, <2>2, <2>5, <2>6, <2>7, StructureMoves
  <2> QED
    BY <2>3, <2>4, <2>10, <2>11
<1> QED
  BY <1>1, TracesInit, TracesStep, PTL DEF Spec

-----------------------------------------------------------------------------
(* Functions that recur over the children of a span.                       *)

\* What a function makes of the children of a span.
AtKids(tree, f, i) == [k \in DOMAIN tree.children[i] |-> f[tree.children[i][k]]]

\* A rule makes a value of every span from those of its children.
Rule(tree, V, H) ==
    V # {} /\ \A i \in Grounded(tree.rows) :
                 \A vs \in [DOMAIN tree.children[i] -> V] : H[i][vs] \in V

Follows(tree, V, H, f) ==
    /\ f \in [Grounded(tree.rows) -> V]
    /\ \A i \in Grounded(tree.rows) : f[i] = H[i][AtKids(tree, f, i)]

\* Some function follows it, since the children's subtrees are smaller.
LEMMA Recursion ==
    ASSUME NEW tree, IsTree(tree), NEW V, NEW H, Rule(tree, V, H)
    PROVE  \E f : Follows(tree, V, H, f)
<1> DEFINE rows == tree.rows
           G == Grounded(rows)
           P == {m \in Nat : \E f \in [G -> V] : \A i \in G :
                    Rank(rows, i) < m => f[i] = H[i][AtKids(tree, f, i)]}
<1>0. IsRows(rows) /\ G \subseteq DOMAIN rows
  BY DEF IsTree, Grounded
<1>1. ASSUME NEW i \in G PROVE \A k \in DOMAIN tree.children[i] : tree.children[i][k] \in Kids(rows, i)
  BY <1>0, <1>1 DEF IsTree, Lists, ToSet
<1>2. \A i \in G : Rank(rows, i) \in Nat /\ Rank(rows, i) < Len(rows)
                   /\ \A j \in Kids(rows, i) : j \in G /\ Rank(rows, j) < Rank(rows, i)
  BY <1>0, RankIs
<1>3. ASSUME NEW i \in G, NEW f, NEW g, \A j \in Kids(rows, i) : f[j] = g[j]
      PROVE  AtKids(tree, f, i) = AtKids(tree, g, i)
  BY <1>1, <1>3 DEF AtKids
<1>4. ASSUME NEW i \in G, NEW f \in [G -> V]
      PROVE  AtKids(tree, f, i) \in [DOMAIN tree.children[i] -> V]
  BY <1>1, <1>2 DEF AtKids
<1>5. \A i \in G : \A vs \in [DOMAIN tree.children[i] -> V] : H[i][vs] \in V
  BY DEF Rule
<1> PICK v0 \in V : TRUE
  BY DEF Rule
<1> HIDE DEF G, rows
<1>6. 0 \in P
  <2>1. [i \in G |-> v0] \in [G -> V] /\ \A i \in G : ~(Rank(rows, i) < 0)
    BY <1>2
  <2> QED
    BY <2>1
<1>7. ASSUME NEW m \in Nat, m \in P PROVE m + 1 \in P
  <2>1. PICK f \in [G -> V] : \A i \in G : Rank(rows, i) < m => f[i] = H[i][AtKids(tree, f, i)]
    BY <1>7
  <2> DEFINE g == [i \in G |-> IF Rank(rows, i) = m THEN H[i][AtKids(tree, f, i)] ELSE f[i]]
  <2>2. g \in [G -> V]
    BY <1>4, <1>5
  <2>3. ASSUME NEW i \in G, Rank(rows, i) < m + 1
        PROVE  g[i] = H[i][AtKids(tree, g, i)]
    <3>1. \A j \in Kids(rows, i) : f[j] = g[j]
      BY <1>2, <2>3
    <3>2. AtKids(tree, f, i) = AtKids(tree, g, i)
      <4> HIDE DEF g
      <4> QED
        BY <1>3, <3>1
    <3>3. Rank(rows, i) = m \/ Rank(rows, i) < m
      BY <1>2, <2>3
    <3>4. g[i] = H[i][AtKids(tree, f, i)]
      BY <1>2, <2>1, <3>3
    <3> QED
      BY ONLY <3>2, <3>4
  <2> HIDE DEF g
  <2> QED
    BY <2>2, <2>3
<1>8. Nat \subseteq P
  <2> HIDE DEF P
  <2> QED
    BY <1>6, <1>7, NatInd
<1>9. Len(rows) \in P
  BY <1>0, <1>8, RowsAre
<1>10. PICK f \in [G -> V] : \A i \in G : Rank(rows, i) < Len(rows) => f[i] = H[i][AtKids(tree, f, i)]
  BY <1>9
<1>11. \A i \in G : f[i] = H[i][AtKids(tree, f, i)]
  BY <1>2, <1>10
<1> QED
  BY <1>10, <1>11 DEF G, rows, Follows

\* Two sequences whose elements, place by place, are in a relation.
Matched(a, b, R) == Len(a) = Len(b) /\ \A k \in 1..Len(a) : <<a[k], b[k]>> \in R

\* They stay so when longer ones are made of them.
LEMMA ConcatMatched ==
    ASSUME NEW S, NEW T, NEW R, NEW a \in Seq(S), NEW b \in Seq(T), NEW c \in Seq(S), NEW d \in Seq(T),
           Matched(a, b, R), Matched(c, d, R)
    PROVE  Matched(a \o c, b \o d, R)
<1> DEFINE p == a \o c
           q == b \o d
<1>1. /\ Len(p) = Len(a) + Len(c)
      /\ \A k \in 1..Len(a) : p[k] = a[k]
      /\ \A k \in 1..Len(c) : p[Len(a) + k] = c[k]
      /\ \A k \in 1..Len(p) : k \in 1..Len(a) \/ \E l \in 1..Len(c) : k = Len(a) + l
  <2>1. a \in Seq(S) /\ c \in Seq(S)
    OBVIOUS
  <2> QED
    BY ONLY <2>1, ConcatIs
<1>2. /\ Len(q) = Len(b) + Len(d)
      /\ \A k \in 1..Len(b) : q[k] = b[k]
      /\ \A k \in 1..Len(d) : q[Len(b) + k] = d[k]
  <2>1. b \in Seq(T) /\ d \in Seq(T)
    OBVIOUS
  <2> QED
    BY ONLY <2>1, ConcatIs
<1> HIDE DEF p, q
<1>3. Len(p) = Len(q)
  BY <1>1, <1>2 DEF Matched
<1>4. ASSUME NEW k \in 1..Len(p) PROVE <<p[k], q[k]>> \in R
  <2>1. CASE k \in 1..Len(a)
    BY <1>1, <1>2, <2>1 DEF Matched
  <2>2. CASE \E l \in 1..Len(c) : k = Len(a) + l
    <3>1. PICK l \in 1..Len(c) : k = Len(a) + l
      BY <2>2
    <3>2. p[k] = c[l] /\ q[k] = d[l] /\ <<c[l], d[l]>> \in R
      BY <1>1, <1>2, <3>1 DEF Matched
    <3> QED
      BY <3>2
  <2> QED
    BY <1>1, <2>1, <2>2
<1> QED
  BY <1>3, <1>4 DEF Matched, p, q

\* So are the sequences put together of such sequences.
LEMMA FlattenMatched ==
    ASSUME NEW S, NEW T, NEW R, NEW ss \in Seq(Seq(S)), NEW tt \in Seq(Seq(T)), Len(ss) = Len(tt),
           \A i \in 1..Len(ss) : Matched(ss[i], tt[i], R)
    PROVE  Matched(FlattenSeq(ss), FlattenSeq(tt), R)
<1> DEFINE n == Len(ss)
<1>0. /\ n \in Nat /\ Len(tt) = n
      /\ \A i \in 1..n : ss[i] \in Seq(S) /\ tt[i] \in Seq(T)
  OBVIOUS
<1>1. CASE n = 0
  <2>1. FlattenSeq(ss) = ss /\ FlattenSeq(tt) = tt
    <3>1. Len(ss) = 0 /\ Len(tt) = 0
      BY <1>0, <1>1
    <3> QED
      BY ONLY <3>1 DEF FlattenSeq
  <2> QED
    <3>1. Len(ss) = 0 /\ Len(tt) = 0 /\ \A k : k \notin 1..0
      BY <1>0, <1>1
    <3>2. Matched(ss, tt, R)
      BY ONLY <3>1 DEF Matched
    <3> QED
      BY ONLY <2>1, <3>2
<1>2. CASE n # 0
  <2>1. PICK f : /\ FlattenSeq(ss) = f[n] /\ f[1] = ss[1]
                 /\ \A i \in 1..n : i # 1 => f[i] = f[i - 1] \o ss[i]
    BY <1>2, FlattenIs
  <2>2. PICK g : /\ FlattenSeq(tt) = g[n] /\ g[1] = tt[1]
                 /\ \A i \in 1..n : i # 1 => g[i] = g[i - 1] \o tt[i]
    <3>1. tt \in Seq(Seq(T)) /\ Len(tt) # 0 /\ Len(tt) = n
      BY <1>0, <1>2
    <3>2. PICK g : /\ FlattenSeq(tt) = g[Len(tt)] /\ g[1] = tt[1]
                   /\ \A i \in 1..Len(tt) : i # 1 => g[i] = g[i - 1] \o tt[i]
      BY ONLY <3>1, FlattenIs
    <3> HIDE DEF n
    <3> QED
      BY ONLY <3>1, <3>2
  <2> DEFINE Good(k) == f[k] \in Seq(S) /\ g[k] \in Seq(T) /\ Matched(f[k], g[k], R)
             P == {k \in Nat : k + 1 <= n => Good(k + 1)}
  <2>3. \A i \in 1..n : Matched(ss[i], tt[i], R)
    OBVIOUS
  <2> HIDE DEF n
  <2>4. 0 \in P
    <3>1. 1 \in 1..n /\ 0 + 1 = 1
      BY <1>0, <1>2
    <3>2. Good(1)
      BY <1>0, <2>1, <2>2, <2>3, <3>1
    <3> QED
      BY <3>1, <3>2
  <2>5. ASSUME NEW k \in Nat, k \in P PROVE k + 1 \in P
    <3> SUFFICES ASSUME k + 1 + 1 <= n PROVE Good(k + 1 + 1)
      OBVIOUS
    <3>0. k + 1 <= n => Good(k + 1)
      BY <2>5
    <3> DEFINE l == k + 1
    <3>1. l <= n /\ l + 1 \in 1..n /\ l + 1 # 1 /\ (l + 1) - 1 = l
      BY <1>0
    <3>2. Good(l)
      BY <3>0, <3>1
    <3> HIDE DEF l
    <3>3. /\ f[l + 1] = f[l] \o ss[l + 1] /\ ss[l + 1] \in Seq(S)
          /\ g[l + 1] = g[l] \o tt[l + 1] /\ tt[l + 1] \in Seq(T)
          /\ Matched(ss[l + 1], tt[l + 1], R)
      BY <1>0, <2>1, <2>2, <2>3, <3>1
    <3>4. Matched(f[l] \o ss[l + 1], g[l] \o tt[l + 1], R)
      BY <3>2, <3>3, ConcatMatched
    <3>5. f[l] \o ss[l + 1] \in Seq(S) /\ g[l] \o tt[l + 1] \in Seq(T)
      BY <3>2, <3>3
    <3>6. Good(l + 1)
      BY <3>3, <3>4, <3>5
    <3> QED
      BY <3>6 DEF l
  <2>6. Nat \subseteq P
    <3> HIDE DEF P
    <3> QED
      BY <2>4, <2>5, NatInd
  <2>7. n - 1 \in Nat /\ (n - 1) + 1 = n /\ n <= n
    BY <1>0, <1>2
  <2>8. Good(n)
    <3>1. n - 1 \in P
      BY <2>6, <2>7
    <3> QED
      BY <2>7, <3>1
  <2> QED
    BY <2>1, <2>2, <2>8
<1> QED
  BY <1>1, <1>2

-----------------------------------------------------------------------------
(* The folded lines of a flame graph.                                      *)

Names(tree) == {tree.rows[i].name : i \in DOMAIN tree.rows}

Lines(tree) ==
    [stack : Seq(Names(tree)), value : {Micros(tree.rows[i].dur) : i \in DOMAIN tree.rows}]

\* The lines of a frame from those of its children (collectFolded).
LinesFrom(tree, i, vs) ==
    LET below == FlattenSeq(vs)
        me == tree.rows[i]
    IN  <<[stack |-> <<me.name>>, value |-> Micros(me.dur)]>>
        \o [l \in DOMAIN below |-> [below[l] EXCEPT !.stack = <<me.name>> \o below[l].stack]]

FirstLine(tree, i) == [stack |-> <<tree.rows[i].name>>, value |-> Micros(tree.rows[i].dur)]

\* The children's lines with the frame's name in front.
Fronted(tree, i, below, more) ==
    /\ below \in Seq(Lines(tree)) /\ more \in Seq(Lines(tree)) /\ Len(more) = Len(below)
    /\ \A l \in 1..Len(more) : more[l].stack = <<tree.rows[i].name>> \o below[l].stack

\* A frame's lines are its own and these.
LEMMA LinesFromIs ==
    ASSUME NEW tree, NEW i \in DOMAIN tree.rows, NEW n \in Nat, NEW vs \in [1..n -> Seq(Lines(tree))]
    PROVE  /\ \E more : /\ Fronted(tree, i, FlattenSeq(vs), more)
                        /\ LinesFrom(tree, i, vs) = <<FirstLine(tree, i)>> \o more
           /\ <<FirstLine(tree, i)>> \in Seq(Lines(tree))
           /\ LinesFrom(tree, i, vs) \in Seq(Lines(tree))
<1> DEFINE L == Lines(tree)
           below == FlattenSeq(vs)
           name == tree.rows[i].name
           first == [stack |-> <<name>>, value |-> Micros(tree.rows[i].dur)]
           more == [l \in DOMAIN below |-> [below[l] EXCEPT !.stack = <<name>> \o below[l].stack]]
<1>1. below \in Seq(L)
  <2>1. vs \in Seq(Seq(L))
    <3> DEFINE X == Seq(L)
    <3>1. vs \in [1..n -> X]
      OBVIOUS
    <3> HIDE DEF X
    <3> QED
      BY <3>1
  <2> QED
    BY <2>1, FlattenLists
<1>2. name \in Names(tree)
  BY DEF Names
<1>3. first \in L
  BY <1>2 DEF Lines
<1>4. LinesFrom(tree, i, vs) = <<first>> \o more
  BY DEF LinesFrom
<1> DEFINE m == Len(below)
<1>5. DOMAIN below = 1..m /\ m \in Nat /\ \A l \in 1..m : below[l] \in L
  BY <1>1
<1> HIDE DEF below, m
<1>6. ASSUME NEW l \in 1..m
      PROVE  more[l] \in L /\ more[l].stack = <<name>> \o below[l].stack
  <2> DEFINE b == below[l]
             s == <<name>> \o b.stack
  <2>1. b \in [stack : Seq(Names(tree)), value : {Micros(tree.rows[j].dur) : j \in DOMAIN tree.rows}]
    BY <1>5 DEF Lines
  <2>2. more[l] = [b EXCEPT !.stack = s]
    BY <1>5
  <2>3. s \in Seq(Names(tree))
    <3>1. b.stack \in Seq(Names(tree)) /\ <<name>> \in Seq(Names(tree))
      BY <1>2, <2>1
    <3> HIDE DEF b
    <3> QED
      BY <3>1
  <2> HIDE DEF more, b, s
  <2>4. more[l].stack = s
    BY <2>1, <2>2
  <2>5. more[l] \in L
    BY <2>1, <2>2, <2>3 DEF Lines
  <2> QED
    BY <2>4, <2>5 DEF b, s
<1>7. DOMAIN more = 1..m /\ more = [l \in 1..m |-> more[l]]
  BY <1>5
<1> HIDE DEF more
<1>8. more \in Seq(L) /\ Len(more) = m
  <2> HIDE DEF L
  <2>1. more \in [1..m -> L]
    BY <1>6, <1>7
  <2>2. more \in Seq(L)
    BY <1>5, <2>1
  <2> QED
    BY <1>5, <1>7, <2>2
<1>9. <<first>> \in Seq(L)
  <2> HIDE DEF first, L
  <2> QED
    BY <1>3
<1>10. <<first>> \o more \in Seq(L)
  <2> HIDE DEF first, L
  <2> QED
    BY <1>8, <1>9, ConcatIs
<1>11. first = FirstLine(tree, i)
  BY DEF FirstLine
<1>12. Fronted(tree, i, below, more)
  BY <1>1, <1>6, <1>8 DEF Fronted, m
<1> HIDE DEF first
<1> QED
  BY <1>4, <1>9, <1>10, <1>11, <1>12 DEF below

\* The lines of all frames, of which Folded takes the root's.
FoldedLines(tree) ==
    CHOOSE f : f = [n \in Grounded(tree.rows) |-> LinesFrom(tree, n, AtKids(tree, f, n))]

\* They follow the rule and are sequences of lines.
LEMMA FoldedLinesIs ==
    ASSUME NEW tree, IsTree(tree)
    PROVE  /\ Folded(tree) = FoldedLines(tree)[tree.root]
           /\ \A n \in Grounded(tree.rows) :
                /\ FoldedLines(tree)[n] = LinesFrom(tree, n, AtKids(tree, FoldedLines(tree), n))
                /\ FoldedLines(tree)[n] \in Seq(Lines(tree))
<1> DEFINE G == Grounded(tree.rows)
           V == Seq(Lines(tree))
           H == [i \in G |-> [vs \in [DOMAIN tree.children[i] -> V] |-> LinesFrom(tree, i, vs)]]
           L == FoldedLines(tree)
<1>0. IsRows(tree.rows) /\ G \subseteq DOMAIN tree.rows
  BY DEF IsTree, Grounded
<1>1. \A i \in G : \A k \in DOMAIN tree.children[i] : tree.children[i][k] \in Kids(tree.rows, i)
  BY <1>0 DEF IsTree, Lists, ToSet
<1>2. \A i \in G : \E n \in Nat : DOMAIN tree.children[i] = 1..n
  <2> SUFFICES ASSUME NEW i \in G PROVE \E n \in Nat : DOMAIN tree.children[i] = 1..n
    OBVIOUS
  <2>1. tree.children[i] \in Seq(Kids(tree.rows, i))
    BY <1>0 DEF IsTree, Lists
  <2>2. DOMAIN tree.children[i] = 1..Len(tree.children[i]) /\ Len(tree.children[i]) \in Nat
    BY <2>1
  <2> QED
    BY <2>2
<1>3. ASSUME NEW i \in G, NEW vs \in [DOMAIN tree.children[i] -> V]
      PROVE  LinesFrom(tree, i, vs) \in V
  <2>1. PICK n \in Nat : DOMAIN tree.children[i] = 1..n
    BY <1>2
  <2>2. i \in DOMAIN tree.rows /\ vs \in [1..n -> V]
    BY <1>0, <2>1
  <2> QED
    BY <2>2, LinesFromIs
<1>4. \E f : f = [n \in G |-> LinesFrom(tree, n, AtKids(tree, f, n))]
  <2>1. <<>> \in V
    OBVIOUS
  <2>2. \A i \in G : \A vs \in [DOMAIN tree.children[i] -> V] : H[i][vs] = LinesFrom(tree, i, vs) /\ H[i][vs] \in V
    BY <1>3
  <2>3. PICK f \in [G -> V] : \A i \in G : f[i] = H[i][AtKids(tree, f, i)]
    <3>1. Rule(tree, V, H)
      BY <2>1, <2>2 DEF Rule
    <3> HIDE DEF H, V
    <3> QED
      BY <3>1, Recursion DEF Follows
  <2>4. \A i \in G : AtKids(tree, f, i) \in [DOMAIN tree.children[i] -> V]
    <3>1. \A i \in G : \A j \in Kids(tree.rows, i) : j \in G
      BY <1>0, RankIs
    <3> HIDE DEF V
    <3> QED
      BY <1>1, <3>1 DEF AtKids
  <2>5. \A i \in G : f[i] = LinesFrom(tree, i, AtKids(tree, f, i))
    <3> HIDE DEF H, V
    <3> QED
      BY <2>2, <2>3, <2>4
  <2>6. f = [n \in G |-> f[n]]
    OBVIOUS
  <2>7. f = [n \in G |-> LinesFrom(tree, n, AtKids(tree, f, n))]
    BY <2>5, <2>6
  <2> QED
    BY <2>7
<1>5. L = [n \in G |-> LinesFrom(tree, n, AtKids(tree, L, n))]
  BY <1>4, Zenon DEF FoldedLines
<1>6. Folded(tree) = L[tree.root]
  BY Zenon DEF Folded, FoldedLines, LinesFrom, AtKids
<1> HIDE DEF L
<1>7. \A n \in G : L[n] = LinesFrom(tree, n, AtKids(tree, L, n))
  BY <1>5
<1> DEFINE Q == {n \in G : L[n] \in V}
<1>8. ASSUME NEW n \in G, Kids(tree.rows, n) \subseteq Q PROVE n \in Q
  <2>1. AtKids(tree, L, n) \in [DOMAIN tree.children[n] -> V]
    <3> HIDE DEF V
    <3> QED
      BY <1>1, <1>8 DEF AtKids
  <2>2. LinesFrom(tree, n, AtKids(tree, L, n)) \in V
    BY <1>3, <2>1
  <2> QED
    BY <1>7, <2>2
<1>9. Q \in SUBSET G
  OBVIOUS
<1>10. Q = G
  <2> HIDE DEF Q
  <2> QED
    BY <1>0, <1>8, <1>9, FromBelow
<1> QED
  BY <1>6, <1>7, <1>10 DEF L

\* Sequences with the same elements are the same.
LEMMA SameSeq ==
    ASSUME NEW S, NEW T, NEW s \in Seq(S), NEW t \in Seq(T), Len(s) = Len(t),
           \A k \in 1..Len(s) : s[k] = t[k]
    PROVE  s = t
<1> DEFINE n == Len(s)
<1>1. s = [k \in 1..n |-> s[k]] /\ t = [k \in 1..n |-> t[k]] /\ \A k \in 1..n : s[k] = t[k]
  OBVIOUS
<1> HIDE DEF n
<1>2. [k \in 1..n |-> s[k]] = [k \in 1..n |-> t[k]]
  BY <1>1
<1> QED
  BY ONLY <1>1, <1>2

\* The names above a span.
Handed(tree, i) ==
    IF ParentOf(tree.rows, i) = NoSpan THEN <<>> ELSE Stack(tree, ParentOf(tree.rows, i))

UpFrom(rows, i) == <<i>> \o Above(rows, i)

\* A stack has as many names as there are spans on the way up, in the reverse order.
LEMMA StackNames ==
    ASSUME NEW tree, IsTree(tree), NEW i \in Grounded(tree.rows)
    PROVE  /\ UpFrom(tree.rows, i) \in Seq(DOMAIN tree.rows)
           /\ Stack(tree, i) \in Seq(Names(tree)) /\ Len(Stack(tree, i)) = Len(UpFrom(tree.rows, i))
           /\ \A k \in 1..Len(UpFrom(tree.rows, i)) :
                Stack(tree, i)[k] =
                  tree.rows[UpFrom(tree.rows, i)[Len(UpFrom(tree.rows, i)) + 1 - k]].name
<1> DEFINE rows == tree.rows
           up == UpFrom(rows, i)
           m == Len(up)
           s == Stack(tree, i)
<1>1. IsRows(rows) /\ i \in DOMAIN rows
  BY DEF IsTree, Grounded
<1>2. up \in Seq(DOMAIN rows)
  <2> DEFINE D == DOMAIN rows
  <2>1. Above(rows, i) \in Seq(D)
    BY <1>1, AboveLists
  <2>2. <<i>> \in Seq(D)
    BY <1>1, OneIs
  <2> HIDE DEF D
  <2>3. <<i>> \o Above(rows, i) \in Seq(D)
    BY <2>1, <2>2, ConcatIs
  <2> QED
    BY <2>3 DEF UpFrom, D
<1>3. s = [k \in DOMAIN up |-> rows[up[m + 1 - k]].name]
  BY DEF Stack, UpFrom
<1> HIDE DEF up, s
<1>4. DOMAIN up = 1..m /\ m \in Nat /\ \A k \in 1..m : up[k] \in DOMAIN rows
  BY <1>2
<1> HIDE DEF m
<1>5. ASSUME NEW k \in 1..m PROVE s[k] = rows[up[m + 1 - k]].name /\ s[k] \in Names(tree)
  <2>1. m + 1 - k \in 1..m
    BY <1>4
  <2>2. s[k] = rows[up[m + 1 - k]].name
    BY <1>3, <1>4
  <2> QED
    BY <1>4, <2>1, <2>2 DEF Names
<1>6. s \in [1..m -> Names(tree)]
  BY <1>3, <1>4, <1>5
<1>7. s \in Seq(Names(tree)) /\ Len(s) = m
  BY <1>4, <1>6
<1> QED
  BY <1>2, <1>5, <1>7 DEF m, up, s

\* The stack of a span is that of its parent, and its name.
LEMMA StackIs ==
    ASSUME NEW tree, IsTree(tree), NEW i \in Grounded(tree.rows)
    PROVE  /\ Stack(tree, i) = Handed(tree, i) \o <<tree.rows[i].name>>
           /\ Handed(tree, i) \in Seq(Names(tree)) /\ tree.rows[i].name \in Names(tree)
           /\ Stack(tree, i) \in Seq(Names(tree))
<1> DEFINE rows == tree.rows
           N == Names(tree)
           p == ParentOf(rows, i)
           name == rows[i].name
           up == UpFrom(rows, i)
           s == Stack(tree, i)
<1>1. IsRows(rows) /\ i \in DOMAIN rows /\ name \in N
  BY DEF IsTree, Grounded, Names
<1>2. /\ s \in Seq(N) /\ Len(s) = Len(up) /\ up \in Seq(DOMAIN rows)
      /\ \A k \in 1..Len(up) : s[k] = rows[up[Len(up) + 1 - k]].name
  BY StackNames
<1>3. CASE p = NoSpan
  <2>1. up = <<i>>
    <3>1. Above(rows, i) = <<>>
      BY <1>1, <1>3, AboveIs
    <3>2. <<i>> \o <<>> = <<i>>
      OBVIOUS
    <3> QED
      BY <3>1, <3>2 DEF UpFrom
  <2>2. Len(up) = 1 /\ up[1] = i
    BY <2>1
  <2> HIDE DEF up
  <2>3. Len(s) = 1 /\ s[1] = name
    <3>1. 1 \in 1..Len(up) /\ Len(up) + 1 - 1 = 1
      BY <2>2
    <3>2. s[1] = rows[up[Len(up) + 1 - 1]].name
      BY <1>2, <3>1
    <3> QED
      BY <1>2, <2>2, <3>1, <3>2
  <2> HIDE DEF s, N, name
  <2>4. s = <<name>>
    <3> DEFINE t == <<name>>
    <3>1. t \in Seq(N) /\ Len(t) = 1 /\ t[1] = name
      BY <1>1
    <3>2. \A k \in 1..Len(s) : k = 1
      BY <2>3
    <3> HIDE DEF t
    <3>3. s = t
      BY <1>2, <2>3, <3>1, <3>2, SameSeq
    <3> QED
      BY <3>3 DEF t
  <2>5. Handed(tree, i) = <<>> /\ <<>> \in Seq(N) /\ <<>> \o <<name>> = <<name>>
    BY <1>1, <1>3 DEF Handed
  <2> QED
    BY <1>1, <1>2, <2>4, <2>5 DEF s, N, name
<1>4. CASE p # NoSpan
  <2> DEFINE v == UpFrom(rows, p)
             r == Stack(tree, p)
             n == Len(v)
             t == r \o <<name>>
  <2>1. p \in Grounded(rows)
    BY <1>1, <1>4, GroundedStep
  <2>2. /\ r \in Seq(N) /\ Len(r) = n /\ v \in Seq(DOMAIN rows) /\ n \in Nat
        /\ \A k \in 1..n : r[k] = rows[v[n + 1 - k]].name
    BY <2>1, StackNames
  <2>3. up = <<i>> \o v
    BY <1>1, <1>4, AboveIs DEF UpFrom
  <2>4. Len(up) = n + 1 /\ up[1] = i /\ \A k \in 1..n : up[k + 1] = v[k]
    <3> DEFINE D == DOMAIN rows
               w == <<i>>
    <3>1. w \in Seq(D) /\ Len(w) = 1
      BY <1>1, OneIs
    <3>2. w[1] = i /\ 1 \in 1..1 /\ v \in Seq(D)
      BY <2>2
    <3> HIDE DEF v, D, w
    <3>3. Len(w \o v) = 1 + n /\ (w \o v)[1] = i /\ \A k \in 1..n : (w \o v)[1 + k] = v[k]
      <4>1. /\ Len(w \o v) = Len(w) + Len(v)
            /\ \A k \in 1..Len(w) : (w \o v)[k] = w[k]
            /\ \A k \in 1..Len(v) : (w \o v)[Len(w) + k] = v[k]
        <5>1. w \in Seq(D) /\ v \in Seq(D)
          BY ONLY <3>1, <3>2
        <5>2. Len(w \o v) = Len(w) + Len(v)
          BY ONLY <5>1, ConcatIs
        <5>3. \A k \in 1..Len(w) : (w \o v)[k] = w[k]
          BY ONLY <5>1, ConcatIs
        <5>4. \A k \in 1..Len(v) : (w \o v)[Len(w) + k] = v[k]
          BY ONLY <5>1, ConcatIs
        <5> QED
          BY ONLY <5>2, <5>3, <5>4
      <4> QED
        BY ONLY <3>1, <3>2, <4>1
    <3>4. up = w \o v
      BY <2>3 DEF w
    <3>5. n \in Nat
      BY <2>2
    <3> HIDE DEF up, n
    <3>6. 1 + n = n + 1 /\ \A k \in 1..n : 1 + k = k + 1
      BY <3>5
    <3> QED
      BY <3>3, <3>4, <3>6
  <2>5. t \in Seq(N) /\ Len(t) = n + 1 /\ t[n + 1] = name /\ \A k \in 1..n : t[k] = r[k]
    <3> HIDE DEF r, N, name, v
    <3> DEFINE w == <<name>>
    <3>1. w \in Seq(N) /\ Len(w) = 1
      BY <1>1, OneIs
    <3>2. w[1] = name /\ 1 \in 1..1 /\ r \in Seq(N) /\ Len(r) = n
      BY <2>2
    <3> HIDE DEF w, n
    <3> QED
      BY <3>1, <3>2, ConcatIs DEF w
  <2> HIDE DEF up, v, r, n, t, s
  <2>6. ASSUME NEW k \in 1..(n + 1) PROVE s[k] = t[k]
    <3>1. s[k] = rows[up[n + 2 - k]].name
      <4>1. n + 1 + 1 - k = n + 2 - k
        BY <2>2
      <4> QED
        BY <1>2, <2>4, <4>1
    <3>2. CASE k = n + 1
      BY <2>2, <2>4, <2>5, <3>1, <3>2
    <3>3. CASE k # n + 1
      <4>0. n \in Nat
        BY <2>2
      <4>1. k \in 1..n /\ n + 1 - k \in 1..n /\ n + 2 - k = (n + 1 - k) + 1
        BY ONLY <3>3, <4>0, k \in 1..(n + 1)
      <4>2. up[n + 2 - k] = v[n + 1 - k]
        BY <2>4, <4>1
      <4> QED
        BY <2>2, <2>5, <3>1, <4>1, <4>2
    <3> QED
      BY <3>2, <3>3
  <2>7. s = t
    BY <1>2, <2>4, <2>5, <2>6, SameSeq
  <2>8. Handed(tree, i) = r
    BY <1>4 DEF Handed, r
  <2> QED
    BY <1>1, <1>2, <2>2, <2>7, <2>8 DEF s, t
<1> QED
  BY <1>3, <1>4

\* A span and a line with its stack but for the names that come before.
Stacked(tree, before) ==
    {z \in (DOMAIN tree.rows) \X Lines(tree) : Stack(tree, z[1]) = before \o z[2].stack}

\* What the frame has been handed comes before its line and those of its children.
LEMMA FrontName ==
    ASSUME NEW tree, IsTree(tree), NEW i \in Grounded(tree.rows),
           NEW n \in DOMAIN tree.rows, NEW below, <<n, below>> \in Stacked(tree, Stack(tree, i)),
           NEW line \in Lines(tree), line.stack = <<tree.rows[i].name>> \o below.stack
    PROVE  <<n, line>> \in Stacked(tree, Handed(tree, i))
<1> DEFINE N == Names(tree)
           a == Handed(tree, i)
           b == <<tree.rows[i].name>>
           c == below.stack
<1>1. Stack(tree, n) = Stack(tree, i) \o c /\ below \in Lines(tree)
  BY DEF Stacked
<1>2. Stack(tree, i) = a \o b /\ a \in Seq(N) /\ tree.rows[i].name \in N
  BY StackIs
<1>3. b \in Seq(N)
  BY <1>2
<1>4. c \in Seq(N)
  BY <1>1 DEF Lines
<1> HIDE DEF a, b, c, N
<1>5. (a \o b) \o c = a \o (b \o c)
  BY <1>2, <1>3, <1>4, ConcatAssociative
<1>6. Stack(tree, n) = a \o line.stack
  BY <1>1, <1>2, <1>5 DEF b, c
<1> QED
  BY <1>6 DEF Stacked, a

\* The lines go with the walk, span by span.
LEMMA FoldedMatches ==
    ASSUME NEW tree, IsTree(tree)
    PROVE  \A i \in Grounded(tree.rows) :
             Matched(Walk(tree, i), FoldedLines(tree)[i], Stacked(tree, Handed(tree, i)))
<1> DEFINE rows == tree.rows
           G == Grounded(rows)
           D == DOMAIN rows
           L == FoldedLines(tree)
           Q == {i \in G : Matched(Walk(tree, i), L[i], Stacked(tree, Handed(tree, i)))}
<1>0. IsRows(rows) /\ G \subseteq D /\ NoSpan \notin D
  BY RowsAre DEF IsTree, Grounded
<1>1. ASSUME NEW i \in G, Kids(rows, i) \subseteq Q PROVE i \in Q
  <2> DEFINE o == tree.children[i]
             n == Len(o)
             ws == [k \in 1..n |-> Walk(tree, o[k])]
             vs == AtKids(tree, L, i)
             S == Stack(tree, i)
             name == rows[i].name
             first == FirstLine(tree, i)
             R == Stacked(tree, Handed(tree, i))
  <2>0. i \in D
    BY <1>0
  <2>1. n \in Nat /\ DOMAIN o = 1..n /\ \A k \in 1..n : o[k] \in Kids(rows, i)
    BY <2>0 DEF IsTree, Lists, ToSet
  <2>2. ASSUME NEW k \in 1..n
        PROVE  /\ ws[k] \in Seq(D) /\ vs[k] \in Seq(Lines(tree))
               /\ Matched(ws[k], vs[k], Stacked(tree, S))
    <3>1. o[k] \in Q /\ o[k] \in G /\ ParentOf(rows, o[k]) = i
      BY <1>1, <2>1 DEF Kids
    <3>2. Handed(tree, o[k]) = S
      BY <1>0, <2>0, <3>1 DEF Handed
    <3>3. Matched(Walk(tree, o[k]), L[o[k]], Stacked(tree, S))
      BY <3>1, <3>2
    <3>4. ws[k] = Walk(tree, o[k]) /\ vs[k] = L[o[k]]
      BY <2>1 DEF AtKids
    <3>5. Walk(tree, o[k]) \in Seq(D)
      <4>1. Walk(tree, o[k]) \in Seq(Below(rows, o[k])) /\ Below(rows, o[k]) \subseteq D
        BY <1>0, <3>1, WalkLists DEF Lists, Below
      <4> QED
        BY <4>1
    <3>6. L[o[k]] \in Seq(Lines(tree))
      BY <3>1, FoldedLinesIs
    <3> HIDE DEF ws, vs, o, L
    <3> QED
      BY <3>3, <3>4, <3>5, <3>6
  <2>3. DOMAIN vs = 1..n
    BY <2>1 DEF AtKids
  <2>4. vs = [k \in 1..n |-> vs[k]]
    BY <2>1 DEF AtKids
  <2>5. ws = [k \in 1..n |-> ws[k]]
    OBVIOUS
  <2>6. L[i] = LinesFrom(tree, i, vs)
    BY FoldedLinesIs
  <2>7. Walk(tree, i) = <<i>> \o FlattenSeq(ws)
    <3>1. Walk(tree, i) = <<i>> \o FlattenSeq([k \in DOMAIN o |-> Walk(tree, o[k])])
      BY WalkIs
    <3> QED
      BY <2>1, <3>1
  <2> HIDE DEF ws, vs, n
  <2>8. /\ ws \in Seq(Seq(D)) /\ Len(ws) = n
        /\ vs \in Seq(Seq(Lines(tree))) /\ Len(vs) = n /\ vs \in [1..n -> Seq(Lines(tree))]
    <3> DEFINE A == Seq(D)  B == Seq(Lines(tree))
    <3>1. \A k \in 1..n : ws[k] \in A /\ vs[k] \in B
      BY <2>2
    <3> HIDE DEF A, B
    <3>2. ws \in [1..n -> A] /\ vs \in [1..n -> B]
      BY <2>4, <2>5, <3>1
    <3>3. ws \in Seq(A) /\ vs \in Seq(B)
      BY <2>1, <3>2
    <3>4. Len(ws) = n /\ Len(vs) = n
      BY <2>1, <3>2, <3>3
    <3> QED
      BY <3>2, <3>3, <3>4 DEF A, B
  <2> DEFINE fw == FlattenSeq(ws)
             fv == FlattenSeq(vs)
  <2>9. Matched(fw, fv, Stacked(tree, S))
    <3>1. \A k \in 1..Len(ws) : Matched(ws[k], vs[k], Stacked(tree, S))
      BY <2>2, <2>8
    <3> HIDE DEF S
    <3> QED
      BY <2>8, <3>1, FlattenMatched
  <2>10. fw \in Seq(D)
    BY <2>8, FlattenLists
  <2>11. PICK more : Fronted(tree, i, fv, more) /\ L[i] = <<first>> \o more
                     /\ <<first>> \in Seq(Lines(tree))
    <3>1. i \in DOMAIN tree.rows /\ n \in Nat /\ vs \in [1..n -> Seq(Lines(tree))]
      BY <2>0, <2>1, <2>8
    <3>2. PICK more : /\ Fronted(tree, i, FlattenSeq(vs), more)
                      /\ LinesFrom(tree, i, vs) = <<first>> \o more
      BY ONLY <3>1, LinesFromIs
    <3>3. <<first>> \in Seq(Lines(tree))
      BY ONLY <3>1, LinesFromIs
    <3> HIDE DEF first, name, L
    <3> QED
      BY <2>6, <3>2, <3>3
  <2> HIDE DEF fw, fv
  <2>16. /\ more \in Seq(Lines(tree)) /\ fv \in Seq(Lines(tree)) /\ Len(more) = Len(fv)
         /\ \A l \in 1..Len(more) : more[l].stack = <<name>> \o fv[l].stack
    BY <2>11 DEF Fronted
  <2>12. Matched(fw, more, R)
    <3>1. Len(fw) = Len(more) /\ Len(fw) \in Nat
      BY <2>9, <2>10, <2>16 DEF Matched
    <3>2. ASSUME NEW k \in 1..Len(fw) PROVE <<fw[k], more[k]>> \in R
      <4>1. fw[k] \in D /\ more[k] \in Lines(tree)
        BY <2>10, <2>16, <3>1
      <4>2. <<fw[k], fv[k]>> \in Stacked(tree, S)
        BY <2>9 DEF Matched
      <4>3. more[k].stack = <<name>> \o fv[k].stack
        BY <2>16, <3>1
      <4> QED
        BY <4>1, <4>2, <4>3, FrontName
    <3> QED
      BY <3>1, <3>2 DEF Matched
  <2>13. Matched(<<i>>, <<first>>, R) /\ <<i>> \in Seq(D)
    <3>1. first \in Lines(tree) /\ first.stack = <<name>>
      BY <2>0 DEF Lines, Names, FirstLine
    <3>2. Stack(tree, i) = Handed(tree, i) \o <<name>>
      BY StackIs
    <3>3. <<i, first>> \in R
      BY <2>0, <3>1, <3>2 DEF Stacked
    <3> HIDE DEF first, R
    <3>4. Matched(<<i>>, <<first>>, R)
      BY <3>3 DEF Matched
    <3> QED
      BY <2>0, <3>4, OneIs
  <2>14. Matched(<<i>> \o fw, <<first>> \o more, R)
    <3> DEFINE a == <<i>>  b == <<first>>
    <3>1. a \in Seq(D) /\ b \in Seq(Lines(tree)) /\ Matched(a, b, R)
      BY <2>11, <2>13
    <3> HIDE DEF a, b, R
    <3>2. Matched(a \o fw, b \o more, R)
      BY <2>10, <2>12, <2>16, <3>1, ConcatMatched
    <3> QED
      BY <3>2 DEF a, b
  <2>15. Matched(Walk(tree, i), L[i], R)
    BY <2>7, <2>11, <2>14 DEF fw
  <2> QED
    BY <2>15
<1>2. Q \in SUBSET G
  OBVIOUS
<1>3. Q = G
  <2> HIDE DEF Q
  <2> QED
    BY <1>0, <1>1, <1>2, FromBelow
<1> QED
  BY <1>3

\* The names above a span are one for each span of the walk, whatever was written before
\* (ToFolded, collectFolded).
THEOREM LinesShowStacks == Spec => []FoldedShowsStacks
<1>1. TracesInv => FoldedShowsStacks
  <2> SUFFICES ASSUME TracesInv, NEW c \in Callers, Shown(c, "folded")
               PROVE  LET tree == caller[c].tree
                          lines == caller[c].body.lines
                          walk == Walk(tree, tree.root)
                      IN  /\ Len(lines) = Len(walk)
                          /\ \A k \in DOMAIN walk : lines[k].stack = Stack(tree, walk[k])
    BY DEF FoldedShowsStacks
  <2> DEFINE tree == caller[c].tree
             lines == caller[c].body.lines
             walk == Walk(tree, tree.root)
  <2>1. IsTree(tree) /\ tree.root # NoSpan /\ lines = Folded(tree)
    BY DEF TracesInv, Carries, Answered, Drawn, Shown
  <2>2. tree.root \in Grounded(tree.rows) /\ ParentOf(tree.rows, tree.root) = NoSpan
    BY <2>1, RootIs, GroundedStep DEF IsTree
  <2>3. lines = FoldedLines(tree)[tree.root] /\ lines \in Seq(Lines(tree))
    BY <2>1, <2>2, FoldedLinesIs
  <2>4. Handed(tree, tree.root) = <<>>
    BY <2>2 DEF Handed
  <2>5. Matched(walk, lines, Stacked(tree, <<>>))
    BY <2>1, <2>2, <2>3, <2>4, FoldedMatches
  <2>6. DOMAIN walk = 1..Len(walk)
    BY <2>1, <2>2, WalkLists DEF Lists
  <2> HIDE DEF walk, lines, tree
  <2>7. ASSUME NEW k \in DOMAIN walk PROVE lines[k].stack = Stack(tree, walk[k])
    <3>1. <<walk[k], lines[k]>> \in Stacked(tree, <<>>)
      BY <2>5, <2>6 DEF Matched
    <3>2. Stack(tree, walk[k]) = <<>> \o lines[k].stack /\ lines[k] \in Lines(tree)
      BY <3>1 DEF Stacked
    <3>3. lines[k].stack \in Seq(Names(tree))
      BY <3>2 DEF Lines
    <3>4. <<>> \o lines[k].stack = lines[k].stack
      BY <3>3
    <3> QED
      BY <3>2, <3>4
  <2> QED
    BY <2>5, <2>7 DEF Matched, walk, lines, tree
<1> QED
  BY TracesInit, TracesStep, <1>1, PTL DEF Spec

-----------------------------------------------------------------------------
(* The statistics of a flame graph.                                        *)

\* The frames of a subtree, left one after the other (collectFrameStats).
LeftFrom(i, vs) == FlattenSeq(vs) \o <<i>>

Posts(tree) == CHOOSE f : f = [n \in Grounded(tree.rows) |-> LeftFrom(n, AtKids(tree, f, n))]

\* Leaving takes those of the root.
LEMMA PostsIs ==
    ASSUME NEW tree, IsTree(tree)
    PROVE  /\ Leaving(tree) = Posts(tree)[tree.root]
           /\ \A n \in Grounded(tree.rows) :
                /\ Posts(tree)[n] = LeftFrom(n, AtKids(tree, Posts(tree), n))
                /\ AtKids(tree, Posts(tree), n) \in Seq(Seq(DOMAIN tree.rows))
                /\ Len(AtKids(tree, Posts(tree), n)) = Len(tree.children[n])
                /\ Posts(tree)[n] \in Seq(DOMAIN tree.rows)
<1> DEFINE G == Grounded(tree.rows)
           V == Seq(DOMAIN tree.rows)
           H == [i \in G |-> [vs \in [DOMAIN tree.children[i] -> V] |-> LeftFrom(i, vs)]]
           L == Posts(tree)
<1>0. IsRows(tree.rows) /\ G \subseteq DOMAIN tree.rows
  BY DEF IsTree, Grounded
<1>1. \A i \in G : \A k \in DOMAIN tree.children[i] : tree.children[i][k] \in Kids(tree.rows, i)
  BY <1>0 DEF IsTree, Lists, ToSet
<1>2. \A i \in G : Len(tree.children[i]) \in Nat /\ DOMAIN tree.children[i] = 1..Len(tree.children[i])
  <2> SUFFICES ASSUME NEW i \in G
               PROVE  Len(tree.children[i]) \in Nat /\ DOMAIN tree.children[i] = 1..Len(tree.children[i])
    OBVIOUS
  <2>1. tree.children[i] \in Seq(Kids(tree.rows, i))
    BY <1>0 DEF IsTree, Lists
  <2> QED
    BY <2>1
<1>3. ASSUME NEW i \in G, NEW vs \in [DOMAIN tree.children[i] -> V]
      PROVE  vs \in Seq(V) /\ Len(vs) = Len(tree.children[i]) /\ LeftFrom(i, vs) \in V
  <2> DEFINE n == Len(tree.children[i])
  <2>1. n \in Nat /\ vs \in [1..n -> V] /\ i \in DOMAIN tree.rows
    BY <1>0, <1>2
  <2>2. vs \in Seq(V) /\ Len(vs) = n
    <3> HIDE DEF V, n
    <3> QED
      BY <2>1
  <2>3. FlattenSeq(vs) \in V /\ <<i>> \in V
    BY <2>1, <2>2, FlattenLists, OneIs
  <2>4. FlattenSeq(vs) \o <<i>> \in V
    BY <2>3, ConcatIs
  <2> QED
    BY <2>2, <2>4 DEF LeftFrom
<1>4. \E f : f = [n \in G |-> LeftFrom(n, AtKids(tree, f, n))]
  <2>1. <<>> \in V
    OBVIOUS
  <2>2. \A i \in G : \A vs \in [DOMAIN tree.children[i] -> V] : H[i][vs] = LeftFrom(i, vs) /\ H[i][vs] \in V
    BY <1>3
  <2>3. PICK f \in [G -> V] : \A i \in G : f[i] = H[i][AtKids(tree, f, i)]
    <3>1. Rule(tree, V, H)
      BY <2>1, <2>2 DEF Rule
    <3> HIDE DEF H, V
    <3> QED
      BY <3>1, Recursion DEF Follows
  <2>4. \A i \in G : AtKids(tree, f, i) \in [DOMAIN tree.children[i] -> V]
    <3>1. \A i \in G : \A j \in Kids(tree.rows, i) : j \in G
      BY <1>0, RankIs
    <3> HIDE DEF V
    <3> QED
      BY <1>1, <3>1 DEF AtKids
  <2>5. \A i \in G : f[i] = LeftFrom(i, AtKids(tree, f, i))
    <3> HIDE DEF H, V
    <3> QED
      BY <2>2, <2>3, <2>4
  <2>6. f = [n \in G |-> f[n]]
    OBVIOUS
  <2>7. f = [n \in G |-> LeftFrom(n, AtKids(tree, f, n))]
    BY <2>5, <2>6
  <2> QED
    BY <2>7
<1>5. L = [n \in G |-> LeftFrom(n, AtKids(tree, L, n))]
  BY <1>4, Zenon DEF Posts
<1>6. Leaving(tree) = L[tree.root]
  BY Zenon DEF Leaving, Posts, LeftFrom, AtKids
<1> HIDE DEF L
<1>7. \A n \in G : L[n] = LeftFrom(n, AtKids(tree, L, n))
  BY <1>5
<1> DEFINE Q == {n \in G : L[n] \in V}
<1>8. ASSUME NEW n \in G, Kids(tree.rows, n) \subseteq Q
      PROVE  AtKids(tree, L, n) \in [DOMAIN tree.children[n] -> V]
  <2> HIDE DEF V
  <2> QED
    BY <1>1, <1>8 DEF AtKids
<1>9. ASSUME NEW n \in G, Kids(tree.rows, n) \subseteq Q PROVE n \in Q
  <2>1. LeftFrom(n, AtKids(tree, L, n)) \in V
    BY <1>3, <1>8, <1>9
  <2> QED
    BY <1>7, <2>1
<1>10. Q = G
  <2>1. Q \in SUBSET G
    OBVIOUS
  <2> HIDE DEF Q
  <2> QED
    BY <1>0, <1>9, <2>1, FromBelow
<1>11. ASSUME NEW n \in G
       PROVE  AtKids(tree, L, n) \in Seq(V) /\ Len(AtKids(tree, L, n)) = Len(tree.children[n])
  <2>1. Kids(tree.rows, n) \subseteq Q
    BY <1>0, <1>10, RankIs
  <2> HIDE DEF Q, V
  <2> QED
    BY <1>3, <1>8, <2>1
<1> QED
  BY <1>6, <1>7, <1>10, <1>11 DEF L

\* As many frames are left as there are spans in the walk.
LEMMA LeavesAll ==
    ASSUME NEW tree, IsTree(tree)
    PROVE  \A i \in Grounded(tree.rows) : Len(Posts(tree)[i]) = Len(Walk(tree, i))
<1> DEFINE rows == tree.rows
           G == Grounded(rows)
           D == DOMAIN rows
           L == Posts(tree)
           R == D \X D
           Q == {i \in G : Len(L[i]) = Len(Walk(tree, i))}
<1>0. IsRows(rows) /\ G \subseteq D
  BY DEF IsTree, Grounded
<1>1. ASSUME NEW i \in G PROVE Walk(tree, i) \in Seq(D)
  <2>1. Walk(tree, i) \in Seq(Below(rows, i)) /\ Below(rows, i) \subseteq D
    BY <1>0, WalkLists DEF Lists, Below
  <2> QED
    BY <2>1
<1>2. ASSUME NEW i \in G, Kids(rows, i) \subseteq Q PROVE i \in Q
  <2> DEFINE o == tree.children[i]
             n == Len(o)
             ws == [k \in 1..n |-> Walk(tree, o[k])]
             vs == AtKids(tree, L, i)
  <2>0. i \in D
    BY <1>0
  <2>1. n \in Nat /\ DOMAIN o = 1..n /\ \A k \in 1..n : o[k] \in Kids(rows, i)
    BY <2>0 DEF IsTree, Lists, ToSet
  <2>2. vs \in Seq(Seq(D)) /\ Len(vs) = n /\ L[i] = LeftFrom(i, vs)
    BY PostsIs
  <2>3. ASSUME NEW k \in 1..n
        PROVE  ws[k] \in Seq(D) /\ Matched(ws[k], vs[k], R)
    <3>1. o[k] \in Q /\ o[k] \in G
      BY <1>2, <2>1
    <3>2. ws[k] = Walk(tree, o[k]) /\ vs[k] = L[o[k]] /\ L[o[k]] \in Seq(D)
      BY <2>1, <3>1, PostsIs DEF AtKids
    <3>3. ws[k] \in Seq(D) /\ vs[k] \in Seq(D) /\ Len(ws[k]) = Len(vs[k])
      BY <1>1, <3>1, <3>2
    <3> HIDE DEF ws, vs, D
    <3> DEFINE a == ws[k]  b == vs[k]
    <3>4. a \in Seq(D) /\ b \in Seq(D) /\ Len(a) = Len(b)
      BY <3>3
    <3> HIDE DEF a, b
    <3>5. \A l \in 1..Len(a) : a[l] \in D /\ b[l] \in D
      BY <3>4
    <3>6. Matched(a, b, R)
      BY <3>4, <3>5 DEF Matched
    <3> QED
      BY <3>4, <3>6 DEF a, b
  <2>4. Walk(tree, i) = <<i>> \o FlattenSeq(ws)
    <3>1. Walk(tree, i) = <<i>> \o FlattenSeq([k \in DOMAIN o |-> Walk(tree, o[k])])
      BY WalkIs
    <3> QED
      BY <2>1, <3>1
  <2>5. ws \in Seq(Seq(D)) /\ Len(ws) = n
    <3> DEFINE A == Seq(D)
    <3>1. ws = [k \in 1..n |-> ws[k]] /\ \A k \in 1..n : ws[k] \in A
      BY <2>3
    <3> HIDE DEF A, ws, n
    <3>2. ws \in [1..n -> A]
      BY <3>1
    <3>3. ws \in Seq(A) /\ Len(ws) = n
      BY <2>1, <3>2
    <3> QED
      BY <3>3 DEF A
  <2> HIDE DEF ws, vs, n, R
  <2> DEFINE fw == FlattenSeq(ws)
             fv == FlattenSeq(vs)
             one == <<i>>
  <2>6. Matched(fw, fv, R)
    BY <2>2, <2>3, <2>5, FlattenMatched
  <2>7. fw \in Seq(D) /\ fv \in Seq(D) /\ one \in Seq(D) /\ Len(one) = 1
    BY <2>0, <2>2, <2>5, FlattenLists, OneIs
  <2> HIDE DEF fw, fv, one, D
  <2>8. Len(one \o fw) = 1 + Len(fw) /\ Len(fv \o one) = Len(fv) + 1 /\ Len(fw) \in Nat
    <3>1. Len(one \o fw) = Len(one) + Len(fw)
      BY ONLY <2>7, ConcatIs
    <3>2. Len(fv \o one) = Len(fv) + Len(one)
      BY ONLY <2>7, ConcatIs
    <3>3. Len(fw) \in Nat
      BY ONLY <2>7
    <3> QED
      BY ONLY <2>7, <3>1, <3>2, <3>3
  <2>9. Len(one \o fw) = Len(fv \o one)
    BY <2>6, <2>8 DEF Matched
  <2> QED
    BY <2>2, <2>4, <2>9 DEF LeftFrom, one, fw, fv
<1>3. Q \in SUBSET G
  OBVIOUS
<1>4. Q = G
  <2> HIDE DEF Q
  <2> QED
    BY <1>0, <1>2, <1>3, FromBelow
<1> QED
  BY <1>4

\* The sequence that SetToSeq chooses has each element of a finite set once.
LEMMA SetToSeqLists ==
    ASSUME NEW S, IsFiniteSet(S)
    PROVE  Lists(SetToSeq(S), S)
<1> DEFINE n == Cardinality(S)
           s == SetToSeq(S)
<1>1. n \in Nat /\ ExistsBijection(1..n, S)
  BY FS_CardinalityType
<1>2. \E f \in [1..n -> S] : IsInjective(f)
  BY <1>1 DEF ExistsBijection, Bijection, Injection, IsInjective
<1>3. s \in [1..n -> S] /\ IsInjective(s)
  BY <1>2, Zenon DEF SetToSeq
<1> HIDE DEF s
<1>4. s \in Injection(1..n, S)
  BY <1>3 DEF Injection, IsInjective
<1>5. s \in Surjection(1..n, S)
  <2>1. IsFiniteSet(1..n) /\ Cardinality(1..n) = n
    BY <1>1, FS_Interval
  <2> HIDE DEF n
  <2>2. Cardinality(1..n) = Cardinality(S)
    BY <2>1 DEF n
  <2> QED
    BY <1>4, <2>2, FS_Injection
<1>6. ToSet(s) = S
  BY <1>3, <1>5 DEF Surjection, ToSet
<1>7. s \in Seq(S)
  BY <1>1, <1>3
<1> QED
  BY <1>3, <1>6, <1>7 DEF Lists, s

\* The numbers up to n that bear a name.
Bearers(name, n, x) == {k \in 1..n : name[k] = x}

\* If those of each name are counted, all are counted once.
LEMMA CountedOnce ==
    ASSUME NEW n \in Nat, NEW name, NEW S, NEW s, Lists(s, S), \A k \in 1..n : name[k] \in S,
           NEW v, \A j \in 1..Len(s) : v[j] = Cardinality(Bearers(name, n, s[j]))
    PROVE  SumOf(v, Len(s)) = n /\ \A j \in 1..Len(s) : v[j] \in Nat
<1> DEFINE m == Len(s)
           At(x) == Bearers(name, n, x)
           Upto(j) == {k \in 1..n : \E i \in 1..j : name[k] = s[i]}
           P == {j \in Nat : j <= m => SumOf(v, j) = Cardinality(Upto(j))}
<1>0. m \in Nat /\ DOMAIN s = 1..m /\ IsInjective(s) /\ ToSet(s) = S
  BY DEF Lists
<1>1. IsFiniteSet(1..n) /\ Cardinality(1..n) = n
  BY FS_Interval
<1>2. \A T \in SUBSET (1..n) : IsFiniteSet(T) /\ Cardinality(T) \in Nat
  BY <1>1, FS_Subset, FS_CardinalityType
<1>3. 0 \in P
  <2>1. Upto(0) = {}
    OBVIOUS
  <2>2. Cardinality(Upto(0)) = 0
    BY <2>1, FS_EmptySet
  <2> HIDE DEF Upto
  <2> QED
    BY <2>2, SumNone
<1>4. ASSUME NEW j \in Nat, j \in P PROVE j + 1 \in P
  <2> SUFFICES ASSUME j + 1 <= m PROVE SumOf(v, j + 1) = Cardinality(Upto(j + 1))
    <3>1. j + 1 \in Nat
      OBVIOUS
    <3> HIDE DEF m, Upto
    <3> QED
      BY <3>1
  <2> HIDE DEF m
  <2>1. j <= m /\ j + 1 \in 1..m
    BY <1>0
  <2>2. SumOf(v, j) = Cardinality(Upto(j))
    BY <1>4, <2>1
  <2>3. Upto(j + 1) = Upto(j) \cup At(s[j + 1])
    <3>1. \A x : (\E i \in 1..(j + 1) : x = s[i]) <=> x = s[j + 1] \/ \E i \in 1..j : x = s[i]
      <4>1. \A i : i \in 1..(j + 1) <=> i = j + 1 \/ i \in 1..j
        OBVIOUS
      <4> QED
        BY ONLY <4>1
    <3> QED
      BY <3>1 DEF Bearers
  <2>4. Upto(j) \cap At(s[j + 1]) = {}
    <3>1. \A i \in 1..j : s[i] # s[j + 1]
      BY <1>0, <2>1 DEF IsInjective
    <3> QED
      BY <3>1 DEF Bearers
  <2>5. Upto(j) \in SUBSET (1..n) /\ At(s[j + 1]) \in SUBSET (1..n)
    BY DEF Bearers
  <2>6. v[j + 1] = Cardinality(At(s[j + 1]))
    BY <2>1 DEF m
  <2> HIDE DEF Upto, At
  <2> DEFINE A == Upto(j)  B == At(s[j + 1])
  <2>7. /\ IsFiniteSet(A) /\ IsFiniteSet(B) /\ A \cap B = {}
        /\ Cardinality(A) \in Nat /\ Cardinality(B) \in Nat
    BY <1>2, <2>4, <2>5
  <2> HIDE DEF A, B
  <2>8. Cardinality(A \cup B) = Cardinality(A) + Cardinality(B)
    <3>1. Cardinality(A \cup B) = Cardinality(A) + Cardinality(B) - Cardinality(A \cap B)
      BY <2>7, FS_Union
    <3>2. Cardinality(A \cap B) = 0
      BY <2>7, FS_EmptySet
    <3> QED
      BY <2>7, <3>1, <3>2
  <2>9. SumOf(v, j + 1) = SumOf(v, j) + v[j + 1]
    BY SumStep
  <2> QED
    BY <2>2, <2>3, <2>6, <2>8, <2>9 DEF A, B
<1>5. Nat \subseteq P
  <2> HIDE DEF P
  <2> QED
    BY <1>3, <1>4, NatInd
<1>6. Upto(m) = 1..n
  BY <1>0 DEF ToSet
<1>7. SumOf(v, m) = n
  <2>1. m \in P /\ m <= m
    BY <1>0, <1>5
  <2> HIDE DEF m, Upto
  <2> QED
    BY <1>1, <1>6, <2>1
<1>8. \A j \in 1..m : v[j] \in Nat
  <2> SUFFICES ASSUME NEW j \in 1..m PROVE v[j] \in Nat
    OBVIOUS
  <2>1. Bearers(name, n, s[j]) \in SUBSET (1..n)
    BY DEF Bearers
  <2> QED
    BY <1>2, <2>1
<1> QED
  BY <1>7, <1>8

\* Each name's statistics count its frames.
LEMMA StatsAre ==
    ASSUME NEW tree
    PROVE  /\ DOMAIN FrameStats(tree) = {tree.rows[n].name : n \in ToSet(Leaving(tree))}
           /\ \A name \in DOMAIN FrameStats(tree) :
                FrameStats(tree)[name].calls =
                  Cardinality({k \in DOMAIN Leaving(tree) : tree.rows[Leaving(tree)[k]].name = name})
BY DEF FrameStats

\* Together they count the walk.
LEMMA StatsCount ==
    ASSUME NEW tree, IsTree(tree), tree.root \in Grounded(tree.rows)
    PROVE  LET frames == FrameStats(tree)
               names == SetToSeq(DOMAIN frames)
           IN  Len(Walk(tree, tree.root)) = FoldLeft(+, 0, [k \in DOMAIN names |-> frames[names[k]].calls])
<1> DEFINE f == Leaving(tree)
           n == Len(f)
           name == [k \in 1..n |-> tree.rows[f[k]].name]
           frames == FrameStats(tree)
           S == DOMAIN frames
           s == SetToSeq(S)
           v == [k \in DOMAIN s |-> frames[s[k]].calls]
<1>1. f \in Seq(DOMAIN tree.rows) /\ n = Len(Walk(tree, tree.root))
  BY PostsIs, LeavesAll
<1>2. n \in Nat /\ DOMAIN f = 1..n
  BY <1>1
<1>3. S = {name[k] : k \in 1..n}
  <2>1. S = {tree.rows[x].name : x \in ToSet(f)}
    BY StatsAre
  <2> HIDE DEF f, n, S
  <2> QED
    BY <1>2, <2>1 DEF ToSet
<1>4. \A x \in S : frames[x].calls = Cardinality(Bearers(name, n, x))
  <2> SUFFICES ASSUME NEW x \in S PROVE frames[x].calls = Cardinality(Bearers(name, n, x))
    OBVIOUS
  <2>1. frames[x].calls = Cardinality({k \in DOMAIN f : tree.rows[f[k]].name = x})
    BY StatsAre
  <2> HIDE DEF f, n, S, frames
  <2>2. {k \in DOMAIN f : tree.rows[f[k]].name = x} = Bearers(name, n, x)
    BY <1>2 DEF Bearers
  <2> QED
    BY <2>1, <2>2
<1> HIDE DEF f, n, frames
<1>5. IsFiniteSet(S)
  <2>1. name \in Surjection(1..n, S)
    BY <1>3 DEF Surjection
  <2>2. IsFiniteSet(1..n)
    BY <1>2, FS_Interval
  <2> HIDE DEF name, S
  <2> QED
    BY <2>1, <2>2, FS_Surjection
<1>6. \A k \in 1..n : name[k] \in S
  BY <1>3
<1> HIDE DEF name, S
<1>7. Lists(s, S)
  BY <1>5, SetToSeqLists
<1> HIDE DEF s
<1>8. DOMAIN s = 1..Len(s) /\ Len(s) \in Nat /\ \A j \in 1..Len(s) : s[j] \in S
  BY <1>7 DEF Lists
<1>9. \A j \in 1..Len(s) : v[j] = Cardinality(Bearers(name, n, s[j]))
  BY <1>4, <1>8
<1>10. v = [k \in 1..Len(s) |-> v[k]]
  BY <1>8
<1> HIDE DEF v
<1>11. SumOf(v, Len(s)) = n /\ \A j \in 1..Len(s) : v[j] \in Nat
  BY ONLY <1>2, <1>6, <1>7, <1>9, CountedOnce
<1>12. v \in Seq(Int) /\ Len(v) = Len(s)
  <2>1. v \in [1..Len(s) -> Int]
    BY <1>10, <1>11
  <2> QED
    BY <1>8, <2>1
<1>13. FoldLeft(+, 0, v) = n
  BY <1>11, <1>12, FoldCounts
<1> QED
  BY <1>1, <1>13 DEF v, s, S, frames

\* The spans that are kept come first in an order of all by their own time.
LEMMA HotAre ==
    ASSUME NEW tree, NEW S, S = ToSet(Walk(tree, tree.root)), IsFiniteSet(S), NEW count \in Nat,
           NEW hot \in HotSpots(tree, count),
           \A i \in S : SelfTime(tree, i) \in Int
    PROVE  /\ ToSet(hot) \subseteq S
           /\ \A i \in ToSet(hot), j \in S \ ToSet(hot) : SelfTime(tree, i) >= SelfTime(tree, j)
<1> DEFINE n == Cardinality(S)
           kept == IF count > 0 /\ count < n THEN count ELSE n
<1>1. n \in Nat
  BY FS_CardinalityType
<1>2. PICK o \in SetToSeqs(S) :
        /\ \A i, j \in DOMAIN o : i < j => SelfTime(tree, o[i]) >= SelfTime(tree, o[j])
        /\ hot = SubSeq(o, 1, kept)
  BY Zenon DEF HotSpots
<1>3. Lists(o, S) /\ Len(o) = n
  BY SeqsList
<1>4. o \in Seq(S) /\ DOMAIN o = 1..n /\ ToSet(o) = S
  BY <1>3 DEF Lists
<1>5. kept \in 0..n
  BY <1>1
<1> HIDE DEF kept, n
<1>6. /\ hot \in Seq(S) /\ Len(hot) = kept /\ DOMAIN hot = 1..kept
      /\ \A k \in 1..kept : hot[k] = o[k]
  <2>1. SubSeq(o, 1, kept) = [k \in 1..kept |-> o[k]]
    BY <1>1, <1>3, <1>4, <1>5
  <2>2. \A k \in 1..kept : o[k] \in S
    BY <1>1, <1>4, <1>5
  <2>3. hot = [k \in 1..kept |-> o[k]]
    BY <1>2, <2>1
  <2>4. kept \in Nat
    BY <1>1, <1>5
  <2>5. DOMAIN hot = 1..kept /\ \A k \in 1..kept : hot[k] = o[k]
    BY ONLY <2>3
  <2>6. hot = [k \in 1..kept |-> hot[k]] /\ \A k \in 1..kept : hot[k] \in S
    BY ONLY <2>2, <2>3, <2>5
  <2>7. hot \in [1..kept -> S]
    BY ONLY <2>6
  <2>8. hot \in Seq(S) /\ Len(hot) = kept
    BY ONLY <2>4, <2>7
  <2> QED
    BY ONLY <2>5, <2>8
<1>7. ToSet(hot) = {o[k] : k \in 1..kept}
  BY <1>6 DEF ToSet
<1>8. ToSet(hot) \subseteq S
  BY <1>1, <1>4, <1>5, <1>7
<1>9. ASSUME NEW i \in ToSet(hot), NEW j \in S \ ToSet(hot)
      PROVE  SelfTime(tree, i) >= SelfTime(tree, j)
  <2>1. PICK k \in 1..kept : i = o[k]
    BY <1>7
  <2>2. PICK l \in 1..n : j = o[l]
    BY <1>4 DEF ToSet
  <2>3. l \notin 1..kept
    BY <1>7, <2>2
  <2>4. k \in 1..n /\ k < l
    BY <1>1, <1>5, <2>3
  <2> QED
    BY <1>2, <1>4, <2>1, <2>2, <2>4
<1> QED
  BY <1>8, <1>9

\* The walk's spans have whole times of their own.
LEMMA SelfTimes ==
    ASSUME NEW tree, IsTree(tree), Timed(tree.rows)
    PROVE  \A i \in DOMAIN tree.rows : SelfTime(tree, i) \in Int
<1> SUFFICES ASSUME NEW i \in DOMAIN tree.rows PROVE SelfTime(tree, i) \in Int
  OBVIOUS
<1> DEFINE s == tree.children[i]
           v == [k \in DOMAIN s |-> tree.rows[s[k]].dur]
<1>1. Lists(s, Kids(tree.rows, i)) /\ Kids(tree.rows, i) \subseteq DOMAIN tree.rows
  BY DEF IsTree, Kids
<1>2. Len(s) \in Nat /\ DOMAIN s = 1..Len(s) /\ \A k \in 1..Len(s) : s[k] \in DOMAIN tree.rows
  BY <1>1 DEF Lists
<1> HIDE DEF s
<1>3. \A k \in 1..Len(s) : v[k] \in Int
  BY <1>2 DEF Timed
<1>4. v \in Seq(Int) /\ Len(v) = Len(s)
  <2>1. v \in [1..Len(s) -> Int]
    BY <1>2, <1>3
  <2> HIDE DEF v
  <2> QED
    BY <1>2, <2>1
<1> HIDE DEF v
<1>5. SumOf(v, Len(s)) \in Int
  <2>1. Len(s) \in 0..Len(s) /\ Int \in {Nat, Int} /\ Len(s) \in Nat
    BY <1>2
  <2> QED
    BY ONLY <1>3, <2>1, SumType
<1>6. Total(tree, s) = SumOf(v, Len(s))
  BY <1>4, FoldCounts DEF Total, v
<1>7. tree.rows[i].dur \in Int
  BY DEF Timed
<1> QED
  BY <1>5, <1>6, <1>7 DEF SelfTime, s

\* Every span is counted under one name, and the hot spots are the spans with most time of
\* their own (GetFrameStats, GetHotSpots).
THEOREM StatsCountEverySpan == Spec => []StatsCountAll
<1>1. TracesInv => StatsCountAll
  <2> SUFFICES ASSUME TracesInv, NEW c \in Callers, Shown(c, "stats")
               PROVE  LET tree == caller[c].tree
                          frames == caller[c].body.frames
                          hot == ToSet(caller[c].body.hot)
                          walk == Walk(tree, tree.root)
                          names == SetToSeq(DOMAIN frames)
                      IN  /\ Len(walk) = FoldLeft(+, 0, [k \in DOMAIN names |-> frames[names[k]].calls])
                          /\ hot \subseteq ToSet(walk)
                          /\ \A i \in hot, j \in ToSet(walk) \ hot : SelfTime(tree, i) >= SelfTime(tree, j)
    BY DEF StatsCountAll
  <2> DEFINE tree == caller[c].tree
             hot == caller[c].body.hot
             S == ToSet(Walk(tree, tree.root))
  <2>1. /\ IsTree(tree) /\ tree.root # NoSpan /\ Timed(tree.rows)
        /\ caller[c].body.frames = FrameStats(tree) /\ hot \in HotSpots(tree, HotCount)
    BY DEF TracesInv, Carries, Answered, Drawn, Shown, Origin
  <2>2. tree.root \in Grounded(tree.rows)
    BY <2>1, RootIs, GroundedStep DEF IsTree
  <2>3. S = Below(tree.rows, tree.root) /\ S \subseteq DOMAIN tree.rows
    <3>1. Lists(Walk(tree, tree.root), Below(tree.rows, tree.root))
      BY <2>1, <2>2, WalkLists
    <3>2. Below(tree.rows, tree.root) \subseteq DOMAIN tree.rows
      BY DEF Below, Grounded
    <3> HIDE DEF tree
    <3>3. S = Below(tree.rows, tree.root)
      BY <3>1 DEF Lists
    <3> QED
      BY <3>2, <3>3
  <2>4. IsFiniteSet(S)
    <3>1. IsFiniteSet(DOMAIN tree.rows)
      BY <2>1, RowsAre, FS_Interval DEF IsTree
    <3> HIDE DEF S
    <3> QED
      BY <2>3, <3>1, FS_Subset
  <2>5. \A i \in S : SelfTime(tree, i) \in Int
    BY <2>1, <2>3, SelfTimes
  <2>6. HotCount \in Nat
    BY WidthAssumption
  <2> HIDE DEF tree, hot
  <2>7. /\ ToSet(hot) \subseteq S
        /\ \A i \in ToSet(hot), j \in S \ ToSet(hot) : SelfTime(tree, i) >= SelfTime(tree, j)
    <3>1. S = ToSet(Walk(tree, tree.root))
      OBVIOUS
    <3> HIDE DEF S
    <3> QED
      BY ONLY <2>1, <2>4, <2>5, <2>6, <3>1, HotAre
  <2>8. LET frames == FrameStats(tree)
            names == SetToSeq(DOMAIN frames)
        IN  Len(Walk(tree, tree.root)) = FoldLeft(+, 0, [k \in DOMAIN names |-> frames[names[k]].calls])
    BY ONLY <2>1, <2>2, StatsCount
  <2> QED
    BY <2>1, <2>7, <2>8, Zenon DEF tree, hot, S
<1> QED
  BY TracesInit, TracesStep, <1>1, PTL DEF Spec

-----------------------------------------------------------------------------
(* The boxes of a flame graph.                                             *)

\* Sums of natural numbers rise.
LEMMA SumRises ==
    ASSUME NEW v, NEW m \in Nat, \A k \in 1..m : v[k] \in Nat,
           NEW k \in 0..m, NEW j \in 0..k
    PROVE  SumOf(v, j) <= SumOf(v, k)
<1> DEFINE P == {i \in Nat : i <= m => \A h \in 0..i : SumOf(v, h) <= SumOf(v, i)}
<1>0. \A i \in 0..m : SumOf(v, i) \in Nat
  <2>1. Nat \in {Nat, Int}
    OBVIOUS
  <2> QED
    BY ONLY <2>1, m \in Nat, \A i \in 1..m : v[i] \in Nat, SumType
<1>1. 0 \in P
  <2>1. SumOf(v, 0) = 0
    BY SumNone
  <2>2. \A h : h \in 0..0 => h = 0
    OBVIOUS
  <2> QED
    BY <2>1, <2>2
<1>2. ASSUME NEW i \in Nat, i \in P PROVE i + 1 \in P
  <2> SUFFICES ASSUME i + 1 <= m, NEW h \in 0..(i + 1) PROVE SumOf(v, h) <= SumOf(v, i + 1)
    OBVIOUS
  <2>1. i <= m /\ i \in 0..m /\ i + 1 \in 0..m /\ i + 1 \in 1..m
    OBVIOUS
  <2>2. SumOf(v, i + 1) = SumOf(v, i) + v[i + 1] /\ v[i + 1] \in Nat /\ SumOf(v, i) \in Nat
    BY <1>0, <2>1, SumStep
  <2>3. CASE h = i + 1
    BY <1>0, <2>1, <2>3
  <2>4. CASE h # i + 1
    <3>1. h \in 0..i /\ h \in 0..m
      BY <2>1, <2>4
    <3>2. SumOf(v, h) <= SumOf(v, i) /\ SumOf(v, h) \in Nat
      BY <1>0, <1>2, <2>1, <3>1
    <3> QED
      BY ONLY <2>2, <3>2
  <2> QED
    BY <2>3, <2>4
<1>3. Nat \subseteq P
  <2> HIDE DEF P
  <2> QED
    BY <1>1, <1>2, NatInd
<1>4. k \in P /\ k <= m
  BY <1>3
<1> QED
  BY <1>4

\* The values of a span's children.
Parts(tree, n) == [k \in DOMAIN tree.children[n] |-> Micros(tree.rows[tree.children[n][k]].dur)]

\* How many children a span has.
Count(tree, n) == Len(tree.children[n])

\* The children, and the values of the first of them together.
LEMMA PartsAre ==
    ASSUME NEW tree, IsTree(tree), Timed(tree.rows), NEW n \in DOMAIN tree.rows
    PROVE  /\ Count(tree, n) \in Nat /\ DOMAIN tree.children[n] = 1..Count(tree, n)
           /\ \A k \in 1..Count(tree, n) :
                /\ tree.children[n][k] \in Kids(tree.rows, n) /\ Parts(tree, n)[k] \in Nat
                /\ Parts(tree, n)[k] = Micros(tree.rows[tree.children[n][k]].dur)
                /\ Values(tree, SubSeq(tree.children[n], 1, k - 1)) = SumOf(Parts(tree, n), k - 1)
           /\ Values(tree, tree.children[n]) = SumOf(Parts(tree, n), Count(tree, n))
<1> DEFINE o == tree.children[n]
           m == Count(tree, n)
           D == DOMAIN tree.rows
           v == Parts(tree, n)
<1>1. o \in Seq(Kids(tree.rows, n)) /\ ToSet(o) = Kids(tree.rows, n) /\ Kids(tree.rows, n) \subseteq D
  BY DEF IsTree, Lists, Kids
<1>2. o \in Seq(D) /\ m = Len(o)
  BY <1>1 DEF Count
<1>3. m \in Nat /\ DOMAIN o = 1..m
  BY <1>2
<1>4. \A k \in 1..m : o[k] \in Kids(tree.rows, n) /\ o[k] \in D
  BY <1>1, <1>3
<1>5. v = [k \in 1..m |-> Micros(tree.rows[o[k]].dur)]
  BY <1>3 DEF Parts
<1> HIDE DEF v, m, o
<1>6. \A k \in 1..m : v[k] = Micros(tree.rows[o[k]].dur) /\ v[k] \in Nat
  BY <1>4, <1>5 DEF Timed, CutOff
\* A sequence that starts as the children do has the values of so many of them.
<1>7. ASSUME NEW j \in 0..m, NEW s, Len(s) = j, DOMAIN s = 1..j, \A i \in 1..j : s[i] = o[i]
      PROVE  Values(tree, s) = SumOf(v, j)
  <2> DEFINE w == [i \in DOMAIN s |-> Micros(tree.rows[s[i]].dur)]
  <2>1. j \in Nat /\ \A i \in 1..j : i \in 1..m
    BY <1>3
  <2>2. w = [i \in 1..j |-> Micros(tree.rows[s[i]].dur)]
    BY <1>7
  <2> HIDE DEF w
  <2>3. \A i \in 1..j : w[i] = v[i] /\ w[i] \in Int
    BY <1>6, <1>7, <2>1, <2>2
  <2>4. w = [i \in 1..j |-> w[i]]
    BY <2>2
  <2>5. w \in [1..j -> Int]
    BY ONLY <2>3, <2>4
  <2>6. w \in Seq(Int) /\ Len(w) = j
    BY ONLY <2>1, <2>5
  <2>7. FoldLeft(+, 0, w) = SumOf(w, j)
    BY ONLY <2>6, FoldCounts
  <2>8. SumOf(w, j) = SumOf(v, j)
    BY ONLY <2>1, <2>3, SumAgree
  <2> QED
    BY <2>7, <2>8 DEF Values, w
<1>8. Values(tree, o) = SumOf(v, m)
  <2>1. m \in 0..m /\ Len(o) = m /\ DOMAIN o = 1..m
    BY <1>2, <1>3
  <2> QED
    BY <1>7, <2>1
<1>9. ASSUME NEW k \in 1..m
      PROVE  Values(tree, SubSeq(o, 1, k - 1)) = SumOf(v, k - 1)
  <2> DEFINE j == k - 1
             s == SubSeq(o, 1, j)
  <2>1. j \in 0..m /\ j \in Nat /\ j <= Len(o)
    BY <1>2, <1>3
  <2> HIDE DEF j
  <2>2. s = [i \in 1..j |-> o[i]]
    BY <1>2, <2>1
  <2>3. Len(s) = j /\ DOMAIN s = 1..j /\ \A i \in 1..j : s[i] = o[i]
    BY <2>1, <2>2
  <2> HIDE DEF s
  <2>4. Values(tree, s) = SumOf(v, j)
    BY <1>7, <2>1, <2>3
  <2> QED
    BY <2>4 DEF s, j
<1> QED
  BY <1>3, <1>4, <1>6, <1>8, <1>9 DEF v, m, o

\* Where drawFrame puts the children of a frame, side by side.
Slot(tree, width, n, at, k) ==
    [x |-> at.x + width * Values(tree, SubSeq(tree.children[n], 1, k - 1)),
     width |-> Micros(tree.rows[tree.children[n][k]].dur) * width,
     depth |-> at.depth + 1]

\* Products of natural numbers, as the slots need them.
LEMMA Stretched ==
    ASSUME NEW w \in Nat, NEW a \in Nat, NEW b \in Nat
    PROVE  /\ w * a \in Nat /\ a * w \in Nat /\ a * w = w * a /\ w * (a + b) = w * a + w * b
           /\ a <= b => w * a <= w * b
<1>1. w * a \in Nat /\ a * w \in Nat /\ a * w = w * a /\ w * (a + b) = w * a + w * b
  OBVIOUS
<1>2. ASSUME a <= b PROVE w * a <= w * b
  <2>1. PICK c \in Nat : b = a + c
    <3>1. b - a \in Nat /\ b = a + (b - a)
      BY <1>2
    <3> QED
      BY <3>1
  <2>2. w * b = w * a + w * c /\ w * c \in Nat /\ w * a \in Nat
    BY <2>1
  <2> QED
    BY <2>2
<1> QED
  BY <1>1, <1>2

\* The values of a span's children together exceed its own by at most so much.
Excess(tree, n, e) == Values(tree, tree.children[n]) <= Micros(tree.rows[n].dur) + e

\* The slots follow each other, and the children's excess is that of their slots.
LEMMA SlotsAre ==
    ASSUME NEW tree, IsTree(tree), Timed(tree.rows), NEW n \in DOMAIN tree.rows,
           NEW width \in Nat, NEW at \in Place, NEW k \in 1..Count(tree, n), NEW e \in Nat
    PROVE  /\ Slot(tree, width, n, at, k) \in Place
           /\ Slot(tree, width, n, at, k).depth = at.depth + 1
           /\ Slot(tree, width, n, at, k).x >= at.x
           /\ Slot(tree, width, n, at, k).width = Micros(tree.rows[tree.children[n][k]].dur) * width
           /\ Excess(tree, n, e) /\ Micros(tree.rows[n].dur) * width <= at.width =>
                End(Slot(tree, width, n, at, k)) <= End(at) + width * e
           /\ \A l \in 1..Count(tree, n) :
                k < l => End(Slot(tree, width, n, at, k)) <= Slot(tree, width, n, at, l).x
<1> DEFINE m == Count(tree, n)
           v == Parts(tree, n)
           X(j) == at.x + width * SumOf(v, j - 1)
           s(j) == Slot(tree, width, n, at, j)
<1>1. /\ m \in Nat
      /\ \A j \in 1..m : /\ v[j] \in Nat /\ v[j] = Micros(tree.rows[tree.children[n][j]].dur)
                         /\ Values(tree, SubSeq(tree.children[n], 1, j - 1)) = SumOf(v, j - 1)
      /\ Values(tree, tree.children[n]) = SumOf(v, m)
  BY PartsAre
<1>2. \A j \in 1..m : s(j) = [x |-> X(j), width |-> v[j] * width, depth |-> at.depth + 1]
  BY <1>1 DEF Slot
<1> HIDE DEF m, v, s
<1>3. \A j \in 1..m : s(j).x = X(j) /\ s(j).width = v[j] * width /\ s(j).depth = at.depth + 1
  BY <1>2
<1>4. at.x \in Nat /\ at.width \in Nat /\ at.depth \in Nat
  BY DEF Place
<1>5. \A j \in 0..m : SumOf(v, j) \in Nat
  <2>1. Nat \in {Nat, Int} /\ \A j \in 1..m : v[j] \in Nat
    BY <1>1
  <2> QED
    BY ONLY <1>1, <2>1, SumType
<1>6. \A j \in 1..m : j - 1 \in 0..m /\ (j - 1) + 1 = j /\ j \in 0..m /\ j - 1 \in Nat
  BY <1>1
<1>7. \A j \in 0..m : width * SumOf(v, j) \in Nat
  BY <1>5, Stretched
<1>8. \A j \in 1..m : X(j) \in Nat /\ X(j) >= at.x
  <2> SUFFICES ASSUME NEW j \in 1..m PROVE X(j) \in Nat /\ X(j) >= at.x
    OBVIOUS
  <2> DEFINE p == width * SumOf(v, j - 1)
  <2>1. p \in Nat
    BY <1>6, <1>7
  <2> HIDE DEF p
  <2>2. at.x + p \in Nat /\ at.x + p >= at.x
    BY <1>4, <2>1
  <2> QED
    BY <2>2 DEF p
<1>9. \A j \in 1..m : End(s(j)) = at.x + width * SumOf(v, j)
  <2> SUFFICES ASSUME NEW j \in 1..m PROVE End(s(j)) = at.x + width * SumOf(v, j)
    OBVIOUS
  <2> DEFINE a == SumOf(v, j - 1)  b == v[j]
  <2>1. a \in Nat /\ b \in Nat
    BY <1>1, <1>5, <1>6
  <2>2. SumOf(v, j) = a + b
    BY <1>6, SumStep
  <2>3. End(s(j)) = (at.x + width * a) + b * width
    BY <1>3 DEF End
  <2> HIDE DEF a, b
  <2>4. width * (a + b) = width * a + width * b /\ b * width = width * b
    BY <2>1, Stretched
  <2> DEFINE p == width * a  q == width * b
  <2>5. p \in Nat /\ q \in Nat
    BY <2>1, Stretched
  <2> HIDE DEF p, q
  <2>6. (at.x + p) + q = at.x + (p + q)
    BY <1>4, <2>5
  <2> QED
    BY <2>2, <2>3, <2>4, <2>6 DEF p, q
<1>10. \A j \in 0..m, l \in 0..m : j <= l => width * SumOf(v, j) <= width * SumOf(v, l)
  <2> SUFFICES ASSUME NEW j \in 0..m, NEW l \in 0..m, j <= l
               PROVE  width * SumOf(v, j) <= width * SumOf(v, l)
    OBVIOUS
  <2>1. l \in 0..m /\ j \in 0..l /\ m \in Nat /\ \A i \in 1..m : v[i] \in Nat
    BY <1>1
  <2>2. SumOf(v, j) <= SumOf(v, l)
    BY ONLY <2>1, SumRises
  <2> QED
    BY <1>5, <2>2, Stretched
<1>11. k \in 1..m
  BY DEF m
<1>12. s(k) \in Place
  <2>1. v[k] * width \in Nat
    BY <1>1, <1>11, Stretched
  <2>2. X(k) \in Nat /\ at.depth + 1 \in Nat
    BY <1>4, <1>8, <1>11
  <2> HIDE DEF X
  <2> QED
    BY <1>2, <1>11, <2>1, <2>2 DEF Place
<1>13. ASSUME Excess(tree, n, e), Micros(tree.rows[n].dur) * width <= at.width
       PROVE  End(s(k)) <= End(at) + width * e
  <2> DEFINE a == SumOf(v, m)  b == Micros(tree.rows[n].dur)
  <2>1. a \in Nat /\ b \in Nat
    BY <1>1, <1>5 DEF Timed, CutOff
  <2>3. a <= b + e
    BY <1>1, <1>13 DEF Excess
  <2> HIDE DEF a, b
  <2>4. width * a <= width * b + width * e /\ b * width = width * b
    <3>1. b + e \in Nat
      BY <2>1
    <3> QED
      BY <2>1, <2>3, <3>1, Stretched
  <2>5. width * SumOf(v, k) <= width * a
    BY <1>1, <1>6, <1>10, <1>11 DEF a
  <2> DEFINE p == width * SumOf(v, k)  q == width * a  r == width * b  x == width * e
  <2>6. p \in Nat /\ q \in Nat /\ r \in Nat /\ x \in Nat
    BY <1>6, <1>7, <1>11, <2>1, Stretched
  <2>7. r <= at.width
    BY <1>13, <2>4 DEF b
  <2>8. p <= q /\ q <= r + x
    BY <2>4, <2>5
  <2> HIDE DEF p, q, r, x
  <2>9. at.x + p <= (at.x + at.width) + x
    BY <1>4, <2>6, <2>7, <2>8
  <2> QED
    BY <1>9, <1>11, <2>9 DEF p, x, End
<1>14. ASSUME NEW l \in 1..m, k < l PROVE End(s(k)) <= s(l).x
  <2>1. k \in 0..m /\ l - 1 \in 0..m /\ k <= l - 1
    BY <1>1, <1>6, <1>11, <1>14
  <2> DEFINE p == width * SumOf(v, k)  q == width * SumOf(v, l - 1)
  <2>2. p <= q /\ p \in Nat /\ q \in Nat
    BY <1>7, <1>10, <2>1
  <2>3. End(s(k)) = at.x + p /\ s(l).x = at.x + q
    BY <1>3, <1>9, <1>11
  <2> HIDE DEF p, q
  <2> QED
    BY <1>4, <2>2, <2>3
<1> QED
  BY <1>1, <1>3, <1>8, <1>11, <1>12, <1>13, <1>14 DEF m, s

\* Cutting off the durations costs a frame at most one microsecond against its children.
LEMMA CutOffCosts ==
    ASSUME NEW tree, IsTree(tree), Timed(tree.rows), NEW n \in DOMAIN tree.rows,
           SelfTime(tree, n) >= 0
    PROVE  Excess(tree, n, 1)
<1> DEFINE o == tree.children[n]
           m == Count(tree, n)
           v == Parts(tree, n)
           d == [k \in DOMAIN o |-> tree.rows[o[k]].dur]
<1>1. /\ m \in Nat /\ DOMAIN o = 1..m /\ m = Len(o)
      /\ \A k \in 1..m : /\ o[k] \in Kids(tree.rows, n) /\ v[k] \in Nat
                         /\ v[k] = Micros(tree.rows[o[k]].dur)
      /\ Values(tree, o) = SumOf(v, m)
  BY PartsAre DEF Count
<1>2. \A k \in 1..m : /\ d[k] = tree.rows[o[k]].dur /\ o[k] \in DOMAIN tree.rows
  BY <1>1 DEF Kids
<1>3. \A k \in 1..m : d[k] \in Nat /\ 1000 * v[k] <= d[k]
  <2>1. \A i \in DOMAIN tree.rows :
           tree.rows[i].dur \in Nat /\ 1000 * Micros(tree.rows[i].dur) <= tree.rows[i].dur
    BY DEF Timed, CutOff
  <2> HIDE DEF o, m, v, d
  <2> QED
    BY <1>1, <1>2, <2>1
<1>4. d = [k \in 1..m |-> d[k]]
  BY <1>1
<1>5. Total(tree, o) = FoldLeft(+, 0, d)
  BY DEF Total
<1>6. SelfTime(tree, n) = tree.rows[n].dur - Total(tree, o)
  BY DEF SelfTime
<1>7. tree.rows[n].dur \in Nat /\ CutOff(tree.rows[n].dur)
  BY DEF Timed
<1> HIDE DEF o, m, v, d
<1>8. d \in Seq(Int) /\ Len(d) = m
  <2>1. d \in [1..m -> Int]
    BY ONLY <1>3, <1>4
  <2> QED
    BY ONLY <1>1, <2>1
<1>9. Total(tree, o) = SumOf(d, m)
  BY <1>5, <1>8, FoldCounts
<1>10. \A j \in 0..m : SumOf(v, j) \in Nat /\ SumOf(d, j) \in Nat
  <2>1. Nat \in {Nat, Int}
    OBVIOUS
  <2>2. \A k \in 1..m : v[k] \in Nat /\ d[k] \in Nat
    BY <1>1, <1>3
  <2> QED
    BY ONLY <1>1, <2>1, <2>2, SumType
<1> DEFINE P == {j \in Nat : j <= m => 1000 * SumOf(v, j) <= SumOf(d, j)}
<1>11. 0 \in P
  BY SumNone
<1>12. ASSUME NEW j \in Nat, j \in P PROVE j + 1 \in P
  <2> SUFFICES ASSUME j + 1 <= m PROVE 1000 * SumOf(v, j + 1) <= SumOf(d, j + 1)
    OBVIOUS
  <2>1. j \in 0..m /\ j + 1 \in 1..m /\ j <= m
    BY <1>1
  <2>2. SumOf(v, j + 1) = SumOf(v, j) + v[j + 1] /\ SumOf(d, j + 1) = SumOf(d, j) + d[j + 1]
    BY SumStep
  <2>3. 1000 * SumOf(v, j) <= SumOf(d, j) /\ 1000 * v[j + 1] <= d[j + 1]
    BY <1>3, <1>12, <2>1
  <2>4. SumOf(v, j) \in Nat /\ SumOf(d, j) \in Nat /\ v[j + 1] \in Nat /\ d[j + 1] \in Nat
    BY <1>1, <1>3, <1>10, <2>1
  <2> QED
    BY ONLY <2>2, <2>3, <2>4
<1>13. Nat \subseteq P
  <2> HIDE DEF P
  <2> QED
    BY <1>11, <1>12, NatInd
<1>14. 1000 * SumOf(v, m) <= SumOf(d, m)
  BY <1>1, <1>13
<1>15. SumOf(v, m) \in Nat /\ SumOf(d, m) \in Nat
  BY <1>1, <1>10
<1> DEFINE a == SumOf(v, m)  b == SumOf(d, m)  x == tree.rows[n].dur  y == Micros(x)
<1>16. /\ a \in Nat /\ b \in Nat /\ x \in Nat /\ y \in Nat
       /\ 1000 * a <= b /\ x - b >= 0 /\ x <= 1000 * y + 1000
  BY <1>6, <1>7, <1>9, <1>14, <1>15 DEF CutOff
<1> HIDE DEF a, b, x, y
<1>17. a <= y + 1
  BY ONLY <1>16
<1> QED
  BY <1>1, <1>17 DEF Excess, a, x, y, o

\* The boxes of the whole tree, as drawFrame recurs.
BoxesOf(tree, width, f, n) ==
    [at \in Place |->
       IF 2 * at.width < Scale(tree) THEN <<>>
       ELSE <<[span |-> n, at |-> at]>>
            \o FlattenSeq([k \in DOMAIN tree.children[n] |->
                              f[tree.children[n][k]][Slot(tree, width, n, at, k)]])]

Boxes(tree, width) == CHOOSE f : f = [n \in Grounded(tree.rows) |-> BoxesOf(tree, width, f, n)]

Box(tree) == [span : DOMAIN tree.rows, at : Place]

\* What functions from places, one for each child, draw in the slots.
Filled(tree, width, n, at, vs) == [k \in 1..Count(tree, n) |-> vs[k][Slot(tree, width, n, at, k)]]

\* A frame's boxes are its own and these.
LEMMA OneBox ==
    ASSUME NEW tree, IsTree(tree), Timed(tree.rows), NEW width \in Nat,
           NEW n \in DOMAIN tree.rows, NEW at \in Place,
           NEW vs, \A k \in 1..Count(tree, n) : vs[k] \in [Place -> Seq(Box(tree))]
    PROVE  /\ Filled(tree, width, n, at, vs) \in Seq(Seq(Box(tree)))
           /\ Len(Filled(tree, width, n, at, vs)) = Count(tree, n)
           /\ <<[span |-> n, at |-> at]>> \in Seq(Box(tree))
           /\ FlattenSeq(Filled(tree, width, n, at, vs)) \in Seq(Box(tree))
           /\ <<[span |-> n, at |-> at]>> \o FlattenSeq(Filled(tree, width, n, at, vs)) \in Seq(Box(tree))
<1> DEFINE m == Count(tree, n)
           slots == Filled(tree, width, n, at, vs)
           B == Box(tree)
           V == Seq(B)
           top == [span |-> n, at |-> at]
<1>1. m \in Nat
  BY PartsAre
<1>2. \A k \in 1..m : Slot(tree, width, n, at, k) \in Place
  BY SlotsAre
<1>3. top \in B
  BY DEF Box
<1> HIDE DEF V, m, B, top
<1>4. slots \in [1..m -> V]
  <2>1. \A k \in 1..m : vs[k] \in [Place -> V]
    BY DEF m, V, B
  <2> QED
    BY <1>2, <2>1 DEF Filled, m
<1> HIDE DEF slots
<1>5. slots \in Seq(V) /\ Len(slots) = m
  BY <1>1, <1>4
<1>6. FlattenSeq(slots) \in V /\ <<top>> \in V
  BY <1>3, <1>5, FlattenLists, OneIs DEF V
<1>7. <<top>> \o FlattenSeq(slots) \in V
  BY <1>6, ConcatIs DEF V
<1> QED
  BY <1>5, <1>6, <1>7 DEF V, m, B, slots, top

\* The recursion has a solution, which draws boxes.
LEMMA BoxesAre ==
    ASSUME NEW tree, IsTree(tree), Timed(tree.rows), NEW width \in Nat
    PROVE  /\ Boxes(tree, width) =
                [n \in Grounded(tree.rows) |-> BoxesOf(tree, width, Boxes(tree, width), n)]
           /\ Boxes(tree, width) \in [Grounded(tree.rows) -> [Place -> Seq(Box(tree))]]
<1> DEFINE G == Grounded(tree.rows)
           V == [Place -> Seq(Box(tree))]
           Drawn1(i, vs) ==
             [at \in Place |->
                IF 2 * at.width < Scale(tree) THEN <<>>
                ELSE <<[span |-> i, at |-> at]>>
                     \o FlattenSeq(Filled(tree, width, i, at, vs))]
           H == [i \in G |-> [vs \in [DOMAIN tree.children[i] -> V] |-> Drawn1(i, vs)]]
           L == Boxes(tree, width)
<1>0. IsRows(tree.rows) /\ G \subseteq DOMAIN tree.rows
  BY DEF IsTree, Grounded
<1>1. \A i \in G : /\ DOMAIN tree.children[i] = 1..Count(tree, i)
                   /\ \A k \in 1..Count(tree, i) : tree.children[i][k] \in Kids(tree.rows, i)
  BY <1>0, PartsAre
<1>2. \A i \in G : \A j \in Kids(tree.rows, i) : j \in G
  BY <1>0, RankIs
<1>3. ASSUME NEW i \in G, NEW vs \in [DOMAIN tree.children[i] -> V]
      PROVE  Drawn1(i, vs) \in V
  <2>1. \A k \in 1..Count(tree, i) : vs[k] \in [Place -> Seq(Box(tree))]
    BY <1>1
  <2> DEFINE E(at) == <<[span |-> i, at |-> at]>>
                      \o FlattenSeq(Filled(tree, width, i, at, vs))
  <2>2. \A at \in Place : E(at) \in Seq(Box(tree))
    <3> SUFFICES ASSUME NEW at \in Place PROVE E(at) \in Seq(Box(tree))
      OBVIOUS
    <3>1. i \in DOMAIN tree.rows
      BY <1>0
    <3> QED
      BY <2>1, <3>1, OneBox
  <2>3. <<>> \in Seq(Box(tree))
    OBVIOUS
  <2>4. Drawn1(i, vs) = [at \in Place |-> IF 2 * at.width < Scale(tree) THEN <<>> ELSE E(at)]
    OBVIOUS
  <2> HIDE DEF E, Drawn1
  <2> QED
    BY <2>2, <2>3, <2>4
<1>4. PICK f \in [G -> V] : \A i \in G : f[i] = H[i][AtKids(tree, f, i)]
  <2>1. V # {}
    <3>1. [at \in Place |-> <<>>] \in V
      OBVIOUS
    <3> QED
      BY <3>1
  <2>2. \A i \in G : \A vs \in [DOMAIN tree.children[i] -> V] : H[i][vs] = Drawn1(i, vs) /\ H[i][vs] \in V
    <3> HIDE DEF Drawn1, V
    <3> QED
      BY <1>3
  <2>3. Rule(tree, V, H)
    <3> HIDE DEF H, V, Drawn1
    <3> QED
      BY <2>1, <2>2 DEF Rule
  <2> HIDE DEF H, V
  <2> QED
    BY <2>3, Recursion DEF Follows
<1>5. \A i \in G : AtKids(tree, f, i) \in [DOMAIN tree.children[i] -> V]
  <2> HIDE DEF V
  <2> QED
    BY <1>1, <1>2 DEF AtKids
<1>6. \A i \in G : f[i] = Drawn1(i, AtKids(tree, f, i))
  <2> HIDE DEF V, Drawn1
  <2> QED
    BY <1>4, <1>5
<1>7. ASSUME NEW i \in G PROVE Drawn1(i, AtKids(tree, f, i)) = BoxesOf(tree, width, f, i)
  <2> DEFINE S(at) == Filled(tree, width, i, at, AtKids(tree, f, i))
             T(at) == [k \in DOMAIN tree.children[i] |->
                          f[tree.children[i][k]][Slot(tree, width, i, at, k)]]
  <2>1. \A at : S(at) = T(at)
    BY <1>1 DEF AtKids, Filled
  <2>2. Drawn1(i, AtKids(tree, f, i)) =
          [at \in Place |-> IF 2 * at.width < Scale(tree) THEN <<>>
                            ELSE <<[span |-> i, at |-> at]>> \o FlattenSeq(S(at))]
    BY Zenon
  <2>3. BoxesOf(tree, width, f, i) =
          [at \in Place |-> IF 2 * at.width < Scale(tree) THEN <<>>
                            ELSE <<[span |-> i, at |-> at]>> \o FlattenSeq(T(at))]
    BY Zenon DEF BoxesOf
  <2> HIDE DEF Drawn1, S, T
  <2> QED
    BY <2>1, <2>2, <2>3
<1>8. f = [n \in G |-> BoxesOf(tree, width, f, n)]
  <2>1. f = [n \in G |-> f[n]]
    BY <1>4
  <2> HIDE DEF Drawn1
  <2>2. \A n \in G : f[n] = BoxesOf(tree, width, f, n)
    BY <1>6, <1>7
  <2> QED
    BY <2>1, <2>2
<1>9. L = [n \in G |-> BoxesOf(tree, width, L, n)]
  BY <1>8, Zenon DEF Boxes
<1> HIDE DEF L
<1> DEFINE Q == {n \in G : L[n] \in V}
<1>10. ASSUME NEW n \in G, Kids(tree.rows, n) \subseteq Q PROVE n \in Q
  <2> DEFINE vs == AtKids(tree, L, n)
  <2>1. vs \in [DOMAIN tree.children[n] -> V]
    <3> HIDE DEF V
    <3> QED
      BY <1>1, <1>10 DEF AtKids
  <2> DEFINE S(at) == Filled(tree, width, n, at, vs)
             T(at) == [k \in DOMAIN tree.children[n] |->
                          L[tree.children[n][k]][Slot(tree, width, n, at, k)]]
  <2>2. \A at : S(at) = T(at)
    BY <1>1 DEF AtKids, Filled
  <2>3. Drawn1(n, vs) =
          [at \in Place |-> IF 2 * at.width < Scale(tree) THEN <<>>
                            ELSE <<[span |-> n, at |-> at]>> \o FlattenSeq(S(at))]
    BY Zenon
  <2>4. BoxesOf(tree, width, L, n) =
          [at \in Place |-> IF 2 * at.width < Scale(tree) THEN <<>>
                            ELSE <<[span |-> n, at |-> at]>> \o FlattenSeq(T(at))]
    BY Zenon DEF BoxesOf
  <2>5. Drawn1(n, vs) = BoxesOf(tree, width, L, n)
    <3> HIDE DEF Drawn1, S, T
    <3> QED
      BY <2>2, <2>3, <2>4
  <2>6. Drawn1(n, vs) \in V
    BY <1>3, <2>1
  <2>7. L[n] = BoxesOf(tree, width, L, n)
    BY <1>9
  <2> HIDE DEF Drawn1, V
  <2> QED
    BY <2>5, <2>6, <2>7
<1>11. Q = G
  <2>1. Q \in SUBSET G
    OBVIOUS
  <2> HIDE DEF Q
  <2> QED
    BY <1>0, <1>10, <2>1, FromBelow
<1>12. L \in [G -> V]
  <2> HIDE DEF V
  <2>1. L = [n \in G |-> L[n]]
    BY <1>9
  <2> QED
    BY <1>11, <2>1
<1> QED
  BY <1>9, <1>12 DEF L

\* The boxes of a frame at a place: none, or its own and those of its children in their slots.
LEMMA BoxSet ==
    ASSUME NEW tree, IsTree(tree), Timed(tree.rows), NEW width \in Nat,
           NEW n \in Grounded(tree.rows), NEW at \in Place
    PROVE  \/ ToSet(Boxes(tree, width)[n][at]) = {}
           \/ ToSet(Boxes(tree, width)[n][at]) =
                {[span |-> n, at |-> at]} \cup
                UNION {ToSet(Boxes(tree, width)[tree.children[n][k]][Slot(tree, width, n, at, k)]) :
                          k \in 1..Count(tree, n)}
<1> DEFINE L == Boxes(tree, width)
           m == Count(tree, n)
           V == [Place -> Seq(Box(tree))]
           vs == AtKids(tree, L, n)
           fs == Filled(tree, width, n, at, vs)
           top == [span |-> n, at |-> at]
           T == [k \in DOMAIN tree.children[n] |-> L[tree.children[n][k]][Slot(tree, width, n, at, k)]]
           K(k) == L[tree.children[n][k]][Slot(tree, width, n, at, k)]
<1>0. n \in DOMAIN tree.rows /\ IsRows(tree.rows)
  BY DEF IsTree, Grounded
<1>1. /\ DOMAIN tree.children[n] = 1..m /\ m \in Nat
      /\ \A k \in 1..m : tree.children[n][k] \in Grounded(tree.rows)
  BY <1>0, PartsAre, RankIs
<1>2. L = [i \in Grounded(tree.rows) |-> BoxesOf(tree, width, L, i)] /\ L \in [Grounded(tree.rows) -> V]
  BY BoxesAre
<1>3. L[n][at] = IF 2 * at.width < Scale(tree) THEN <<>> ELSE <<top>> \o FlattenSeq(T)
  <2> HIDE DEF L
  <2>1. L[n] = BoxesOf(tree, width, L, n)
    BY <1>2
  <2> QED
    BY <2>1 DEF BoxesOf
<1>4. \A k \in 1..m : vs[k] \in V
  <2> HIDE DEF V, L
  <2> QED
    BY <1>1, <1>2 DEF AtKids
<1>5. T = fs /\ \A k \in 1..m : fs[k] = K(k)
  <2> HIDE DEF L
  <2> QED
    BY <1>1 DEF AtKids, Filled
<1>6. /\ fs \in Seq(Seq(Box(tree))) /\ Len(fs) = m
      /\ <<top>> \in Seq(Box(tree)) /\ FlattenSeq(fs) \in Seq(Box(tree))
  BY <1>0, <1>4, OneBox
<1> HIDE DEF fs, T, m, V
<1>7. ToSet(FlattenSeq(fs)) = UNION {ToSet(K(k)) : k \in 1..m}
  <2>1. ToSet(FlattenSeq(fs)) = UNION {ToSet(fs[k]) : k \in DOMAIN fs}
    BY <1>6, FlattenLists
  <2>2. DOMAIN fs = 1..m
    BY <1>6
  <2> HIDE DEF K
  <2> QED
    BY <1>5, <2>1, <2>2
<1>8. ToSet(<<top>> \o FlattenSeq(fs)) = {top} \cup ToSet(FlattenSeq(fs))
  <2> DEFINE a == <<top>>  b == FlattenSeq(fs)
  <2>1. ToSet(a) = {top} /\ a \in Seq(Box(tree)) /\ b \in Seq(Box(tree))
    <3>1. ToSet(<<top>>) = {top}
      BY OneIs
    <3> QED
      BY <1>6, <3>1
  <2> HIDE DEF a, b
  <2>2. ToSet(a \o b) = ToSet(a) \cup ToSet(b)
    BY <2>1, ConcatLists
  <2> QED
    BY <2>1, <2>2 DEF a, b
<1>9. ToSet(<<>>) = {}
  BY DEF ToSet
<1>10. CASE 2 * at.width < Scale(tree)
  BY <1>3, <1>9, <1>10
<1>11. CASE ~(2 * at.width < Scale(tree))
  <2>1. L[n][at] = <<top>> \o FlattenSeq(fs)
    BY <1>3, <1>5, <1>11
  <2>2. ToSet(L[n][at]) = {top} \cup UNION {ToSet(K(k)) : k \in 1..m}
    <3> HIDE DEF K
    <3> QED
      BY <1>7, <1>8, <2>1
  <2> QED
    BY <2>2 DEF m
<1> QED
  BY <1>10, <1>11

\* The spans below two children of a span.
LEMMA BelowKids ==
    ASSUME NEW rows, IsRows(rows), NEW n \in Grounded(rows),
           NEW k \in Kids(rows, n), NEW l \in Kids(rows, n), NEW x \in Below(rows, k), NEW y \in Below(rows, l)
    PROVE  /\ x \in Below(rows, n) /\ x # n
           /\ ParentOf(rows, x) = y => k = l
           /\ ParentOf(rows, n) # x /\ ParentOf(rows, n) # n
           /\ ParentOf(rows, x) = n => x = k
<1>0. /\ n \in DOMAIN rows /\ k \in DOMAIN rows /\ l \in DOMAIN rows
      /\ x \in Grounded(rows) /\ y \in Grounded(rows) /\ x \in DOMAIN rows /\ y \in DOMAIN rows
      /\ NoSpan \notin DOMAIN rows
      /\ k \in Up(rows, x) /\ l \in Up(rows, y)
  BY RowsAre DEF Kids, Below, Grounded
<1>1. /\ \A a, b \in Kids(rows, n) : a \in Up(rows, x) /\ b \in Up(rows, x) => a = b
      /\ n \in Up(rows, x)
  BY <1>0, OneKidAbove
<1>2. k \notin Up(rows, n)
  <2>1. ParentOf(rows, k) = n /\ k \in Grounded(rows)
    BY <1>0, RankIs DEF Kids
  <2> QED
    BY <1>0, <2>1, NotAbove
<1>3. \A z \in DOMAIN rows : ParentOf(rows, z) # NoSpan => Up(rows, z) = {z} \cup Up(rows, ParentOf(rows, z))
  BY UpStep
<1>4. x \in Below(rows, n) /\ x # n
  BY <1>0, <1>1, <1>2 DEF Below
<1>5. ASSUME ParentOf(rows, x) = y PROVE k = l
  <2>1. l \in Up(rows, x)
    BY <1>0, <1>3, <1>5
  <2> QED
    BY <1>0, <1>1, <2>1
<1>6. ParentOf(rows, n) # x
  BY <1>0, <1>2, <1>3
<1>7. ParentOf(rows, n) # n
  <2> SUFFICES ASSUME ParentOf(rows, n) = n PROVE FALSE
    OBVIOUS
  <2>1. n \notin Up(rows, n)
    BY <1>0, NotAbove
  <2> QED
    BY <1>0, <2>1, UpStep
<1>8. ASSUME ParentOf(rows, x) = n PROVE x = k
  <2>1. x \in Kids(rows, n) /\ x \in Up(rows, x)
    BY <1>0, <1>8, UpStep DEF Kids
  <2> QED
    BY <1>0, <1>1, <2>1
<1> QED
  BY <1>4, <1>5, <1>6, <1>7, <1>8

\* The boxes of a frame at a place stay below it, and within it if there is no excess.
Sits(tree, B, n, at, w) ==
    /\ B \subseteq Box(tree)
    /\ \A b \in B : /\ b.span \in Below(tree.rows, n) /\ b.at.depth >= at.depth
                    /\ b.at.x >= at.x /\ (w = 0 => End(b.at) <= End(at))
                    /\ b.span = n \/ b.at.depth = at.depth => b = [span |-> n, at |-> at]
    /\ NestedWithin(tree, B, w)
    /\ w = 0 => RowsApart(B)

\* Slots side by side, in a place but for some excess and one row below it.
Fit(m, at, slots, w) ==
    \A k \in 1..m :
      /\ slots[k] \in Place /\ slots[k].depth = at.depth + 1
      /\ slots[k].x >= at.x /\ End(slots[k]) <= End(at) + w
      /\ \A l \in 1..m : k < l => End(slots[k]) <= slots[l].x

\* If the children's boxes sit in such slots, the frame's sit at its place.
LEMMA TogetherSits ==
    ASSUME NEW tree, IsTree(tree), NEW n \in Grounded(tree.rows), NEW at \in Place,
           NEW w \in Nat, NEW slots, Fit(Count(tree, n), at, slots, w), Count(tree, n) \in Nat,
           DOMAIN tree.children[n] = 1..Count(tree, n),
           NEW Bs, \A k \in 1..Count(tree, n) : Sits(tree, Bs[k], tree.children[n][k], slots[k], w)
    PROVE  Sits(tree, {[span |-> n, at |-> at]} \cup UNION {Bs[k] : k \in 1..Count(tree, n)}, n, at, w)
<1> DEFINE rows == tree.rows
           m == Count(tree, n)
           o == tree.children[n]
           top == [span |-> n, at |-> at]
           C == {top} \cup UNION {Bs[k] : k \in 1..m}
<1>0. /\ IsRows(rows) /\ n \in DOMAIN rows /\ NoSpan \notin DOMAIN rows
      /\ IsInjective(o) /\ ToSet(o) = Kids(rows, n) /\ DOMAIN o = 1..m /\ m \in Nat
  BY RowsAre DEF IsTree, Lists, Grounded
<1>1. /\ top \in Box(tree) /\ top.span = n /\ top.at = at /\ n \in Below(rows, n)
      /\ at.x \in Nat /\ at.width \in Nat /\ at.depth \in Nat /\ End(at) \in Nat
  BY <1>0, UpStep DEF Box, Place, Below, End
<1> HIDE DEF m, o, top
<1>2. \A k \in 1..m : o[k] \in Kids(rows, n)
  BY <1>0 DEF ToSet
<1>3. \A b \in Box(tree) : /\ b.span \in DOMAIN rows /\ b.at.x \in Nat /\ b.at.depth \in Nat
                           /\ b.at.width \in Nat /\ End(b.at) \in Nat
  BY DEF Box, Place, End
<1>4. ASSUME NEW k \in 1..m, NEW b \in Bs[k]
      PROVE  /\ b \in Box(tree) /\ b.span \in Below(rows, o[k]) /\ b.at.depth >= at.depth + 1
             /\ b.at.x >= slots[k].x /\ (w = 0 => End(b.at) <= End(slots[k]))
             /\ b.at.x >= at.x /\ (w = 0 => End(b.at) <= End(at))
             /\ b.span = o[k] => b.at.depth = at.depth + 1 /\ End(b.at) <= End(at) + w
  <2>1. /\ slots[k] \in Place /\ slots[k].depth = at.depth + 1
        /\ slots[k].x >= at.x /\ End(slots[k]) <= End(at) + w
    BY DEF Fit, m
  <2>2. /\ b \in Box(tree) /\ b.span \in Below(rows, o[k]) /\ b.at.depth >= slots[k].depth
        /\ b.at.x >= slots[k].x /\ (w = 0 => End(b.at) <= End(slots[k]))
        /\ b.span = o[k] => b = [span |-> o[k], at |-> slots[k]]
    BY <1>4 DEF Sits, m, o
  <2>3. slots[k].x \in Nat /\ End(slots[k]) \in Nat
    BY <2>1 DEF Place, End
  <2>4. b.span = o[k] => b.at.depth = at.depth + 1 /\ End(b.at) <= End(at) + w
    <3>1. b.span = o[k] => b.at = slots[k]
      BY <2>2
    <3> QED
      BY <2>1, <3>1
  <2>5. b.at.x >= at.x /\ (w = 0 => End(b.at) <= End(at))
    <3>1. /\ b.at.x \in Nat /\ End(b.at) \in Nat /\ at.x \in Nat /\ End(at) \in Nat
          /\ slots[k].x >= at.x /\ b.at.x >= slots[k].x
          /\ w = 0 => End(slots[k]) <= End(at) + 0 /\ End(b.at) <= End(slots[k])
      BY <1>1, <1>3, <2>1, <2>2
    <3> QED
      BY ONLY <2>3, <3>1
  <2> QED
    BY <2>1, <2>2, <2>4, <2>5
<1>5. \A b \in C : b = top \/ \E k \in 1..m : b \in Bs[k]
  OBVIOUS
<1>6. C \subseteq Box(tree)
  BY <1>1, <1>4, <1>5
<1>7. ASSUME NEW b \in C
      PROVE  /\ b.span \in Below(rows, n) /\ b.at.depth >= at.depth
             /\ b.at.x >= at.x /\ (w = 0 => End(b.at) <= End(at))
             /\ b.span = n \/ b.at.depth = at.depth => b = top
  <2>1. CASE b = top
    BY <1>1, <2>1
  <2>2. CASE \E k \in 1..m : b \in Bs[k]
    <3>1. PICK k \in 1..m : b \in Bs[k]
      BY <2>2
    <3>2. b.span \in Below(rows, n) /\ b.span # n
      BY <1>0, <1>2, <1>4, <3>1, BelowKids
    <3>3. b.at.depth >= at.depth /\ b.at.depth # at.depth
      BY <1>1, <1>3, <1>4, <3>1
    <3> QED
      BY <1>4, <3>1, <3>2, <3>3
  <2> QED
    BY <1>5, <2>1, <2>2
<1>8. \A a, b \in Box(tree) : a.span \in ToSet(tree.children[b.span]) <=> ParentOf(rows, a.span) = b.span
  <2>1. \A i \in DOMAIN rows : ToSet(tree.children[i]) = Kids(rows, i)
    BY DEF IsTree, Lists
  <2> QED
    BY <1>3, <2>1 DEF Kids
<1>9. ASSUME NEW a \in C, NEW b \in C, a.span \in ToSet(tree.children[b.span])
      PROVE  a.at.x >= b.at.x /\ End(a.at) <= End(b.at) + w /\ a.at.depth = b.at.depth + 1
  <2>0. ParentOf(rows, a.span) = b.span
    BY <1>6, <1>8, <1>9
  <2>1. CASE a = top /\ b = top
    <3>1. ParentOf(rows, n) = n
      BY <1>1, <2>0, <2>1
    <3>2. n \notin Up(rows, n)
      BY <1>0, <3>1, NotAbove
    <3> QED
      BY <1>0, <3>2, UpStep
  <2>2. CASE a = top /\ \E k \in 1..m : b \in Bs[k]
    <3>1. PICK k \in 1..m : b \in Bs[k]
      BY <2>2
    <3>2. ParentOf(rows, n) # b.span
      BY <1>0, <1>2, <1>4, <3>1, BelowKids
    <3> QED
      BY <1>1, <2>0, <2>2, <3>2
  <2>3. CASE b = top /\ \E k \in 1..m : a \in Bs[k]
    <3>1. PICK k \in 1..m : a \in Bs[k]
      BY <2>3
    <3>2. ParentOf(rows, a.span) = n
      BY <1>1, <2>0, <2>3
    <3>3. a.span = o[k]
      BY <1>0, <1>2, <1>4, <3>1, <3>2, BelowKids
    <3> QED
      BY <1>1, <1>4, <2>3, <3>1, <3>3
  <2>4. CASE (\E k \in 1..m : a \in Bs[k]) /\ (\E l \in 1..m : b \in Bs[l])
    <3>1. PICK k \in 1..m, l \in 1..m : a \in Bs[k] /\ b \in Bs[l]
      BY <2>4
    <3>2. o[k] = o[l]
      BY <1>0, <1>2, <1>4, <2>0, <3>1, BelowKids
    <3>3. k = l
      BY <1>0, <3>1, <3>2 DEF IsInjective
    <3>4. NestedWithin(tree, Bs[k], w)
      BY <3>1 DEF Sits, m
    <3> QED
      BY <1>9, <3>1, <3>3, <3>4 DEF NestedWithin
  <2> QED
    BY <1>5, <2>1, <2>2, <2>3, <2>4
<1>10. ASSUME w = 0, NEW k \in 1..m, NEW l \in 1..m, k < l, NEW a \in Bs[k], NEW b \in Bs[l]
       PROVE  End(a.at) <= b.at.x
  <2>1. End(slots[k]) <= slots[l].x /\ slots[k] \in Place /\ slots[l] \in Place
    BY <1>10 DEF Fit, m
  <2>2. End(a.at) <= End(slots[k]) /\ b.at.x >= slots[l].x /\ a \in Box(tree) /\ b \in Box(tree)
    BY <1>4, <1>10
  <2>3. End(slots[k]) \in Nat /\ slots[l].x \in Nat /\ End(a.at) \in Nat /\ b.at.x \in Nat
    <3>1. End(a.at) \in Nat /\ b.at.x \in Nat
      BY <1>3, <2>2
    <3>2. \A p \in Place : End(p) \in Nat /\ p.x \in Nat
      BY DEF Place, End
    <3> QED
      BY ONLY <2>1, <3>1, <3>2
  <2> QED
    BY ONLY <2>1, <2>2, <2>3
<1>11. ASSUME w = 0, NEW a \in C, NEW b \in C, a.at.depth = b.at.depth, a # b
       PROVE  End(a.at) <= b.at.x \/ End(b.at) <= a.at.x
  <2>1. (a = top => b = top) /\ (b = top => a = top)
    BY <1>1, <1>7, <1>11
  <2>2. PICK k \in 1..m, l \in 1..m : a \in Bs[k] /\ b \in Bs[l]
    BY <1>5, <1>11, <2>1
  <2>3. CASE k < l
    BY <1>10, <1>11, <2>2, <2>3
  <2>4. CASE l < k
    BY <1>10, <1>11, <2>2, <2>4
  <2>5. CASE k = l
    <3>1. RowsApart(Bs[k])
      BY <1>11 DEF Sits, m
    <3> QED
      BY <1>11, <2>2, <2>5, <3>1 DEF RowsApart
  <2>6. k < l \/ l < k \/ k = l
    BY <1>0
  <2> QED
    BY <2>3, <2>4, <2>5, <2>6
<1>12. NestedWithin(tree, C, w) /\ (w = 0 => RowsApart(C))
  <2> HIDE DEF C
  <2> QED
    BY <1>9, <1>11 DEF NestedWithin, RowsApart
<1> HIDE DEF C
<1>13. Sits(tree, C, n, at, w)
  BY <1>6, <1>7, <1>12 DEF Sits, top
<1> QED
  BY <1>13 DEF C, top, m

\* A place where a frame fits: as wide as its value, which the values of the children of
\* no frame below it exceed by more than so much.
Fitting(tree, width, n, at, e) ==
    /\ Micros(tree.rows[n].dur) * width <= at.width
    /\ \A i \in Below(tree.rows, n) : Excess(tree, i, e)

\* There its boxes sit.
LEMMA BoxesSit ==
    ASSUME NEW tree, IsTree(tree), Timed(tree.rows), NEW width \in Nat, NEW e \in Nat
    PROVE  \A n \in Grounded(tree.rows) : \A at \in Place :
             Fitting(tree, width, n, at, e) =>
                 Sits(tree, ToSet(Boxes(tree, width)[n][at]), n, at, width * e)
<1> DEFINE rows == tree.rows
           G == Grounded(rows)
           L == Boxes(tree, width)
           w == width * e
           Good(n) == \A at \in Place : Fitting(tree, width, n, at, e) =>
                                          Sits(tree, ToSet(L[n][at]), n, at, w)
           Q == {n \in G : Good(n)}
<1>0. IsRows(rows) /\ G \subseteq DOMAIN rows
  BY DEF IsTree, Grounded
<1>w. w \in Nat
  BY Stretched
<1>1. ASSUME NEW n \in G, Kids(rows, n) \subseteq Q,
             NEW at \in Place, Fitting(tree, width, n, at, e)
      PROVE  Sits(tree, ToSet(L[n][at]), n, at, w)
  <2> DEFINE m == Count(tree, n)
             o == tree.children[n]
             slots == [k \in 1..m |-> Slot(tree, width, n, at, k)]
             Bs == [k \in 1..m |-> ToSet(L[o[k]][Slot(tree, width, n, at, k)])]
             top == [span |-> n, at |-> at]
  <2>0. /\ m \in Nat /\ DOMAIN o = 1..m /\ n \in DOMAIN rows
        /\ \A k \in 1..m : o[k] \in Kids(rows, n) /\ o[k] \in Q /\ o[k] \in G
    BY <1>0, <1>1, PartsAre
  <2>1. Excess(tree, n, e) /\ Micros(rows[n].dur) * width <= at.width
    BY <1>0, <1>1, UpStep DEF Fitting, Below
  <2>2. ASSUME NEW k \in 1..m
        PROVE  /\ slots[k] \in Place /\ slots[k].depth = at.depth + 1
               /\ slots[k].x >= at.x /\ End(slots[k]) <= End(at) + w
               /\ slots[k].width = Micros(rows[o[k]].dur) * width
               /\ \A l \in 1..m : k < l => End(slots[k]) <= slots[l].x
    BY <2>0, <2>1, SlotsAre
  <2>3. Fit(m, at, slots, w)
    <3> HIDE DEF slots, m, w
    <3> QED
      BY <2>2 DEF Fit
  <2>4. ASSUME NEW k \in 1..m PROVE Sits(tree, Bs[k], o[k], slots[k], w)
    <3>1. Fitting(tree, width, o[k], slots[k], e)
      <4>1. slots[k] \in Place /\ slots[k].width = Micros(rows[o[k]].dur) * width
        BY <2>2
      <4>2. Micros(rows[o[k]].dur) * width \in Nat
        BY <4>1 DEF Place
      <4>3. \A i \in Below(rows, o[k]) : i \in Below(rows, n)
        BY <1>0, <2>0, BelowKids
      <4>4. Micros(rows[o[k]].dur) * width <= slots[k].width
        BY <4>1, <4>2
      <4> HIDE DEF slots, o
      <4> QED
        BY <1>1, <4>3, <4>4 DEF Fitting
    <3>2. Good(o[k]) /\ slots[k] \in Place
      BY <2>0, <2>2
    <3>3. Sits(tree, ToSet(L[o[k]][slots[k]]), o[k], slots[k], w)
      BY <3>1, <3>2
    <3>4. Bs[k] = ToSet(L[o[k]][slots[k]])
      OBVIOUS
    <3> QED
      BY <3>3, <3>4
  <2>5. CASE ToSet(L[n][at]) = {}
    BY <2>5 DEF Sits, NestedWithin, RowsApart
  <2>6. CASE ToSet(L[n][at]) = {top} \cup UNION {ToSet(L[o[k]][Slot(tree, width, n, at, k)]) : k \in 1..m}
    <3>1. {ToSet(L[o[k]][Slot(tree, width, n, at, k)]) : k \in 1..m} = {Bs[k] : k \in 1..m}
      OBVIOUS
    <3> HIDE DEF Bs, slots, w
    <3>2. Sits(tree, {top} \cup UNION {Bs[k] : k \in 1..m}, n, at, w)
      <4>1. n \in Grounded(tree.rows) /\ at \in Place /\ IsTree(tree)
        BY <1>1
      <4>2. Count(tree, n) \in Nat /\ DOMAIN tree.children[n] = 1..Count(tree, n)
        BY <2>0
      <4>3. \A k \in 1..Count(tree, n) : Sits(tree, Bs[k], tree.children[n][k], slots[k], w)
        BY <2>4
      <4>4. Fit(Count(tree, n), at, slots, w)
        BY <2>3
      <4> QED
        BY ONLY <1>w, <4>1, <4>2, <4>3, <4>4, TogetherSits
    <3> QED
      BY <2>6, <3>1, <3>2
  <2>7. n \in Grounded(tree.rows) /\ at \in Place
    BY <1>1
  <2> HIDE DEF w, G, Q
  <2> QED
    BY <2>5, <2>6, <2>7, BoxSet
<1>2. \A n \in G : Kids(rows, n) \subseteq Q => n \in Q
  <2> HIDE DEF G
  <2> QED
    BY <1>1
<1>3. Q = G
  <2>1. Q \in SUBSET G
    OBVIOUS
  <2> HIDE DEF Q
  <2> QED
    BY <1>0, <1>2, <2>1, FromBelow
<1> QED
  BY <1>3

\* The boxes are drawn from the root at a place where it fits.
LEMMA DrawFrameIs ==
    ASSUME NEW tree, IsTree(tree), Timed(tree.rows), NEW width \in Nat,
           tree.root \in Grounded(tree.rows)
    PROVE  \E at \in Place : /\ DrawFrame(tree, width) = Boxes(tree, width)[tree.root][at]
                             /\ Micros(tree.rows[tree.root].dur) * width <= at.width
<1> DEFINE s == Scale(tree)
           d == Micros(tree.rows[tree.root].dur)
           at == [x |-> 0, width |-> s * width, depth |-> 0]
<1>1. d \in Nat /\ s \in Nat /\ d <= s
  <2>1. d \in Nat
    BY DEF Timed, CutOff, Grounded
  <2> QED
    BY <2>1 DEF Scale
<1>2. DrawFrame(tree, width) = Boxes(tree, width)[tree.root][at]
  BY Zenon DEF DrawFrame, Boxes, BoxesOf, Slot
<1> HIDE DEF s, d
<1>3. s * width \in Nat /\ d * width <= s * width
  <2>1. width * d <= width * s /\ d * width = width * d /\ s * width = width * s /\ s * width \in Nat
    BY <1>1, Stretched
  <2> QED
    BY <2>1
<1>4. at \in Place /\ at.width = s * width
  BY <1>3 DEF Place
<1> QED
  BY <1>2, <1>3, <1>4 DEF d

\* What is drawn for a root whose frames have so much excess.
LEMMA DrawnSits ==
    ASSUME TracesInv, NEW c \in Callers, Shown(c, "svg"), NEW e \in Nat,
           \A i \in ToSet(Walk(caller[c].tree, caller[c].tree.root)) : Excess(caller[c].tree, i, e)
    PROVE  LET tree == caller[c].tree
               boxes == ToSet(caller[c].body.boxes)
           IN  NestedWithin(tree, boxes, Width * e) /\ (Width * e = 0 => RowsApart(boxes))
<1> DEFINE tree == caller[c].tree
           boxes == caller[c].body.boxes
<1>1. /\ IsTree(tree) /\ tree.root # NoSpan /\ Timed(tree.rows)
      /\ boxes = DrawFrame(tree, Width)
  BY DEF TracesInv, Carries, Answered, Drawn, Shown, Origin
<1>2. tree.root \in Grounded(tree.rows)
  BY <1>1, RootIs, GroundedStep DEF IsTree
<1>3. Width \in Nat
  BY WidthAssumption
<1>4. ToSet(Walk(tree, tree.root)) = Below(tree.rows, tree.root)
  BY <1>1, <1>2, WalkLists DEF Lists
<1>5. \A i \in Below(tree.rows, tree.root) : Excess(tree, i, e)
  BY <1>4
<1> HIDE DEF tree, boxes
<1>6. PICK at \in Place : /\ boxes = Boxes(tree, Width)[tree.root][at]
                          /\ Micros(tree.rows[tree.root].dur) * Width <= at.width
  BY <1>1, <1>2, <1>3, DrawFrameIs
<1>7. Fitting(tree, Width, tree.root, at, e)
  BY <1>5, <1>6 DEF Fitting
<1>8. Sits(tree, ToSet(boxes), tree.root, at, Width * e)
  BY <1>1, <1>2, <1>3, <1>6, <1>7, BoxesSit
<1> QED
  BY <1>8 DEF Sits, tree, boxes

\* If no span of the walk is shorter than its children together, each box ends at most the width
\* of one microsecond behind its parent's; if none has a smaller value than its children together,
\* the boxes of children lie within their parents' and those of one row are apart (drawFrame,
\* convertSpanToFlameFrame).
THEOREM BoxesDrawnApart == Spec => []BoxesNest
<1>1. TracesInv => BoxesNest
  <2> SUFFICES ASSUME TracesInv, NEW c \in Callers, Shown(c, "svg")
               PROVE  LET tree == caller[c].tree
                          boxes == ToSet(caller[c].body.boxes)
                          walk == ToSet(Walk(tree, tree.root))
                      IN  /\ (\A i \in walk : SelfTime(tree, i) >= 0) =>
                                NestedWithin(tree, boxes, Width)
                          /\ (\A i \in walk : Values(tree, tree.children[i]) <= Micros(tree.rows[i].dur)) =>
                                NestedWithin(tree, boxes, 0) /\ RowsApart(boxes)
    BY Zenon DEF BoxesNest
  <2> DEFINE tree == caller[c].tree
             boxes == ToSet(caller[c].body.boxes)
             walk == ToSet(Walk(tree, tree.root))
  <2>1. /\ IsTree(tree) /\ Timed(tree.rows) /\ tree.root # NoSpan
    BY DEF TracesInv, Carries, Shown, Answered, Origin
  <2>2. walk \subseteq DOMAIN tree.rows
    <3>1. tree.root \in Grounded(tree.rows)
      BY <2>1, RootIs, GroundedStep DEF IsTree
    <3> HIDE DEF tree, walk
    <3>2. ToSet(Walk(tree, tree.root)) = Below(tree.rows, tree.root)
      BY <2>1, <3>1, WalkLists DEF Lists
    <3> QED
      BY <3>2 DEF walk, Below, Grounded
  <2>3. Width * 1 = Width /\ Width * 0 = 0 /\ 0 \in Nat /\ 1 \in Nat
    BY WidthAssumption
  <2>4. ASSUME \A i \in walk : SelfTime(tree, i) >= 0
        PROVE  NestedWithin(tree, boxes, Width)
    <3>1. \A i \in walk : Excess(tree, i, 1)
      BY <2>1, <2>2, <2>4, CutOffCosts
    <3> QED
      BY <2>3, <3>1, DrawnSits
  <2>5. ASSUME \A i \in walk : Values(tree, tree.children[i]) <= Micros(tree.rows[i].dur)
        PROVE  NestedWithin(tree, boxes, 0) /\ RowsApart(boxes)
    <3>1. \A i \in walk : Micros(tree.rows[i].dur) + 0 = Micros(tree.rows[i].dur)
      BY <2>1, <2>2 DEF Timed, CutOff
    <3>2. \A i \in walk : Excess(tree, i, 0)
      BY <2>5, <3>1 DEF Excess
    <3> QED
      BY <2>3, <3>2, DrawnSits
  <2> QED
    BY <2>4, <2>5
<1> QED
  BY TracesInit, TracesStep, <1>1, PTL DEF Spec

\* So every answer of getFlameGraph shows the trace (ToFolded, ToSVG, GetFrameStats, GetHotSpots).
THEOREM FlamesAreFaithful == Spec => []FlameFaithful
<1>1. FoldedShowsStacks /\ BoxesNest /\ StatsCountAll => FlameFaithful
  BY DEF FlameFaithful
<1> QED
  BY LinesShowStacks, BoxesDrawnApart, StatsCountEverySpan, <1>1, PTL
=============================================================================
