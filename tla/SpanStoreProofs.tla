--------------------------- MODULE SpanStoreProofs ----------------------------
(***************************************************************************)
(* Proofs about SpanStore, for every capacity, batch size, number of       *)
(* retries and number of calls: the types, that accepted spans are neither *)
(* lost nor reordered on their way through queue and batch, that the       *)
(* copies in the table agree with the counters, and that the store         *)
(* implements the abstract delivery of SpanDelivery.                       *)
(***************************************************************************)
EXTENDS SpanStore, SequenceTheorems, FiniteSetTheorems, TLAPS

-----------------------------------------------------------------------------
(* Sequences.                                                              *)

\* The elements of a sequence are members of its base set.
LEMMA ElementsIn ==
    ASSUME NEW S, NEW q \in Seq(S)
    PROVE  Elements(q) \subseteq S
  BY ElementOfSeq, LenProperties DEF Elements

\* Where the elements of a concatenation come from.
LEMMA ConcatShape ==
    ASSUME NEW S, NEW b \in Seq(S), NEW q \in Seq(S)
    PROVE  /\ Len(b) \in Nat /\ Len(q) \in Nat /\ Len(b \o q) = Len(b) + Len(q)
           /\ DOMAIN b = 1..Len(b) /\ DOMAIN q = 1..Len(q)
           /\ DOMAIN (b \o q) = 1..(Len(b) + Len(q))
           /\ \A i \in 1..Len(b) : (b \o q)[i] = b[i]
           /\ \A i \in 1..Len(q) : (b \o q)[i + Len(b)] = q[i]
<1>1. /\ Len(b) \in Nat /\ Len(q) \in Nat /\ Len(b \o q) = Len(b) + Len(q)
      /\ DOMAIN b = 1..Len(b) /\ DOMAIN q = 1..Len(q)
      /\ DOMAIN (b \o q) = 1..(Len(b) + Len(q))
  BY LenProperties, ConcatProperties
<1>2. \A i \in 1..(Len(b) + Len(q)) :
           (b \o q)[i] = IF i <= Len(b) THEN b[i] ELSE q[i - Len(b)]
  BY ConcatProperties
<1>3. ASSUME NEW i \in 1..Len(b) PROVE (b \o q)[i] = b[i]
  BY <1>1, <1>2
<1>4. ASSUME NEW i \in 1..Len(q) PROVE (b \o q)[i + Len(b)] = q[i]
  <2>1. i + Len(b) \in 1..(Len(b) + Len(q)) /\ ~(i + Len(b) <= Len(b)) /\ i + Len(b) - Len(b) = i
    BY <1>1
  <2> QED
    BY <2>1, <1>2
<1> QED
  BY <1>1, <1>3, <1>4

\* A concatenation has the elements of both parts.
LEMMA ElementsConcat ==
    ASSUME NEW S, NEW b \in Seq(S), NEW q \in Seq(S)
    PROVE  Elements(b \o q) = Elements(b) \cup Elements(q)
<1>1. /\ DOMAIN b = 1..Len(b) /\ DOMAIN q = 1..Len(q) /\ Len(b) \in Nat /\ Len(q) \in Nat
      /\ DOMAIN (b \o q) = 1..(Len(b) + Len(q))
      /\ \A i \in 1..(Len(b) + Len(q)) :
           (b \o q)[i] = IF i <= Len(b) THEN b[i] ELSE q[i - Len(b)]
  BY LenProperties, ConcatProperties
<1>2. Elements(b \o q) \subseteq Elements(b) \cup Elements(q)
  BY <1>1 DEF Elements
<1>3. ASSUME NEW i \in DOMAIN b PROVE b[i] \in Elements(b \o q)
  BY <1>1, <1>3 DEF Elements
<1>4. ASSUME NEW i \in DOMAIN q PROVE q[i] \in Elements(b \o q)
  <2>1. i + Len(b) \in DOMAIN (b \o q) /\ (b \o q)[i + Len(b)] = q[i]
    BY <1>1, <1>4
  <2> QED
    BY <2>1 DEF Elements
<1> QED
  BY <1>2, <1>3, <1>4 DEF Elements

\* Appending adds one element.
LEMMA ElementsAppend ==
    ASSUME NEW S, NEW q \in Seq(S), NEW e \in S
    PROVE  Elements(Append(q, e)) = Elements(q) \cup {e}
<1>1. /\ DOMAIN q = 1..Len(q) /\ Len(q) \in Nat
      /\ DOMAIN Append(q, e) = 1..(Len(q) + 1)
      /\ \A i \in 1..Len(q) : Append(q, e)[i] = q[i]
      /\ Append(q, e)[Len(q) + 1] = e
  BY LenProperties, AppendProperties
<1> QED
  BY <1>1 DEF Elements

\* What is sent to the queue comes last in batch and queue together.
LEMMA ConcatAppend ==
    ASSUME NEW S, NEW b \in Seq(S), NEW q \in Seq(S), NEW e \in S
    PROVE  b \o Append(q, e) = Append(b \o q, e)
<1>1. <<e>> \in Seq(S) /\ b \o q \in Seq(S)
  BY ConcatProperties
<1>2. Append(q, e) = q \o <<e>> /\ Append(b \o q, e) = (b \o q) \o <<e>>
  BY <1>1, AppendIsConcat
<1> QED
  BY <1>1, <1>2, ConcatAssociative

\* Moving the head of the queue to the end of the batch changes nothing of both.
LEMMA ConcatMove ==
    ASSUME NEW S, NEW b \in Seq(S), NEW q \in Seq(S), q # <<>>
    PROVE  Append(b, Head(q)) \o Tail(q) = b \o q
<1>1. Head(q) \in S /\ Tail(q) \in Seq(S) /\ <<Head(q)>> \in Seq(S)
  BY HeadTailProperties
<1>2. Append(b, Head(q)) = b \o <<Head(q)>>
  BY <1>1, AppendIsConcat
<1>3. <<Head(q)>> \o Tail(q) = q
  BY <1>1
<1> QED
  BY <1>1, <1>2, <1>3, ConcatAssociative

\* What is left of batch and queue after the batch is the queue.
LEMMA ConcatRest ==
    ASSUME NEW S, NEW b \in Seq(S), NEW q \in Seq(S)
    PROVE  /\ SubSeq(b \o q, Len(b) + 1, Len(b \o q)) = q
           /\ {(b \o q)[i] : i \in 1..Len(b)} = Elements(b)
<1>1. /\ Len(b) \in Nat /\ Len(q) \in Nat /\ Len(b \o q) = Len(b) + Len(q)
      /\ DOMAIN b = 1..Len(b)
      /\ \A i \in 1..Len(b) : (b \o q)[i] = b[i]
  BY ConcatShape
<1>0. {(b \o q)[i] : i \in 1..Len(b)} = Elements(b)
  BY <1>1 DEF Elements
<1>2. CASE Len(q) = 0
  <2>1. q = <<>>
    BY <1>2, EmptySeq
  <2>2. SubSeq(b \o q, Len(b) + 1, Len(b) + Len(q)) = <<>>
    BY <1>1, <1>2, SubSeqEmpty
  <2> QED
    BY <1>0, <1>1, <2>1, <2>2
<1>3. CASE Len(q) # 0
  <2>1. /\ Len(b) + 1 \in Len(b) + 1 .. Len(b) + Len(q)
        /\ Len(b) + Len(q) \in Len(b) + 1 .. Len(b) + Len(q)
    BY <1>1, <1>3
  <2>2. SubSeq(b \o q, Len(b) + 1, Len(b) + Len(q))
          = SubSeq(q, Len(b) + 1 - Len(b), Len(b) + Len(q) - Len(b))
    BY <2>1, SubSeqOfConcat2
  <2>3. SubSeq(q, 1, Len(q)) = q
    BY SubSeqFull
  <2>4. Len(b) + 1 - Len(b) = 1 /\ Len(b) + Len(q) - Len(b) = Len(q)
    BY <1>1
  <2> QED
    BY <1>0, <1>1, <2>2, <2>3, <2>4
<1> QED
  BY <1>2, <1>3

\* Appending what exceeds all elements keeps a sequence increasing.
LEMMA IncreasingAppend ==
    ASSUME NEW S \in SUBSET Nat, NEW q \in Seq(S), NEW e \in S, Increasing(q),
           \A x \in Elements(q) : x < e
    PROVE  Increasing(Append(q, e))
<1>1. /\ DOMAIN q = 1..Len(q) /\ Len(q) \in Nat
      /\ DOMAIN Append(q, e) = 1..(Len(q) + 1)
      /\ \A i \in 1..Len(q) : Append(q, e)[i] = q[i] /\ q[i] < e
      /\ Append(q, e)[Len(q) + 1] = e
  BY LenProperties, AppendProperties DEF Elements
<1> QED
  BY <1>1 DEF Increasing

\* If batch and queue together increase, so does the queue, and they share nothing.
LEMMA IncreasingConcat ==
    ASSUME NEW S \in SUBSET Nat, NEW b \in Seq(S), NEW q \in Seq(S), Increasing(b \o q)
    PROVE  Increasing(q) /\ Elements(b) \cap Elements(q) = {}
<1>1. /\ DOMAIN b = 1..Len(b) /\ DOMAIN q = 1..Len(q) /\ Len(b) \in Nat /\ Len(q) \in Nat
      /\ DOMAIN (b \o q) = 1..(Len(b) + Len(q))
      /\ \A i \in 1..Len(b) : (b \o q)[i] = b[i]
      /\ \A i \in 1..Len(q) : (b \o q)[i + Len(b)] = q[i]
  BY ConcatShape
<1>2. /\ \A i \in 1..Len(b) : b[i] \in Nat
      /\ \A i \in 1..Len(q) : q[i] \in Nat
  BY ElementOfSeq
<1>3. Increasing(q)
  <2> SUFFICES ASSUME NEW i \in DOMAIN q, NEW j \in DOMAIN q, i < j PROVE q[i] < q[j]
    BY DEF Increasing
  <2>1. i + Len(b) \in DOMAIN (b \o q) /\ j + Len(b) \in DOMAIN (b \o q)
        /\ i + Len(b) < j + Len(b)
    BY <1>1
  <2> QED
    BY <2>1, <1>1, <1>2 DEF Increasing
<1>4. ASSUME NEW i \in DOMAIN b, NEW j \in DOMAIN q PROVE b[i] # q[j]
  <2>1. i \in DOMAIN (b \o q) /\ j + Len(b) \in DOMAIN (b \o q) /\ i < j + Len(b)
    BY <1>1
  <2>2. (b \o q)[i] < (b \o q)[j + Len(b)]
    BY <2>1 DEF Increasing
  <2> QED
    BY <2>2, <1>1, <1>2
<1> QED
  BY <1>3, <1>4 DEF Elements

-----------------------------------------------------------------------------
(* The inductive invariant.                                                *)

\* Queue and batch have their capacities; batchWriter waits with less than a full
\* batch and flushes what is not empty; and it holds its place in the WaitGroup.
Sizes ==
    /\ Len(writeQueue) <= queueCapacity
    /\ Len(batch) <= batchSize
    /\ writer.pc = "select" => Len(batch) < batchSize
    /\ writer.pc = "flush" => batch # <<>>
    /\ wg = IF writer.pc = "done" THEN 1 ELSE 2

Inv == TypeOK /\ Sizes /\ NothingMislaid

\* The invariant holds at first.
LEMMA InvInit == Init => Inv
<1> SUFFICES ASSUME Init PROVE Inv
  OBVIOUS
<1>1. /\ total = 0 /\ writeQueue = <<>> /\ batch = <<>> /\ fate = [i \in {} |-> "open"]
      /\ taken = [i \in {} |-> 0] /\ rows = [i \in {} |-> 0] /\ malformed = {} /\ stopped = FALSE /\ wg = 2
      /\ writer = [pc |-> "select", attempt |-> 0, stopping |-> FALSE]
      /\ stats = [flushed |-> 0, failed |-> 0, retried |-> 0, dropped |-> 0]
  BY DEF Init
<1>2. Ids = {} /\ <<>> \o <<>> = <<>>
  BY <1>1 DEF Ids
<1>3. TypeOK
  <2>1. writer \in Writer
    BY <1>1, RetryAssumption DEF Writer
  <2>2. total \in 0..MaxSaves /\ wg \in Nat
    BY <1>1, SavesAssumption
  <2>6. stopped \in BOOLEAN
    BY <1>1
  <2>3. fate \in [Ids -> Fates] /\ taken \in [Ids -> Nat] /\ rows \in [Ids -> Nat]
    <3>1. [i \in {} |-> "open"] \in [{} -> Fates] /\ [i \in {} |-> 0] \in [{} -> Nat]
      OBVIOUS
    <3> QED
      BY <1>1, <1>2, <3>1
  <2>4. writeQueue \in Seq(Ids) /\ batch \in Seq(Ids) /\ malformed \subseteq Ids
    BY <1>1
  <2>5. stats \in [flushed : Nat, failed : Nat, retried : Nat, dropped : Nat]
    BY <1>1
  <2> QED
    BY <2>1, <2>2, <2>3, <2>4, <2>5, <2>6 DEF TypeOK
<1>4. Sizes
  BY <1>1, CapacityAssumption, BatchAssumption DEF Sizes
<1>5. NothingMislaid
  BY <1>1, <1>2 DEF NothingMislaid, Elements, Increasing
<1> QED
  BY <1>3, <1>4, <1>5 DEF Inv

\* The outcomes of SaveSpan: the span is accepted or dropped.
LEMMA SaveSpanFate ==
    ASSUME TypeOK, NEW bad \in BOOLEAN, SaveSpan(bad)
    PROVE  /\ fate' \in [1..(total + 1) -> Fates]
           /\ \A i \in 1..total : fate'[i] = fate[i]
           /\ \/ /\ fate'[total + 1] = "dropped" /\ writeQueue' = writeQueue
                 /\ Len(writeQueue) >= queueCapacity
              \/ /\ fate'[total + 1] = "open" /\ writeQueue' = Append(writeQueue, total + 1)
                 /\ Len(writeQueue) < queueCapacity
<1>1. total \in Nat /\ fate \in [1..total -> Fates] /\ "open" \in Fates /\ "dropped" \in Fates
  BY SavesAssumption DEF TypeOK, Ids, Fates
<1>2. CASE fate' = Extend(fate, total, "dropped") /\ writeQueue' = writeQueue
           /\ Len(writeQueue) >= queueCapacity
  BY <1>1, <1>2 DEF Extend
<1>3. CASE fate' = Extend(fate, total, "open") /\ writeQueue' = Append(writeQueue, total + 1)
           /\ Len(writeQueue) < queueCapacity
  BY <1>1, <1>3 DEF Extend
<1> QED
  BY <1>2, <1>3 DEF SaveSpan

\* What SaveSpan does to the types.
LEMMA SaveSpanType ==
    ASSUME TypeOK, NEW bad \in BOOLEAN, SaveSpan(bad)
    PROVE  TypeOK'
<1>1. /\ total \in 0..MaxSaves /\ total < MaxSaves /\ total' = total + 1
      /\ MaxSaves \in Nat
  BY SavesAssumption DEF TypeOK, SaveSpan
<1>2. total' \in 0..MaxSaves /\ Ids' = 1..(total + 1) /\ Ids = 1..total /\ Ids \subseteq Ids'
      /\ total + 1 \in Ids'
  BY <1>1 DEF Ids
<1>3. taken' \in [Ids' -> Nat] /\ rows' \in [Ids' -> Nat]
  <2>1. /\ taken' = [i \in 1..(total + 1) |-> IF i = total + 1 THEN 0 ELSE taken[i]]
        /\ rows' = [i \in 1..(total + 1) |-> IF i = total + 1 THEN 0 ELSE rows[i]]
    BY DEF SaveSpan, Extend
  <2>2. taken \in [1..total -> Nat] /\ rows \in [1..total -> Nat] /\ total \in Nat
    BY <1>1, <1>2 DEF TypeOK
  <2> QED
    BY <1>2, <2>1, <2>2
<1>4. fate' \in [Ids' -> Fates]
  BY <1>2, SaveSpanFate
<1>5. malformed' \subseteq Ids'
  BY <1>2 DEF TypeOK, SaveSpan
<1>6. batch' \in Seq(Ids') /\ writeQueue \in Seq(Ids')
  BY <1>2, SeqMonotonic DEF TypeOK, SaveSpan
<1>7. writeQueue' \in Seq(Ids')
  <2>1. Append(writeQueue, total + 1) \in Seq(Ids')
    BY <1>2, <1>6, AppendProperties
  <2> QED
    BY <1>6, <2>1, SaveSpanFate
<1>8. stats' \in [flushed : Nat, failed : Nat, retried : Nat, dropped : Nat]
  <2>1. stats' = stats \/ stats' = [stats EXCEPT !.dropped = @ + 1]
    BY DEF SaveSpan
  <2>2. stats \in [flushed : Nat, failed : Nat, retried : Nat, dropped : Nat]
    BY DEF TypeOK
  <2> QED
    BY <2>1, <2>2
<1>9. writer' \in Writer' /\ stopped' \in BOOLEAN /\ wg' \in Nat
  <2>1. writer' = writer /\ stopped' = stopped /\ wg' = wg
    BY DEF SaveSpan
  <2>2. writer \in Writer /\ stopped \in BOOLEAN /\ wg \in Nat
    BY DEF TypeOK
  <2> QED
    BY <2>1, <2>2 DEF Writer
<1> QED
  BY <1>2, <1>3, <1>4, <1>5, <1>6, <1>7, <1>8, <1>9 DEF TypeOK

\* SaveSpan keeps the invariant: an accepted span is the last of the queue.
LEMMA SaveSpanInv ==
    ASSUME Inv, NEW bad \in BOOLEAN, SaveSpan(bad)
    PROVE  Inv'
<1>1. TypeOK'
  BY SaveSpanType DEF Inv
<1>2. /\ total \in Nat /\ Ids = 1..total /\ Ids' = 1..(total + 1) /\ Ids \subseteq Nat
      /\ batch \in Seq(Ids) /\ writeQueue \in Seq(Ids) /\ batch' = batch
  BY SavesAssumption DEF Inv, TypeOK, SaveSpan, Ids
<1>3. Sizes'
  BY <1>2, AppendProperties, CapacityAssumption, BatchAssumption, LenProperties
     DEF Inv, Sizes, SaveSpan, TypeOK
<1>4. batch \o writeQueue \in Seq(Ids) /\ Elements(batch \o writeQueue) \subseteq Ids
  BY <1>2, ConcatProperties, ElementsIn
<1>5. \A i \in Ids : fate'[i] = fate[i]
  BY <1>2, SaveSpanFate DEF Inv
<1>6. CASE fate'[total + 1] = "dropped" /\ writeQueue' = writeQueue
  <2>1. {i \in Ids' : fate'[i] = "open"} = {i \in Ids : fate[i] = "open"}
    BY <1>2, <1>5, <1>6
  <2> QED
    BY <1>1, <1>2, <1>3, <1>6, <2>1 DEF Inv, NothingMislaid
<1>7. CASE fate'[total + 1] = "open" /\ writeQueue' = Append(writeQueue, total + 1)
  <2>1. {i \in Ids' : fate'[i] = "open"} = {i \in Ids : fate[i] = "open"} \cup {total + 1}
    <3> DEFINE n == total + 1
    <3>1. Ids' = Ids \cup {n} /\ n \notin Ids
      BY <1>2
    <3>2. fate'[n] = "open"
      BY <1>7
    <3> HIDE DEF n
    <3>3. \A i \in Ids' : i \in Ids \/ i = n
      BY <3>1
    <3>4. \A i \in Ids : i \in Ids' /\ fate'[i] = fate[i]
      BY <1>5, <3>1
    <3>5. {i \in Ids' : fate'[i] = "open"} = {i \in Ids : fate[i] = "open"} \cup {n}
      BY <3>1, <3>2, <3>3, <3>4
    <3> QED
      BY <3>5 DEF n
  <2>2. batch \in Seq(1..(total + 1)) /\ writeQueue \in Seq(1..(total + 1))
        /\ total + 1 \in 1..(total + 1)
    BY <1>2, SeqMonotonic
  <2>3. batch' \o writeQueue' = Append(batch \o writeQueue, total + 1)
    BY <1>2, <1>7, <2>2, ConcatAppend
  <2>4. batch \o writeQueue \in Seq(1..(total + 1))
    BY <2>2, ConcatProperties
  <2>5. Elements(Append(batch \o writeQueue, total + 1))
          = Elements(batch \o writeQueue) \cup {total + 1}
    <3> DEFINE u == batch \o writeQueue
               n == total + 1
    <3>1. u \in Seq(1..n) /\ n \in 1..n
      BY <2>2, <2>4
    <3> HIDE DEF u, n
    <3>2. Elements(Append(u, n)) = Elements(u) \cup {n}
      BY <3>1, ElementsAppend
    <3> QED
      BY <3>2 DEF u, n
  <2>6. \A x \in Elements(batch \o writeQueue) : x < total + 1
    BY <1>2, <1>4
  <2>7. 1..(total + 1) \in SUBSET Nat /\ Increasing(batch \o writeQueue)
    BY <1>2 DEF Inv, NothingMislaid
  <2>8. Increasing(Append(batch \o writeQueue, total + 1))
    BY <2>2, <2>4, <2>6, <2>7, IncreasingAppend
  <2> QED
    BY <1>1, <1>3, <2>1, <2>3, <2>5, <2>8 DEF Inv, NothingMislaid
<1>8. \/ fate'[total + 1] = "dropped" /\ writeQueue' = writeQueue
      \/ fate'[total + 1] = "open" /\ writeQueue' = Append(writeQueue, total + 1)
  BY SaveSpanFate DEF Inv
<1> QED
  BY <1>6, <1>7, <1>8

\* Receiving moves the oldest span of the queue to the end of the batch.
LEMMA ReceiveConcat ==
    ASSUME TypeOK, Receive
    PROVE  /\ batch' \in Seq(Ids) /\ writeQueue' \in Seq(Ids)
           /\ batch' \o writeQueue' = batch \o writeQueue
           /\ Len(batch') = Len(batch) + 1 /\ Len(writeQueue') = Len(writeQueue) - 1
           /\ Len(batch) \in Nat /\ Len(writeQueue) \in Nat
<1>1. batch \in Seq(Ids) /\ writeQueue \in Seq(Ids) /\ writeQueue # <<>>
      /\ batch' = Append(batch, Head(writeQueue)) /\ writeQueue' = Tail(writeQueue)
  BY DEF TypeOK, Receive
<1>2. Head(writeQueue) \in Ids
  BY <1>1, HeadTailProperties
<1> QED
  BY <1>1, <1>2, HeadTailProperties, AppendProperties, ConcatMove, LenProperties

\* A span received from the queue joins the batch (batchWriter).
LEMMA ReceiveInv ==
    ASSUME Inv, Receive
    PROVE  Inv'
<1>1. /\ batch' \in Seq(Ids) /\ writeQueue' \in Seq(Ids)
      /\ batch' \o writeQueue' = batch \o writeQueue
      /\ Len(batch') = Len(batch) + 1 /\ Len(writeQueue') = Len(writeQueue) - 1
      /\ Len(batch) \in Nat /\ Len(writeQueue) \in Nat
  BY ReceiveConcat DEF Inv
<1>2. Ids' = Ids /\ fate' = fate
  BY DEF Receive, Ids
<1>3. writer \in Writer /\ writer.pc = "select"
      /\ writer' = [writer EXCEPT !.pc = IF Len(batch) + 1 >= batchSize THEN "flush" ELSE @]
  BY DEF Inv, TypeOK, Receive
<1>4. TypeOK'
  BY <1>1, <1>2, <1>3 DEF Inv, TypeOK, Receive, Writer
<1>5. Sizes'
  <2>1. /\ Len(writeQueue) <= queueCapacity /\ Len(batch) < batchSize /\ wg = 2 /\ wg' = wg
    BY <1>3 DEF Inv, Sizes, Receive
  <2>2. batch' # <<>>
    BY <1>1, EmptySeq
  <2>3. writer'.pc = IF Len(batch) + 1 >= batchSize THEN "flush" ELSE "select"
    BY <1>3 DEF Writer
  <2> QED
    BY <1>1, <2>1, <2>2, <2>3, CapacityAssumption, BatchAssumption DEF Sizes
<1> QED
  BY <1>1, <1>2, <1>4, <1>5 DEF Inv, NothingMislaid

\* Every flush ends with the fate of the spans of the batch decided, and of no
\* others; what is open then is in the queue.
LEMMA EndFlushInv ==
    ASSUME Inv, writer.pc = "flush", NEW o \in {"flushed", "failed"}, EndFlush(o),
           taken' \in [Ids -> Nat],
           stats' \in [flushed : Nat, failed : Nat, retried : Nat, dropped : Nat],
           UNCHANGED <<total, writeQueue, malformed, rows, stopped>>
    PROVE  Inv'
<1>1. /\ batch \in Seq(Ids) /\ writeQueue \in Seq(Ids) /\ writer \in Writer /\ Ids' = Ids
      /\ batch' = <<>> /\ writeQueue' = writeQueue /\ Ids \in SUBSET Nat
  BY DEF Inv, TypeOK, EndFlush, Ids
<1>2. /\ writer' = [pc |-> IF writer.stopping THEN "done" ELSE "select",
                    attempt |-> 0, stopping |-> FALSE]
      /\ wg' = IF writer.stopping THEN wg - 1 ELSE wg
      /\ wg = 2
  BY DEF Inv, Sizes, EndFlush
<1>3. fate' = [i \in Ids |-> IF i \in Elements(batch) THEN o ELSE fate[i]]
  BY DEF EndFlush
<1>4. TypeOK'
  <2>1. fate' \in [Ids -> Fates]
    BY <1>3 DEF Inv, TypeOK, Fates
  <2>2. writer' \in Writer /\ wg' \in Nat
    BY <1>2, RetryAssumption DEF Writer
  <2>3. batch' \in Seq(Ids)
    BY <1>1
  <2> QED
    BY <1>1, <2>1, <2>2, <2>3 DEF Inv, TypeOK
<1>5. Sizes'
  <2>1. Len(batch') = 0
    BY <1>1
  <2> QED
    BY <1>1, <1>2, <2>1, BatchAssumption DEF Inv, Sizes
<1>6. NothingMislaid'
  <2>1. Increasing(batch \o writeQueue)
        /\ {i \in Ids : fate[i] = "open"} = Elements(batch) \cup Elements(writeQueue)
    BY <1>1, ElementsConcat DEF Inv, NothingMislaid
  <2>2. Increasing(writeQueue) /\ Elements(batch) \cap Elements(writeQueue) = {}
    BY <1>1, <2>1, IncreasingConcat
  <2>3. {i \in Ids : fate'[i] = "open"} = Elements(writeQueue)
    BY <1>3, <2>1, <2>2
  <2>4. batch' \o writeQueue' = writeQueue
    BY <1>1, ConcatEmptySeq
  <2> QED
    BY <1>1, <2>2, <2>3, <2>4 DEF NothingMislaid
<1> QED
  BY <1>4, <1>5, <1>6 DEF Inv

Counters == [flushed : Nat, failed : Nat, retried : Nat, dropped : Nat]

\* Counting keeps the counters natural numbers.
LEMMA CountersType ==
    ASSUME NEW s \in Counters
    PROVE  /\ [s EXCEPT !.flushed = @ + 1] \in Counters
           /\ [s EXCEPT !.failed = @ + 1] \in Counters
           /\ [s EXCEPT !.retried = @ + 1] \in Counters
  BY DEF Counters

\* An attempt leaves every span with a number of copies.
LEMMA SentType ==
    ASSUME TypeOK, Sent(batch)
    PROVE  taken' \in [Ids -> Nat]
<1>1. taken' = [i \in Ids |-> IF i \in Elements(batch) \ malformed THEN taken[i] + 1 ELSE taken[i]]
  BY DEF Sent
<1>2. taken \in [Ids -> Nat]
  BY DEF TypeOK
<1> QED
  BY <1>1, <1>2

\* A failed attempt is repeated, or the last of the batch.
LEMMA RetryInv ==
    ASSUME Inv, NEW applied \in BOOLEAN, FlushError(applied), writer.attempt < maxRetries
    PROVE  Inv' /\ UNCHANGED <<total, batch, writeQueue, fate>>
<1>1. /\ writer' = [writer EXCEPT !.attempt = @ + 1]
      /\ stats' = [stats EXCEPT !.retried = @ + 1]
      /\ UNCHANGED <<batch, fate, wg, total, writeQueue, malformed, rows, stopped>>
      /\ writer.pc = "flush"
  <2>1. ~(writer.attempt = maxRetries)
    BY RetryAssumption DEF Inv, TypeOK, Writer
  <2> QED
    BY <2>1 DEF FlushError
<1>2. taken' \in [Ids -> Nat]
  BY SentType DEF FlushError, Inv, TypeOK
<1>3. writer' \in Writer /\ writer'.pc = "flush"
  <2>1. writer \in Writer
    BY DEF Inv, TypeOK
  <2>2. writer.attempt \in Nat /\ writer.attempt + 1 \in 0..maxRetries
    BY <2>1, RetryAssumption DEF Writer
  <2> QED
    BY <1>1, <2>1, <2>2 DEF Writer
<1>4. stats' \in Counters
  <2>1. stats \in Counters
    BY DEF Inv, TypeOK, Counters
  <2> QED
    BY <1>1, <2>1, CountersType
<1>5. Ids' = Ids
  BY <1>1 DEF Ids
<1>6. TypeOK'
  BY <1>1, <1>2, <1>3, <1>4, <1>5 DEF Inv, TypeOK, Counters
<1>7. Sizes'
  BY <1>1, <1>3 DEF Inv, Sizes
<1> QED
  BY <1>1, <1>5, <1>6, <1>7 DEF Inv, NothingMislaid

\* The two ways in which a flush ends.
LEMMA FlushEnds ==
    ASSUME Inv,
           \/ FlushOK
           \/ \E applied \in BOOLEAN : FlushError(applied) /\ ~(writer.attempt < maxRetries)
    PROVE  /\ Inv'
           /\ writer.pc = "flush" /\ UNCHANGED <<total, writeQueue>>
           /\ \E o \in {"flushed", "failed"} : EndFlush(o)
<1>1. CASE FlushOK
  <2>1. taken' \in [Ids -> Nat]
    BY <1>1, SentType DEF FlushOK, Inv
  <2>2. stats' \in Counters
    <3>1. stats \in Counters /\ stats' = [stats EXCEPT !.flushed = @ + 1]
      BY <1>1 DEF FlushOK, Inv, TypeOK, Counters
    <3> QED
      BY <3>1, CountersType
  <2>3. /\ writer.pc = "flush" /\ EndFlush("flushed")
        /\ UNCHANGED <<total, writeQueue, malformed, rows, stopped>>
    BY <1>1 DEF FlushOK
  <2> QED
    BY <2>1, <2>2, <2>3, EndFlushInv DEF Counters
<1>2. ASSUME NEW applied \in BOOLEAN, FlushError(applied), ~(writer.attempt < maxRetries)
      PROVE  /\ Inv'
             /\ writer.pc = "flush" /\ UNCHANGED <<total, writeQueue>>
             /\ EndFlush("failed")
  <2>1. taken' \in [Ids -> Nat]
    BY <1>2, SentType DEF FlushError, Inv, TypeOK
  <2>2. /\ writer.pc = "flush" /\ EndFlush("failed")
        /\ stats' = [stats EXCEPT !.failed = @ + 1]
        /\ UNCHANGED <<total, writeQueue, malformed, rows, stopped>>
    BY <1>2 DEF FlushError
  <2>3. stats' \in Counters
    <3>1. stats \in Counters
      BY DEF Inv, TypeOK, Counters
    <3> QED
      BY <2>2, <3>1, CountersType
  <2> QED
    BY <2>1, <2>2, <2>3, EndFlushInv DEF Counters
<1> QED
  BY <1>1, <1>2

\* The steps that move no span keep the invariant and the four variables that say
\* where the spans are.
LEMMA IdleInv ==
    ASSUME Inv, FlushTick \/ SeeStop \/ Close
    PROVE  Inv' /\ UNCHANGED <<total, batch, writeQueue, fate>>
<1>1. /\ UNCHANGED <<total, batch, writeQueue, fate, malformed, taken, rows, stats>>
      /\ Ids' = Ids
  BY DEF FlushTick, SeeStop, Close, Ids
<1>2. CASE FlushTick
  <2>1. writer' \in Writer /\ writer'.pc = "flush" /\ batch # <<>> /\ UNCHANGED <<wg, stopped>>
        /\ writer.pc = "select"
    BY <1>2 DEF Inv, TypeOK, Writer, FlushTick
  <2> QED
    BY <1>1, <2>1 DEF Inv, TypeOK, Sizes, NothingMislaid
<1>3. CASE SeeStop
  <2>1. writer \in Writer /\ writer.pc = "select" /\ wg = 2 /\ UNCHANGED stopped
    BY <1>3 DEF Inv, TypeOK, Sizes, SeeStop
  <2>2. CASE batch = <<>> /\ writer' = [writer EXCEPT !.pc = "done"] /\ wg' = wg - 1
    <3>1. writer' \in Writer /\ writer'.pc = "done" /\ wg' = 1
      BY <2>1, <2>2 DEF Writer
    <3> QED
      BY <1>1, <2>1, <3>1 DEF Inv, TypeOK, Sizes, NothingMislaid
  <2>3. CASE batch # <<>> /\ writer' = [writer EXCEPT !.pc = "flush", !.stopping = TRUE]
             /\ wg' = wg
    <3>1. writer' \in Writer /\ writer'.pc = "flush"
      BY <2>1, <2>3 DEF Writer
    <3> QED
      BY <1>1, <2>1, <2>3, <3>1 DEF Inv, TypeOK, Sizes, NothingMislaid
  <2> QED
    BY <1>3, <2>2, <2>3 DEF SeeStop
<1>4. CASE Close
  <2>1. UNCHANGED <<writer, wg>> /\ stopped' = TRUE
    BY <1>4 DEF Close
  <2> QED
    BY <1>1, <2>1 DEF Inv, TypeOK, Sizes, NothingMislaid
<1> QED
  BY <1>1, <1>2, <1>3, <1>4

\* So does what the server inserts, whenever it does.
LEMMA ServerInv ==
    ASSUME Inv, NEW inserted \in SUBSET Ids, ServerInserts(inserted)
    PROVE  Inv' /\ UNCHANGED <<total, batch, writeQueue, fate>>
<1>1. /\ UNCHANGED <<total, writeQueue, batch, writer, fate, malformed, taken, stopped, wg, stats>>
      /\ Ids' = Ids
      /\ rows' = [i \in Ids |-> IF i \in inserted THEN rows[i] + 1 ELSE rows[i]]
  BY DEF ServerInserts, Ids
<1>2. rows' \in [Ids -> Nat]
  BY <1>1 DEF Inv, TypeOK
<1> QED
  BY <1>1, <1>2 DEF Inv, TypeOK, Sizes, NothingMislaid

\* Every step keeps the invariant.
LEMMA InvNext == Inv /\ [Next]_vars => Inv'
<1> SUFFICES ASSUME Inv, [Next]_vars PROVE Inv'
  OBVIOUS
<1>1. ASSUME NEW bad \in BOOLEAN, SaveSpan(bad) PROVE Inv'
  BY <1>1, SaveSpanInv
<1>2. CASE Receive
  BY <1>2, ReceiveInv
<1>3. CASE FlushTick \/ SeeStop \/ Close
  BY <1>3, IdleInv
<1>4. CASE FlushOK
  BY <1>4, FlushEnds
<1>5. ASSUME NEW applied \in BOOLEAN, FlushError(applied) PROVE Inv'
  BY <1>5, RetryInv, FlushEnds
<1>6. CASE UNCHANGED vars
  BY <1>6 DEF vars, Inv, TypeOK, Ids, Sizes, NothingMislaid
<1>7. ASSUME NEW inserted \in SUBSET Ids, ServerInserts(inserted) PROVE Inv'
  BY <1>7, ServerInv
<1> QED
  BY <1>1, <1>2, <1>3, <1>4, <1>5, <1>6, <1>7 DEF Next, WriterStep

-----------------------------------------------------------------------------
(* The theorems.                                                           *)

\* Every reachable state satisfies the invariant (SaveSpan, batchWriter).
THEOREM StoreInvariant == Spec => []Inv
<1> QED
  BY InvInit, InvNext, PTL DEF Spec

\* The store's variables keep their types, and queue and batch their capacities,
\* for every capacity, batch size and number of retries.
THEOREM TypeCorrect == Spec => [](TypeOK /\ Sizes)
<1>1. Inv => TypeOK /\ Sizes
  BY DEF Inv
<1> QED
  BY <1>1, StoreInvariant, PTL

\* Neither a flush, nor a retry, nor the drop of later spans loses or reorders an
\* accepted span (batchWriter, flushWithRetry).
THEOREM Keeps == Spec => []NothingMislaid
<1>1. Inv => NothingMislaid
  BY DEF Inv
<1> QED
  BY <1>1, StoreInvariant, PTL

-----------------------------------------------------------------------------
(* Copies in the table and counters.                                       *)

Failed == {i \in Ids : fate[i] = "failed"}

\* RowsMatchFate for one span, as far as the store knows it.
RowOK(i) ==
    /\ taken[i] <= maxRetries + 1
    /\ taken[i] <= stats.retried + 1
    /\ fate[i] = "flushed" /\ i \notin malformed => taken[i] > 0
    /\ fate[i] = "dropped" \/ i \in malformed => taken[i] = 0
    /\ i \in Elements(writeQueue) => taken[i] = 0

\* A span of the batch has at most one copy for each failed attempt, and of the
\* retries those that do not belong to the batch were spent on counted ones.
Attempts ==
    /\ \A i \in Elements(batch) : taken[i] <= writer.attempt
    /\ writer.attempt <= stats.retried
    /\ writer.pc # "flush" => writer.attempt = 0
    /\ stats.retried <= maxRetries * (stats.flushed + stats.failed) + writer.attempt

FailedCount ==
    /\ stats.failed <= Cardinality(Failed)
    /\ Cardinality(Failed) <= batchSize * stats.failed

RowsInv == (\A i \in Ids : RowOK(i)) /\ Attempts /\ FailedCount

\* The server inserts no more than it took.
Inserted == \A i \in Ids : rows[i] <= taken[i]

\* The parts make up RowsMatchFate: the attempts of a batch are at most maxRetries.
LEMMA RowsInvImplies == Inv /\ RowsInv /\ Inserted => RowsMatchFate
<1> SUFFICES ASSUME Inv, RowsInv, Inserted PROVE RowsMatchFate
  OBVIOUS
<1>1. stats.retried <= maxRetries * (stats.flushed + stats.failed + 1)
  <2>1. /\ writer.attempt \in Nat /\ writer.attempt <= maxRetries /\ maxRetries \in Nat
        /\ stats.flushed + stats.failed \in Nat /\ stats.retried \in Nat
    BY RetryAssumption DEF Inv, TypeOK, Writer
  <2> DEFINE n == stats.flushed + stats.failed
  <2>2. stats.retried <= maxRetries * n + writer.attempt
    BY DEF RowsInv, Attempts
  <2> HIDE DEF n
  <2>3. n \in Nat
    BY <2>1 DEF n
  <2>4. maxRetries * (n + 1) = maxRetries * n + maxRetries /\ maxRetries * n \in Nat
    BY <2>1, <2>3
  <2>5. stats.retried <= maxRetries * (n + 1)
    BY <2>1, <2>2, <2>4
  <2> QED
    BY <2>5 DEF n
<1>2. FailedCount /\ \A i \in Ids : RowOK(i)
  BY DEF RowsInv
<1> QED
  BY <1>1, <1>2 DEF RowsMatchFate, RowOK, FailedCount, Failed, Inserted

\* At first nothing is counted.
LEMMA RowsInit == Init => RowsInv
<1> SUFFICES ASSUME Init PROVE RowsInv
  OBVIOUS
<1>1. /\ Ids = {} /\ batch = <<>> /\ writer.attempt = 0 /\ stats.retried = 0
      /\ stats.flushed = 0 /\ stats.failed = 0
  BY DEF Init, Ids
<1>2. Failed = {} /\ Cardinality(Failed) = 0
  BY <1>1, FS_EmptySet DEF Failed
<1>3. Elements(batch) = {}
  BY <1>1 DEF Elements
<1>4. maxRetries * (0 + 0) = 0 /\ batchSize * 0 = 0
  BY RetryAssumption, BatchAssumption
<1> QED
  BY <1>1, <1>2, <1>3, <1>4 DEF RowsInv, Attempts, FailedCount

\* A new span has no copy, and none of the old ones changes.
LEMMA SaveSpanRows ==
    ASSUME Inv, RowsInv, NEW bad \in BOOLEAN, SaveSpan(bad)
    PROVE  RowsInv'
<1> DEFINE n == total + 1
<1>1. /\ Ids' = Ids \cup {n} /\ n \notin Ids /\ total \in Nat /\ Ids = 1..total
      /\ writeQueue \in Seq(Ids) /\ batch \in Seq(Ids)
      /\ UNCHANGED <<batch, writer>>
  BY SavesAssumption DEF Inv, TypeOK, SaveSpan, Ids
<1>2. /\ taken'[n] = 0 /\ \A i \in Ids : taken'[i] = taken[i]
      /\ malformed' \subseteq malformed \cup {n} /\ malformed \subseteq Ids
      /\ \A i \in Ids : i \in malformed' => i \in malformed
  <2>1. taken' = [i \in 1..(total + 1) |-> IF i = total + 1 THEN 0 ELSE taken[i]]
        /\ malformed' \subseteq malformed \cup {n} /\ malformed \subseteq Ids
    BY DEF SaveSpan, Extend, Inv, TypeOK
  <2>2. taken'[n] = 0 /\ \A i \in Ids : taken'[i] = taken[i]
    BY <1>1, <2>1
  <2> QED
    BY <1>1, <2>1, <2>2
<1>3. /\ \A i \in Ids : fate'[i] = fate[i]
      /\ fate'[n] \in {"open", "dropped"}
      /\ writeQueue' = writeQueue \/ writeQueue' = Append(writeQueue, n)
  BY <1>1, SaveSpanFate DEF Inv
<1>4. /\ stats'.retried = stats.retried /\ stats'.flushed = stats.flushed
      /\ stats'.failed = stats.failed /\ stats.retried \in Nat
  BY DEF SaveSpan, Inv, TypeOK
<1> HIDE DEF n
<1>5. Elements(writeQueue') \subseteq Elements(writeQueue) \cup {n}
  <2>1. writeQueue \in Seq(Ids') /\ n \in Ids'
    BY <1>1, SeqMonotonic
  <2> QED
    BY <1>3, <2>1, ElementsAppend
<1>6. Failed' = Failed
  BY <1>1, <1>3 DEF Failed
<1>7. FailedCount'
  BY <1>4, <1>6 DEF RowsInv, FailedCount
<1>8. Attempts'
  <2>1. \A i \in Elements(batch) : i \in Ids /\ taken'[i] = taken[i]
    BY <1>1, <1>2, ElementsIn
  <2> QED
    BY <1>1, <1>4, <2>1 DEF RowsInv, Attempts
<1>9. ASSUME NEW i \in Ids' PROVE RowOK(i)'
  <2>1. CASE i \in Ids
    <3>1. /\ taken[i] <= maxRetries + 1 /\ taken[i] <= stats.retried + 1
          /\ fate[i] = "flushed" /\ i \notin malformed => taken[i] > 0
          /\ fate[i] = "dropped" \/ i \in malformed => taken[i] = 0
          /\ i \in Elements(writeQueue) => taken[i] = 0
      BY <2>1 DEF RowsInv, RowOK
    <3>2. /\ taken'[i] = taken[i] /\ fate'[i] = fate[i]
          /\ i \in malformed' <=> i \in malformed
          /\ i \in Elements(writeQueue') => i \in Elements(writeQueue)
      <4>1. malformed \subseteq malformed'
        BY DEF SaveSpan
      <4> QED
        BY <1>1, <1>2, <1>3, <1>5, <2>1, <4>1
    <3> QED
      BY <1>4, <3>1, <3>2 DEF RowOK
  <2>2. CASE i = n
    BY <1>2, <1>3, <1>4, <2>2, RetryAssumption DEF RowOK
  <2> QED
    BY <1>1, <2>1, <2>2
<1> QED
  BY <1>7, <1>8, <1>9 DEF RowsInv

\* What leaves the queue has no copy yet, as the batch requires before its first
\* attempt.
LEMMA ReceiveRows ==
    ASSUME Inv, RowsInv, Receive
    PROVE  RowsInv'
<1>1. /\ writeQueue \in Seq(Ids) /\ writeQueue # <<>> /\ batch \in Seq(Ids)
      /\ batch' = Append(batch, Head(writeQueue)) /\ writeQueue' = Tail(writeQueue)
      /\ UNCHANGED <<total, fate, malformed, taken, stats>> /\ Ids' = Ids
      /\ writer.pc = "select" /\ writer'.attempt = writer.attempt
  BY DEF Inv, TypeOK, Writer, Receive, Ids
<1>2. /\ Head(writeQueue) \in Ids /\ Head(writeQueue) \in Elements(writeQueue)
      /\ Elements(writeQueue') \subseteq Elements(writeQueue)
  <2>1. /\ Head(writeQueue) = writeQueue[1] /\ Tail(writeQueue) \in Seq(Ids)
        /\ Len(Tail(writeQueue)) = Len(writeQueue) - 1
        /\ \A i \in 1..Len(Tail(writeQueue)) : Tail(writeQueue)[i] = writeQueue[i + 1]
        /\ Head(writeQueue) \in Ids
    BY <1>1, HeadTailProperties
  <2>2. /\ Len(writeQueue) \in Nat /\ Len(writeQueue) > 0
        /\ DOMAIN writeQueue = 1..Len(writeQueue)
        /\ DOMAIN Tail(writeQueue) = 1..(Len(writeQueue) - 1)
    BY <1>1, <2>1, LenProperties, EmptySeq
  <2> QED
    BY <1>1, <2>1, <2>2 DEF Elements
<1>3. Elements(batch') = Elements(batch) \cup {Head(writeQueue)}
  BY <1>1, <1>2, ElementsAppend
<1>4. writer.attempt = 0 /\ taken[Head(writeQueue)] = 0
  BY <1>1, <1>2 DEF RowsInv, Attempts, RowOK
<1>5. Attempts'
  BY <1>1, <1>3, <1>4 DEF RowsInv, Attempts
<1>6. ASSUME NEW i \in Ids PROVE RowOK(i)'
  BY <1>1, <1>2 DEF RowsInv, RowOK
<1>7. FailedCount'
  BY <1>1 DEF RowsInv, FailedCount, Failed
<1> QED
  BY <1>1, <1>5, <1>6, <1>7 DEF RowsInv

\* What an attempt does to the copies: one more, of what could be appended.
LEMMA AttemptRows ==
    ASSUME Inv, FlushOK \/ \E applied \in BOOLEAN : FlushError(applied)
    PROVE  \A i \in Ids :
             /\ taken[i] \in Nat
             /\ taken'[i] = taken[i] \/ taken'[i] = taken[i] + 1
             /\ i \notin Elements(batch) \/ i \in malformed => taken'[i] = taken[i]
<1>1. taken \in [Ids -> Nat]
  BY DEF Inv, TypeOK
<1>2. Sent(batch) \/ taken' = taken
  BY DEF FlushOK, FlushError
<1> QED
  BY <1>1, <1>2 DEF Sent

\* An attempt that will be repeated leaves its trace in the counter.
LEMMA RetryRows ==
    ASSUME Inv, RowsInv, NEW applied \in BOOLEAN, FlushError(applied),
           writer.attempt < maxRetries
    PROVE  RowsInv'
<1>1. /\ writer' = [writer EXCEPT !.attempt = @ + 1]
      /\ stats' = [stats EXCEPT !.retried = @ + 1]
      /\ UNCHANGED <<batch, fate, total, writeQueue, malformed>>
      /\ writer.pc = "flush" /\ Ids' = Ids
  <2>1. ~(writer.attempt = maxRetries)
    BY RetryAssumption DEF Inv, TypeOK, Writer
  <2> QED
    BY <2>1 DEF FlushError, Ids
<1>2. /\ writer'.attempt = writer.attempt + 1 /\ writer'.pc = "flush" /\ writer.attempt \in Nat
      /\ stats'.retried = stats.retried + 1 /\ stats.retried \in Nat
      /\ stats'.flushed = stats.flushed /\ stats'.failed = stats.failed
      /\ stats.flushed \in Nat /\ stats.failed \in Nat
  BY <1>1, RetryAssumption DEF Inv, TypeOK, Writer
<1>3. \A i \in Ids :
        /\ taken[i] \in Nat
        /\ taken'[i] = taken[i] \/ taken'[i] = taken[i] + 1
        /\ i \notin Elements(batch) \/ i \in malformed => taken'[i] = taken[i]
  BY AttemptRows
<1>4. /\ Elements(batch) \subseteq Ids /\ Elements(writeQueue) \subseteq Ids
      /\ Elements(batch) \cap Elements(writeQueue) = {}
      /\ \A i \in Elements(batch) : fate[i] = "open"
  <2>1. batch \in Seq(Ids) /\ writeQueue \in Seq(Ids) /\ Ids \in SUBSET Nat
    BY DEF Inv, TypeOK, Ids
  <2>2. {i \in Ids : fate[i] = "open"} = Elements(batch) \cup Elements(writeQueue)
    BY <2>1, ElementsConcat DEF Inv, NothingMislaid
  <2> QED
    BY <2>1, <2>2, IncreasingConcat DEF Inv, NothingMislaid
<1>5. \A i \in Elements(batch) : taken[i] <= writer.attempt
  BY DEF RowsInv, Attempts
<1>6. Attempts'
  <2>1. \A i \in Elements(batch) : taken'[i] <= writer.attempt + 1
    BY <1>2, <1>3, <1>4, <1>5
  <2> DEFINE m == maxRetries * (stats.flushed + stats.failed)
  <2>2. m \in Nat
    BY <1>2, RetryAssumption
  <2>3. stats.retried <= m + writer.attempt /\ writer.attempt <= stats.retried
    BY DEF RowsInv, Attempts
  <2>4. m' = m
    BY <1>2
  <2> HIDE DEF m
  <2>5. stats'.retried <= m + writer'.attempt /\ writer'.attempt <= stats'.retried
    BY <1>2, <2>2, <2>3
  <2>6. stats'.retried <= maxRetries * (stats'.flushed + stats'.failed) + writer'.attempt
    BY <1>2, <2>5 DEF m
  <2> QED
    BY <1>1, <1>2, <2>1, <2>5, <2>6 DEF Attempts
<1>7. ASSUME NEW i \in Ids PROVE RowOK(i)'
  <2>1. /\ taken[i] <= maxRetries + 1 /\ taken[i] <= stats.retried + 1
        /\ fate[i] = "flushed" /\ i \notin malformed => taken[i] > 0
        /\ fate[i] = "dropped" \/ i \in malformed => taken[i] = 0
        /\ i \in Elements(writeQueue) => taken[i] = 0
    BY DEF RowsInv, RowOK
  <2>2. CASE i \in Elements(batch)
    <3>1. taken'[i] <= writer.attempt + 1 /\ writer.attempt <= stats.retried
      BY <1>2, <1>3, <1>5, <2>2 DEF RowsInv, Attempts
    <3>2. taken'[i] <= maxRetries + 1 /\ taken'[i] <= stats'.retried + 1
      BY <1>2, <1>3, <3>1, RetryAssumption
    <3> QED
      BY <1>1, <1>3, <1>4, <2>1, <2>2, <3>2 DEF RowOK
  <2>3. CASE i \notin Elements(batch)
    <3>1. taken'[i] = taken[i] /\ taken'[i] <= stats'.retried + 1
      BY <1>2, <1>3, <2>1, <2>3
    <3> QED
      BY <1>1, <2>1, <3>1 DEF RowOK
  <2> QED
    BY <2>2, <2>3
<1>8. FailedCount'
  BY <1>1, <1>2 DEF RowsInv, FailedCount, Failed
<1> QED
  BY <1>1, <1>6, <1>7, <1>8 DEF RowsInv

\* A sequence has at most as many elements as places, and one if it is not empty.
LEMMA ElementsCard ==
    ASSUME NEW S, NEW q \in Seq(S), q # <<>>
    PROVE  /\ IsFiniteSet(Elements(q))
           /\ Cardinality(Elements(q)) \in 1..Len(q)
<1>1. Len(q) \in Nat /\ DOMAIN q = 1..Len(q) /\ Len(q) # 0 /\ q \in [1..Len(q) -> S]
  BY LenProperties, EmptySeq
<1>2. q \in Surjection(1..Len(q), Elements(q))
  BY <1>1 DEF Elements, Surjection
<1>3. IsFiniteSet(1..Len(q)) /\ Cardinality(1..Len(q)) = Len(q)
  BY <1>1, FS_Interval
<1>4. IsFiniteSet(Elements(q)) /\ Cardinality(Elements(q)) <= Len(q)
  BY <1>2, <1>3, FS_Surjection
<1>5. Elements(q) # {}
  <2>1. 1 \in DOMAIN q
    BY <1>1
  <2> QED
    BY <2>1 DEF Elements
<1>6. Cardinality(Elements(q)) \in Nat /\ Cardinality(Elements(q)) # 0
  BY <1>4, <1>5, FS_CardinalityType, FS_EmptySet
<1> QED
  BY <1>1, <1>4, <1>6

\* Disjoint sets add up.
LEMMA DisjointCard ==
    ASSUME NEW S, IsFiniteSet(S), NEW T, IsFiniteSet(T), S \cap T = {}
    PROVE  Cardinality(S \cup T) = Cardinality(S) + Cardinality(T)
<1>1. Cardinality(S \cup T) = Cardinality(S) + Cardinality(T) - Cardinality(S \cap T)
  BY FS_Union
<1>2. Cardinality(S \cap T) = 0
  BY FS_EmptySet
<1>3. Cardinality(S) \in Nat /\ Cardinality(T) \in Nat
  BY FS_CardinalityType
<1> QED
  BY <1>1, <1>2, <1>3

\* The end of a flush: a batch that was given up adds one to the failed ones and
\* between one and batchSize to their spans.
LEMMA EndFlushRows ==
    ASSUME Inv, RowsInv, NEW o \in {"flushed", "failed"}, EndFlush(o),
           \/ o = "flushed" /\ FlushOK /\ stats' = [stats EXCEPT !.flushed = @ + 1]
           \/ /\ o = "failed" /\ stats' = [stats EXCEPT !.failed = @ + 1]
              /\ \E applied \in BOOLEAN : FlushError(applied)
    PROVE  RowsInv'
<1>1. /\ writer.pc = "flush" /\ UNCHANGED <<total, writeQueue, malformed>> /\ Ids' = Ids
      /\ writer'.attempt = 0 /\ batch' = <<>> /\ Elements(batch') = {}
      /\ \A i \in Ids : fate'[i] = IF i \in Elements(batch) THEN o ELSE fate[i]
  <2>1. writer.pc = "flush" /\ UNCHANGED <<total, writeQueue, malformed>>
    BY DEF FlushOK, FlushError
  <2>2. writer'.attempt = 0 /\ batch' = <<>>
        /\ fate' = [i \in Ids |-> IF i \in Elements(batch) THEN o ELSE fate[i]]
    BY DEF EndFlush
  <2> QED
    BY <2>1, <2>2 DEF Ids, Elements
<1>2. /\ stats'.retried = stats.retried /\ stats.retried \in Nat
      /\ stats'.flushed = IF o = "flushed" THEN stats.flushed + 1 ELSE stats.flushed
      /\ stats'.failed = IF o = "flushed" THEN stats.failed ELSE stats.failed + 1
      /\ stats.flushed \in Nat /\ stats.failed \in Nat
      /\ writer.attempt \in Nat /\ writer.attempt <= maxRetries /\ maxRetries \in Nat
  BY RetryAssumption DEF Inv, TypeOK, Writer
<1>3. \A i \in Ids :
        /\ taken[i] \in Nat
        /\ taken'[i] = taken[i] \/ taken'[i] = taken[i] + 1
        /\ i \notin Elements(batch) \/ i \in malformed => taken'[i] = taken[i]
        /\ o = "flushed" /\ i \in Elements(batch) \ malformed => taken'[i] = taken[i] + 1
  <2>1. \A i \in Ids :
          /\ taken[i] \in Nat
          /\ taken'[i] = taken[i] \/ taken'[i] = taken[i] + 1
          /\ i \notin Elements(batch) \/ i \in malformed => taken'[i] = taken[i]
    BY AttemptRows
  <2>2. o = "flushed" => \A i \in Ids :
                           i \in Elements(batch) \ malformed => taken'[i] = taken[i] + 1
    BY DEF FlushOK, Sent
  <2> QED
    BY <2>1, <2>2
<1>4. /\ batch \in Seq(Ids) /\ batch # <<>> /\ Len(batch) <= batchSize
      /\ Elements(batch) \subseteq Ids
      /\ Elements(batch) \cap Elements(writeQueue) = {}
      /\ \A i \in Elements(batch) : fate[i] = "open"
  <2>1. batch \in Seq(Ids) /\ writeQueue \in Seq(Ids) /\ Ids \in SUBSET Nat
    BY DEF Inv, TypeOK, Ids
  <2>2. {i \in Ids : fate[i] = "open"} = Elements(batch) \cup Elements(writeQueue)
    BY <2>1, ElementsConcat DEF Inv, NothingMislaid
  <2>3. batch # <<>> /\ Len(batch) <= batchSize
    BY <1>1 DEF Inv, Sizes
  <2> QED
    BY <2>1, <2>2, <2>3, IncreasingConcat DEF Inv, NothingMislaid
<1>5. \A i \in Elements(batch) : taken[i] <= writer.attempt
  BY DEF RowsInv, Attempts
<1>6. Attempts'
  <2> DEFINE n == stats.flushed + stats.failed
             m == maxRetries * n
  <2>1. n \in Nat /\ stats'.flushed + stats'.failed = n + 1
    BY <1>2
  <2>2. stats.retried <= m + writer.attempt
    BY DEF RowsInv, Attempts
  <2> HIDE DEF n
  <2>3. maxRetries * (n + 1) = m + maxRetries /\ m \in Nat
    BY <1>2, <2>1
  <2> HIDE DEF m
  <2>4. stats'.retried <= m + maxRetries
    BY <1>2, <2>2, <2>3
  <2>5. stats'.retried <= maxRetries * (stats'.flushed + stats'.failed) + 0
    BY <1>2, <2>1, <2>3, <2>4
  <2> QED
    BY <1>1, <1>2, <2>5 DEF Attempts
<1>7. ASSUME NEW i \in Ids PROVE RowOK(i)'
  <2>1. /\ taken[i] <= maxRetries + 1 /\ taken[i] <= stats.retried + 1
        /\ fate[i] = "flushed" /\ i \notin malformed => taken[i] > 0
        /\ fate[i] = "dropped" \/ i \in malformed => taken[i] = 0
        /\ i \in Elements(writeQueue) => taken[i] = 0
    BY DEF RowsInv, RowOK
  <2>2. CASE i \in Elements(batch)
    <3>1. taken[i] <= writer.attempt /\ writer.attempt <= stats.retried
      BY <1>5, <2>2 DEF RowsInv, Attempts
    <3>2. taken'[i] <= maxRetries + 1 /\ taken'[i] <= stats'.retried + 1
      BY <1>2, <1>3, <3>1
    <3>3. fate'[i] = o
      BY <1>1, <2>2
    <3>4. fate'[i] = "flushed" /\ i \notin malformed => taken'[i] > 0
      BY <1>3, <2>2, <3>3
    <3>5. fate'[i] = "dropped" \/ i \in malformed => taken'[i] = 0
      BY <1>3, <2>1, <3>3
    <3> QED
      BY <1>1, <1>4, <2>2, <3>2, <3>4, <3>5 DEF RowOK
  <2>3. CASE i \notin Elements(batch)
    <3>1. taken'[i] = taken[i] /\ fate'[i] = fate[i]
      BY <1>1, <1>3, <2>3
    <3> QED
      BY <1>1, <1>2, <2>1, <3>1 DEF RowOK
  <2> QED
    BY <2>2, <2>3
<1>8. FailedCount'
  <2>1. stats.failed <= Cardinality(Failed) /\ Cardinality(Failed) <= batchSize * stats.failed
    BY DEF RowsInv, FailedCount
  <2>2. CASE o = "flushed"
    <3>1. Failed' = Failed
      BY <1>1, <1>4, <2>2 DEF Failed
    <3> QED
      BY <1>2, <2>1, <2>2, <3>1 DEF FailedCount
  <2>3. CASE o = "failed"
    <3>1. Failed' = Failed \cup Elements(batch) /\ Failed \cap Elements(batch) = {}
      BY <1>1, <1>4, <2>3 DEF Failed
    <3>2. IsFiniteSet(Failed) /\ Cardinality(Failed) \in Nat
      <4>1. total \in Int /\ 1 \in Int
        BY SavesAssumption DEF Inv, TypeOK
      <4>2. IsFiniteSet(Ids)
        BY <4>1, FS_Interval DEF Ids
      <4>3. Failed \in SUBSET Ids
        BY DEF Failed
      <4> QED
        BY <4>2, <4>3, FS_Subset, FS_CardinalityType
    <3>3. IsFiniteSet(Elements(batch)) /\ Cardinality(Elements(batch)) \in 1..Len(batch)
          /\ Len(batch) \in Nat
      BY <1>4, ElementsCard, LenProperties
    <3>4. Cardinality(Failed') = Cardinality(Failed) + Cardinality(Elements(batch))
      BY <3>1, <3>2, <3>3, DisjointCard
    <3> DEFINE k == Cardinality(Failed)
               e == Cardinality(Elements(batch))
               p == batchSize * stats.failed
    <3>5. batchSize * (stats.failed + 1) = p + batchSize /\ p \in Nat /\ batchSize \in Nat
      BY <1>2, BatchAssumption
    <3>6. stats.failed <= k /\ k <= p /\ e >= 1 /\ e <= batchSize /\ k \in Nat /\ e \in Nat
      BY <1>4, <2>1, <3>2, <3>3, BatchAssumption
    <3>7. stats'.failed = stats.failed + 1
      BY <1>2, <2>3
    <3> HIDE DEF k, e, p
    <3>8. stats.failed + 1 <= k + e /\ k + e <= batchSize * (stats.failed + 1)
      BY <1>2, <3>5, <3>6
    <3> QED
      BY <3>4, <3>7, <3>8 DEF FailedCount, k, e
  <2> QED
    BY <2>2, <2>3
<1> QED
  BY <1>1, <1>6, <1>7, <1>8 DEF RowsInv

\* Every step keeps the account of copies and counters.
LEMMA RowsNext == Inv /\ RowsInv /\ [Next]_vars => RowsInv'
<1> SUFFICES ASSUME Inv, RowsInv, [Next]_vars PROVE RowsInv'
  OBVIOUS
<1>1. CASE FlushTick \/ SeeStop \/ Close
  <2>1. /\ UNCHANGED <<total, batch, writeQueue, fate, malformed, taken, stats>> /\ Ids' = Ids
        /\ writer'.attempt = writer.attempt
        /\ writer'.pc # "flush" => writer.pc # "flush"
    BY <1>1 DEF FlushTick, SeeStop, Close, Ids, Inv, TypeOK, Writer
  <2> QED
    BY <2>1 DEF RowsInv, RowOK, Attempts, FailedCount, Failed
<1>2. CASE FlushOK
  <2>1. EndFlush("flushed") /\ stats' = [stats EXCEPT !.flushed = @ + 1]
    BY <1>2 DEF FlushOK
  <2> QED
    BY <1>2, <2>1, EndFlushRows
<1>3. ASSUME NEW applied \in BOOLEAN, FlushError(applied) PROVE RowsInv'
  <2>1. CASE writer.attempt < maxRetries
    BY <1>3, <2>1, RetryRows
  <2>2. CASE ~(writer.attempt < maxRetries)
    <3>1. EndFlush("failed") /\ stats' = [stats EXCEPT !.failed = @ + 1]
      BY <1>3, <2>2 DEF FlushError
    <3>2. \E b \in BOOLEAN : FlushError(b)
      BY <1>3
    <3> QED
      BY <3>1, <3>2, EndFlushRows
  <2> QED
    BY <2>1, <2>2
<1>4. CASE UNCHANGED vars \/ \E inserted \in SUBSET Ids : ServerInserts(inserted)
  BY <1>4 DEF vars, ServerInserts, Ids, RowsInv, RowOK, Attempts, FailedCount, Failed
<1> QED
  BY <1>1, <1>2, <1>3, <1>4, SaveSpanRows, ReceiveRows DEF Next, WriterStep

\* What the server took never becomes less, and it inserts only what is missing.
LEMMA InsertedNext == Inv /\ Inserted /\ [Next]_vars => Inserted'
<1> SUFFICES ASSUME Inv, Inserted, [Next]_vars PROVE Inserted'
  OBVIOUS
<1>1. /\ taken \in [Ids -> Nat] /\ rows \in [Ids -> Nat] /\ Ids = 1..total /\ total \in Nat
      /\ \A i \in Ids : rows[i] <= taken[i]
  BY SavesAssumption DEF Inv, TypeOK, Inserted, Ids
<1>2. ASSUME NEW bad \in BOOLEAN, SaveSpan(bad) PROVE Inserted'
  <2>1. /\ taken' = [i \in 1..(total + 1) |-> IF i = total + 1 THEN 0 ELSE taken[i]]
        /\ rows' = [i \in 1..(total + 1) |-> IF i = total + 1 THEN 0 ELSE rows[i]]
        /\ Ids' = 1..(total + 1)
    BY <1>2 DEF SaveSpan, Extend, Ids
  <2> QED
    BY <1>1, <2>1 DEF Inserted
<1>3. CASE FlushOK \/ \E applied \in BOOLEAN : FlushError(applied)
  <2>1. rows' = rows /\ Ids' = Ids
    BY <1>3 DEF FlushOK, FlushError, Ids
  <2>2. \A i \in Ids : taken'[i] = taken[i] \/ taken'[i] = taken[i] + 1
    BY <1>3, AttemptRows
  <2> QED
    BY <1>1, <2>1, <2>2 DEF Inserted
<1>4. ASSUME NEW inserted \in SUBSET Ids, ServerInserts(inserted) PROVE Inserted'
  <2>1. /\ taken' = taken /\ Ids' = Ids
        /\ \A i \in inserted : rows[i] < taken[i]
        /\ \A i \in Ids : rows'[i] = IF i \in inserted THEN rows[i] + 1 ELSE rows[i]
    BY <1>4 DEF ServerInserts, Ids
  <2> QED
    BY <1>1, <2>1 DEF Inserted
<1>5. CASE Receive \/ FlushTick \/ SeeStop \/ Close \/ UNCHANGED vars
  <2>1. UNCHANGED <<taken, rows>> /\ Ids' = Ids
    BY <1>5 DEF Receive, FlushTick, SeeStop, Close, vars, Ids
  <2> QED
    BY <2>1 DEF Inserted
<1> QED
  BY <1>2, <1>3, <1>4, <1>5 DEF Next, WriterStep

\* The rows in the table, what the server took and the counters agree with what
\* became of the spans, for every number of retries, every way in which attempts
\* fail, and whatever the server inserts of what it acknowledged, and when
\* (flushWithRetry, doFlush).
THEOREM RowsAccounted == Spec => []RowsMatchFate
<1>1. Spec => []RowsInv
  BY RowsInit, RowsNext, StoreInvariant, PTL DEF Spec
<1>2. Init => Inserted
  BY DEF Init, Inserted, Ids
<1>3. Spec => []Inserted
  BY <1>2, InsertedNext, StoreInvariant, PTL DEF Spec
<1> QED
  BY <1>1, <1>3, RowsInvImplies, StoreInvariant, PTL

-----------------------------------------------------------------------------
(* The refinement.                                                         *)

\* The spans that are written or given up.
Decided == {i \in Ids : fate[i] \in {"flushed", "failed"}}

\* A call of SaveSpan is an acceptance or a refusal: it is refused only with
\* queueCapacity spans in the queue, and accepted while the queue has room.
LEMMA SaveSpanDelivers ==
    ASSUME Inv, NEW bad \in BOOLEAN, SaveSpan(bad)
    PROVE  Delivery!Accept \/ Delivery!Refuse
<1>1. /\ total \in Nat /\ Ids = 1..total /\ Ids' = 1..(total + 1)
      /\ batch \in Seq(Ids) /\ writeQueue \in Seq(Ids)
      /\ batch' = batch /\ total' = total + 1
  BY SavesAssumption DEF Inv, TypeOK, SaveSpan, Ids
<1>2. /\ Len(batch) \in Nat /\ Len(writeQueue) \in Nat
      /\ Len(batch \o writeQueue) = Len(batch) + Len(writeQueue)
      /\ Len(batch) <= batchSize
  BY <1>1, ConcatShape DEF Inv, Sizes
<1>3. fate'[total + 1] \in {"open", "dropped"} => Decided' = Decided
  <2>1. \A i \in 1..total : fate'[i] = fate[i]
    BY SaveSpanFate DEF Inv
  <2> QED
    BY <1>1, <2>1 DEF Decided
<1>4. CASE /\ fate'[total + 1] = "dropped" /\ writeQueue' = writeQueue
           /\ Len(writeQueue) >= queueCapacity
  <2>1. Len(batch \o writeQueue) >= queueCapacity
    BY <1>2, <1>4, CapacityAssumption
  <2> QED
    BY <1>1, <1>3, <1>4, <2>1 DEF Delivery!Refuse, Decided
<1>5. CASE /\ fate'[total + 1] = "open" /\ writeQueue' = Append(writeQueue, total + 1)
           /\ Len(writeQueue) < queueCapacity
  <2>1. Len(batch \o writeQueue) < queueCapacity + batchSize
    BY <1>2, <1>5, CapacityAssumption, BatchAssumption
  <2>2. /\ batch \in Seq(1..(total + 1)) /\ writeQueue \in Seq(1..(total + 1))
        /\ total + 1 \in 1..(total + 1)
    BY <1>1, SeqMonotonic
  <2>3. batch' \o writeQueue' = Append(batch \o writeQueue, total + 1)
    BY <1>1, <1>5, <2>2, ConcatAppend
  <2> QED
    BY <1>1, <1>3, <1>5, <2>1, <2>3 DEF Delivery!Accept, Decided
<1> QED
  BY <1>4, <1>5, SaveSpanFate DEF Inv

\* The end of a flush decides the batch, which is the oldest part of what is
\* undecided.
LEMMA EndFlushDelivers ==
    ASSUME Inv, writer.pc = "flush", NEW o \in {"flushed", "failed"}, EndFlush(o),
           UNCHANGED <<total, writeQueue>>
    PROVE  Delivery!Decide
<1>1. /\ batch \in Seq(Ids) /\ writeQueue \in Seq(Ids) /\ Ids' = Ids
      /\ batch' = <<>> /\ writeQueue' = writeQueue
      /\ fate' = [i \in Ids |-> IF i \in Elements(batch) THEN o ELSE fate[i]]
  BY DEF Inv, TypeOK, EndFlush, Ids
<1>2. /\ Len(batch) \in Nat /\ Len(writeQueue) \in Nat
      /\ Len(batch \o writeQueue) = Len(batch) + Len(writeQueue)
      /\ Len(batch) <= batchSize /\ Len(batch) # 0
  <2>1. batch # <<>> /\ Len(batch) <= batchSize
    BY DEF Inv, Sizes
  <2> QED
    BY <1>1, <2>1, ConcatShape, EmptySeq
<1>3. Len(batch) \in 1..Len(batch \o writeQueue)
  BY <1>2
<1>4. /\ SubSeq(batch \o writeQueue, Len(batch) + 1, Len(batch \o writeQueue)) = writeQueue
      /\ {(batch \o writeQueue)[i] : i \in 1..Len(batch)} = Elements(batch)
  BY <1>1, ConcatRest
<1>5. batch' \o writeQueue' = writeQueue
  BY <1>1, ConcatEmptySeq
<1>6. Decided' = Decided \cup Elements(batch)
  BY <1>1, ElementsIn DEF Decided
<1> QED
  BY <1>2, <1>3, <1>4, <1>5, <1>6 DEF Delivery!Decide, Decided

\* A step that moves no span is a stutter of the delivery.
LEMMA StutterDelivers ==
    ASSUME total' = total, fate' = fate, batch' \o writeQueue' = batch \o writeQueue
    PROVE  UNCHANGED Delivery!dvars
  BY DEF Delivery!dvars, Ids

\* Every step of the store is a step of the delivery or a stutter.
LEMMA StepDelivers == Inv /\ [Next]_vars => [Delivery!DNext]_(Delivery!dvars)
<1> SUFFICES ASSUME Inv, [Next]_vars PROVE [Delivery!DNext]_(Delivery!dvars)
  OBVIOUS
<1>1. ASSUME NEW bad \in BOOLEAN, SaveSpan(bad) PROVE Delivery!DNext
  BY <1>1, SaveSpanDelivers DEF Delivery!DNext
<1>2. CASE Receive
  <2>1. total' = total /\ fate' = fate /\ batch' \o writeQueue' = batch \o writeQueue
    BY <1>2, ReceiveConcat DEF Inv, Receive
  <2> QED
    BY <2>1, StutterDelivers
<1>3. CASE FlushTick \/ SeeStop \/ Close
  BY <1>3, IdleInv, StutterDelivers
<1>4. CASE \/ FlushOK
           \/ \E applied \in BOOLEAN : FlushError(applied) /\ ~(writer.attempt < maxRetries)
  BY <1>4, FlushEnds, EndFlushDelivers DEF Delivery!DNext
<1>5. ASSUME NEW applied \in BOOLEAN, FlushError(applied), writer.attempt < maxRetries
      PROVE  UNCHANGED Delivery!dvars
  BY <1>5, RetryInv, StutterDelivers
<1>6. CASE UNCHANGED vars
  BY <1>6, StutterDelivers DEF vars
<1>7. ASSUME NEW inserted \in SUBSET Ids, ServerInserts(inserted)
      PROVE  UNCHANGED Delivery!dvars
  BY <1>7, ServerInv, StutterDelivers
<1> QED
  BY <1>1, <1>2, <1>3, <1>4, <1>5, <1>6, <1>7 DEF Next, WriterStep

\* The store implements the delivery it promises its callers: a span is refused
\* only while at least queueCapacity spans are undecided, and accepted spans are
\* decided in the order of the calls, at most batchSize at a time.
THEOREM Implements == Spec => Delivers
<1>1. Init => Delivery!DInit
  <2> SUFFICES ASSUME Init PROVE Delivery!DInit
    OBVIOUS
  <2>1. total = 0 /\ batch = <<>> /\ writeQueue = <<>> /\ Ids = {}
    BY DEF Init, Ids
  <2> QED
    BY <2>1 DEF Delivery!DInit
<1> QED
  BY <1>1, StoreInvariant, StepDelivers, PTL DEF Spec, Delivers, Delivery!DSpec
=============================================================================
