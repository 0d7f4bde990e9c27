------------------------------ MODULE SpanStore -------------------------------
(***************************************************************************)
(* The write path of pkg/storage/clickhouse.go.  SaveSpan offers a span to *)
(* the bounded channel writeQueue and never blocks; the batchWriter        *)
(* goroutine collects spans into a batch and flushes it when it is full,   *)
(* when the flush ticker fires or when the store is closed; a flush is     *)
(* tried maxRetries + 1 times.  Close waits for batchWriter and for the    *)
(* statsReporter goroutine.                                                *)
(*                                                                         *)
(* The database is external.  The connection asks for asynchronous inserts *)
(* that are not waited for (async_insert, wait_for_async_insert): the      *)
(* server acknowledges what it has taken into its buffer and inserts it    *)
(* later, or loses it, and nothing tells the store which.  An attempt may  *)
(* be refused, may be taken and acknowledged, or may be taken and still be *)
(* answered with an error (the deadline of doFlush, a lost connection).  A *)
(* span some field of which the driver does not accept is skipped by every *)
(* attempt.  Spans are numbered in the order of the calls of SaveSpan.     *)
(***************************************************************************)
EXTENDS Integers, Sequences, FiniteSets

CONSTANTS
    queueCapacity,  \* capacity of writeQueue
    batchSize,      \* spans in a full batch
    maxRetries,     \* retries after the first attempt of a flush
    MaxSaves        \* bound on the number of calls of SaveSpan

ASSUME CapacityAssumption == queueCapacity \in Nat \ {0}
ASSUME BatchAssumption == batchSize \in Nat \ {0}
ASSUME RetryAssumption == maxRetries \in Nat \ {0}
ASSUME SavesAssumption == MaxSaves \in Nat

VARIABLES
    total,       \* stats.TotalSpans
    writeQueue,  \* the channel
    batch,       \* batchWriter's batch
    writer,      \* where batchWriter is
    fate,        \* what became of each span
    malformed,   \* spans the driver refuses to append
    taken,       \* copies of each span that the server took
    rows,        \* copies of each span in the table
    stopped,     \* stopChan is closed
    wg,          \* the WaitGroup's count
    stats        \* the other counters of ClickHouseStats

vars == <<total, writeQueue, batch, writer, fate, malformed, taken, rows, stopped, wg, stats>>

Ids == 1..total

Elements(q) == {q[i] : i \in DOMAIN q}

\* stopping: the flush in progress was started by the closed stopChan.
Writer == [pc : {"select", "flush", "done"}, attempt : 0..maxRetries, stopping : BOOLEAN]

Fates == {"open", "dropped", "flushed", "failed"}

\* Every variable has its type.
TypeOK ==
    /\ total \in 0..MaxSaves
    /\ writeQueue \in Seq(Ids)
    /\ batch \in Seq(Ids)
    /\ writer \in Writer
    /\ fate \in [Ids -> Fates]
    /\ malformed \subseteq Ids
    /\ taken \in [Ids -> Nat]
    /\ rows \in [Ids -> Nat]
    /\ stopped \in BOOLEAN
    /\ wg \in Nat
    /\ stats \in [flushed : Nat, failed : Nat, retried : Nat, dropped : Nat]

\* NewClickHouseStore.
Init ==
    /\ total = 0
    /\ writeQueue = <<>>
    /\ batch = <<>>
    /\ writer = [pc |-> "select", attempt |-> 0, stopping |-> FALSE]
    /\ fate = [i \in {} |-> "open"]
    /\ malformed = {}
    /\ taken = [i \in {} |-> 0]
    /\ rows = [i \in {} |-> 0]
    /\ stopped = FALSE
    /\ wg = 2
    /\ stats = [flushed |-> 0, failed |-> 0, retried |-> 0, dropped |-> 0]

Extend(f, n, x) == [i \in 1..(n + 1) |-> IF i = n + 1 THEN x ELSE f[i]]

-----------------------------------------------------------------------------
\* Mutant: the queue counts as full when one place is left.
SaveSpanTooStrict(bad) ==
    /\ total < MaxSaves
    /\ total' = total + 1
    /\ taken' = Extend(taken, total, 0)
    /\ rows' = Extend(rows, total, 0)
    /\ malformed' = IF bad THEN malformed \cup {total + 1} ELSE malformed
    /\ \/ /\ Len(writeQueue) < queueCapacity - 1
          /\ writeQueue' = Append(writeQueue, total + 1)
          /\ fate' = Extend(fate, total, "open")
          /\ UNCHANGED stats
       \/ /\ Len(writeQueue) >= queueCapacity - 1
          /\ fate' = Extend(fate, total, "dropped")
          /\ stats' = [stats EXCEPT !.dropped = @ + 1]
          /\ UNCHANGED writeQueue
    /\ UNCHANGED <<batch, writer, stopped, wg>>

\* SaveSpan; bad says that the driver will refuse to append the span.
SaveSpan(bad) ==
    /\ total < MaxSaves
    /\ total' = total + 1
    /\ taken' = Extend(taken, total, 0)
    /\ rows' = Extend(rows, total, 0)
    /\ malformed' = IF bad THEN malformed \cup {total + 1} ELSE malformed
    /\ \/ /\ Len(writeQueue) < queueCapacity
          /\ writeQueue' = Append(writeQueue, total + 1)
          /\ fate' = Extend(fate, total, "open")
          /\ UNCHANGED stats
       \/ /\ Len(writeQueue) >= queueCapacity
          /\ fate' = Extend(fate, total, "dropped")
          /\ stats' = [stats EXCEPT !.dropped = @ + 1]
          /\ UNCHANGED writeQueue
    /\ UNCHANGED <<batch, writer, stopped, wg>>

\* batchWriter receives a span; a full batch is flushed.
Receive ==
    /\ writer.pc = "select"
    /\ writeQueue # <<>>
    /\ batch' = Append(batch, Head(writeQueue))
    /\ writeQueue' = Tail(writeQueue)
    /\ writer' = [writer EXCEPT !.pc = IF Len(batch) + 1 >= batchSize THEN "flush" ELSE @]
    /\ UNCHANGED <<total, fate, malformed, taken, rows, stopped, wg, stats>>

\* Mutant: the ticker flushes only a full batch.
FlushTickFull ==
    /\ writer.pc = "select"
    /\ Len(batch) >= batchSize
    /\ writer' = [writer EXCEPT !.pc = "flush"]
    /\ UNCHANGED <<total, writeQueue, batch, fate, malformed, taken, rows, stopped, wg, stats>>

\* The ticker fires.
FlushTick ==
    /\ writer.pc = "select"
    /\ batch # <<>>
    /\ writer' = [writer EXCEPT !.pc = "flush"]
    /\ UNCHANGED <<total, writeQueue, batch, fate, malformed, taken, rows, stopped, wg, stats>>

\* Mutant: the loop's select is left instead of the function.
SeeStopStays ==
    /\ writer.pc = "select"
    /\ stopped
    /\ writer' = [writer EXCEPT !.pc = IF batch = <<>> THEN "select" ELSE "flush"]
    /\ UNCHANGED <<total, writeQueue, batch, fate, malformed, taken, rows, stopped, wg, stats>>

\* batchWriter sees the closed stopChan: it flushes its batch and returns. What
\* is in writeQueue stays there.
SeeStop ==
    /\ writer.pc = "select"
    /\ stopped
    /\ \/ /\ batch = <<>>
          /\ writer' = [writer EXCEPT !.pc = "done"]
          /\ wg' = wg - 1
       \/ /\ batch # <<>>
          /\ writer' = [writer EXCEPT !.pc = "flush", !.stopping = TRUE]
          /\ UNCHANGED wg
    /\ UNCHANGED <<total, writeQueue, batch, fate, malformed, taken, rows, stopped, stats>>

\* Mutant: the batch is not emptied.
EndFlushKeeps(o) ==
    /\ fate' = [i \in Ids |-> IF i \in Elements(batch) THEN o ELSE fate[i]]
    /\ writer' = [pc |-> IF writer.stopping THEN "done" ELSE "select",
                  attempt |-> 0, stopping |-> FALSE]
    /\ wg' = IF writer.stopping THEN wg - 1 ELSE wg
    /\ UNCHANGED batch

\* flushBatch returns, with the outcome o for every span of the batch.
EndFlush(o) ==
    /\ fate' = [i \in Ids |-> IF i \in Elements(batch) THEN o ELSE fate[i]]
    /\ batch' = <<>>
    /\ writer' = [pc |-> IF writer.stopping THEN "done" ELSE "select",
                  attempt |-> 0, stopping |-> FALSE]
    /\ wg' = IF writer.stopping THEN wg - 1 ELSE wg

\* Mutant: spans that could not be appended are sent as well.
SentAll(b) ==
    taken' = [i \in Ids |-> IF i \in Elements(b) THEN taken[i] + 1 ELSE taken[i]]

\* The server takes the spans of the batch that could be appended.
Sent(b) ==
    taken' = [i \in Ids |-> IF i \in Elements(b) \ malformed THEN taken[i] + 1 ELSE taken[i]]

\* doFlush succeeds: the server acknowledges the batch.
FlushOK ==
    /\ writer.pc = "flush"
    /\ Sent(batch)
    /\ EndFlush("flushed")
    /\ stats' = [stats EXCEPT !.flushed = @ + 1]
    /\ UNCHANGED <<total, writeQueue, malformed, rows, stopped>>

\* doFlush returns an error; applied says whether the server nevertheless took
\* the batch.  flushWithRetry tries again, or gives the batch up.
FlushError(applied) ==
    /\ writer.pc = "flush"
    /\ IF applied THEN Sent(batch) ELSE UNCHANGED taken
    /\ \/ /\ writer.attempt < maxRetries
          /\ writer' = [writer EXCEPT !.attempt = @ + 1]
          /\ stats' = [stats EXCEPT !.retried = @ + 1]
          /\ UNCHANGED <<batch, fate, wg>>
       \/ /\ writer.attempt = maxRetries
          /\ EndFlush("failed")
          /\ stats' = [stats EXCEPT !.failed = @ + 1]
    /\ UNCHANGED <<total, writeQueue, malformed, rows, stopped>>

\* The server inserts some of what it took.  What it loses it never inserts.
ServerInserts(inserted) ==
    /\ inserted # {}
    /\ \A i \in inserted : rows[i] < taken[i]
    /\ rows' = [i \in Ids |-> IF i \in inserted THEN rows[i] + 1 ELSE rows[i]]
    /\ UNCHANGED <<total, writeQueue, batch, writer, fate, malformed, taken, stopped, wg, stats>>

(***************************************************************************)
(* Close closes stopChan and waits for the count of wg to become 0.  Only  *)
(* batchWriter ever takes one off it: statsReporter ranges over a ticker's *)
(* channel, which is never closed, and does not look at stopChan.  The     *)
(* rest of Close, which closes writeQueue and the connection, is therefore *)
(* not reached, and no action models it.                                   *)
(***************************************************************************)
Close ==
    /\ ~stopped
    /\ stopped' = TRUE
    /\ UNCHANGED <<total, writeQueue, batch, writer, fate, malformed, taken, rows, wg, stats>>

WriterStep ==
    \/ Receive
    \/ FlushTick
    \/ SeeStop
    \/ FlushOK
    \/ \E applied \in BOOLEAN : FlushError(applied)

Next ==
    \/ \E bad \in BOOLEAN : SaveSpan(bad)
    \/ WriterStep
    \/ \E inserted \in SUBSET Ids : ServerInserts(inserted)
    \/ Close

Spec == Init /\ [][Next]_vars

(***************************************************************************)
(* batchWriter always runs on: its select has a ready case sooner or later *)
(* because the ticker keeps firing, and among ready cases Go chooses at    *)
(* random, so that none is passed over for ever.                           *)
(***************************************************************************)
Fairness == WF_vars(WriterStep) /\ SF_vars(SeeStop)

FairSpec == Spec /\ Fairness

-----------------------------------------------------------------------------
(* Properties.                                                             *)

Increasing(q) == \A i, j \in DOMAIN q : i < j => q[i] < q[j]

\* Accepted spans whose fate is open are exactly those in the batch and in the
\* queue, once each and in the order of the calls: neither a flush, nor a
\* retry, nor the drop of later spans loses or reorders one.
NothingMislaid ==
    /\ {i \in Ids : fate[i] = "open"} = Elements(batch \o writeQueue)
    /\ Increasing(batch \o writeQueue)

\* The table, the server's acknowledgements and the counters agree as far as the
\* code can make them.  A span is in the table at most as often as the server
\* took it, which is at most once per attempt of its flush, and each time but the
\* first is the trace of a counted retry.  The server took it if its batch is
\* counted as flushed and the driver accepts it, which does not say that it is in
\* the table; and it took no span that was dropped, refused by the driver or not
\* taken from the queue.  The spans of failed batches are between one and
\* batchSize for each that was counted.
RowsMatchFate ==
    LET failed == {i \in Ids : fate[i] = "failed"}
    IN  /\ \A i \in Ids :
             /\ rows[i] <= taken[i]
             /\ taken[i] <= maxRetries + 1
             /\ taken[i] <= stats.retried + 1
             /\ fate[i] = "flushed" /\ i \notin malformed => taken[i] > 0
             /\ fate[i] = "dropped" \/ i \in malformed => taken[i] = 0
             /\ i \in Elements(writeQueue) => taken[i] = 0
        /\ stats.failed <= Cardinality(failed)
        /\ Cardinality(failed) <= batchSize * stats.failed
        /\ stats.retried <= maxRetries * (stats.flushed + stats.failed + 1)

\* As long as the store is not closed every accepted span is decided.
EventuallyDecided ==
    \A i \in 1..MaxSaves :
        (i \in Ids /\ fate[i] = "open") ~> (stopped \/ (i \in Ids /\ fate[i] # "open"))

\* After Close, batchWriter returns: a full queue, a failing database or callers
\* that go on saving do not keep it alive.
WriterStops == stopped ~> writer.pc = "done"

\* cmd/main.go announces "Press Ctrl+C to stop" and stops by returning from
\* main, whose deferred Close waits for the WaitGroup: the wait must end.
CloseReturns == stopped ~> wg = 0

Delivery == INSTANCE SpanDelivery WITH
    Capacity <- queueCapacity, Group <- batchSize,
    next <- total, undecided <- batch \o writeQueue,
    decided <- {i \in Ids : fate[i] \in {"flushed", "failed"}}

\* The store implements the abstract delivery of spans.
Delivers == Delivery!DSpec
=============================================================================
