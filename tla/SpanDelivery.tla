----------------------------- MODULE SpanDelivery -----------------------------
(***************************************************************************)
(* What the store promises to the callers of SaveSpan, without its queue,  *)
(* its batches and its retries: a span is accepted or refused at once, it  *)
(* is refused only while at least Capacity accepted spans are undecided,   *)
(* and accepted spans are decided (written or given up) in the order in    *)
(* which they were accepted, up to Group of them at a time.                *)
(***************************************************************************)
EXTENDS Integers, Sequences

CONSTANTS Capacity, Group

VARIABLES
    next,        \* number of spans offered so far
    undecided,   \* accepted spans, oldest first
    decided      \* spans written or given up

dvars == <<next, undecided, decided>>

DInit == next = 0 /\ undecided = <<>> /\ decided = {}

Accept ==
    /\ Len(undecided) < Capacity + Group
    /\ next' = next + 1
    /\ undecided' = Append(undecided, next + 1)
    /\ UNCHANGED decided

Refuse ==
    /\ Len(undecided) >= Capacity
    /\ next' = next + 1
    /\ UNCHANGED <<undecided, decided>>

Decide ==
    /\ \E n \in 1..Len(undecided) :
         /\ n <= Group
         /\ decided' = decided \cup {undecided[i] : i \in 1..n}
         /\ undecided' = SubSeq(undecided, n + 1, Len(undecided))
    /\ UNCHANGED next

DNext == Accept \/ Refuse \/ Decide

DSpec == DInit /\ [][DNext]_dvars
=============================================================================
