---------------------------- MODULE BoundedFifo ----------------------------
(***************************************************************************)
(* What spsc_queue promises its two users: a first-in first-out channel    *)
(* that never holds more than Limit items.  Each user knows the other      *)
(* side's progress only up to the last index it loaded, so besides the     *)
(* items themselves the promise has two views: backlog, the number of      *)
(* items the producer believes are still queued (never too low), and       *)
(* avail, the number the consumer knows are there (never too high).        *)
(***************************************************************************)
EXTENDS Naturals, Sequences

CONSTANTS Values, Limit

VARIABLES items,      \* what has been pushed and not yet popped, oldest first
          delivered,  \* what has been popped, oldest first
          backlog,    \* the producer's view of Len(items)
          avail       \* the consumer's view of Len(items)

vars == <<items, delivered, backlog, avail>>

Init ==
  /\ items = <<>>
  /\ delivered = <<>>
  /\ backlog = 0
  /\ avail = 0

\* The producer catches up, perhaps only in part, with what was popped.
ProducerLooks ==
  /\ backlog' \in Len(items) .. backlog
  /\ UNCHANGED <<items, delivered, avail>>

\* A push succeeds exactly when the producer's view leaves room.
Push(v) ==
  /\ backlog < Limit
  /\ items' = Append(items, v)
  /\ backlog' = backlog + 1
  /\ UNCHANGED <<delivered, avail>>

\* The consumer catches up, perhaps only in part, with what was pushed.
ConsumerLooks ==
  /\ avail' \in avail .. Len(items)
  /\ UNCHANGED <<items, delivered, backlog>>

Pop ==
  /\ avail > 0
  /\ delivered' = Append(delivered, Head(items))
  /\ items' = Tail(items)
  /\ avail' = avail - 1
  /\ UNCHANGED backlog

Next ==
  \/ ProducerLooks
  \/ \E v \in Values : Push(v)
  \/ ConsumerLooks
  \/ Pop

Spec == Init /\ [][Next]_vars
=============================================================================
