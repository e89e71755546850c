----------------------------- MODULE SpscQueue -----------------------------
(***************************************************************************)
(* stl::spsc_queue (stl/spsc_queue.h): the lock-free ring one producer     *)
(* thread and one consumer thread share.  Every atomic access and every    *)
(* slot access is a step of its own.                                       *)
(*                                                                         *)
(* The two threads synchronise only through the release stores and acquire *)
(* loads of m_head and m_tail, so a load of the other side's index may     *)
(* return any value of that index's modification order from the last one   *)
(* the thread saw (coherence) to the latest.  Every store moves an index   *)
(* one slot forward, so those values are the slots between the two.  Each  *)
(* thread is the only writer of its own index: its relaxed load of it      *)
(* returns the latest value and is not a step.                             *)
(***************************************************************************)
EXTENDS Integers, Sequences

CONSTANTS Capacity,  \* the template parameter
          Values,    \* what the producer pushes
          Uninit,    \* what a slot of the default-initialised array holds
          MaxItems   \* bound: pushes that succeed in one behaviour

\* The static_assert on line 10, without the degenerate empty ring.
ASSUME CapacityAssumption ==
  /\ Capacity \in Nat \ {0}
  /\ \E k \in 0 .. Capacity : Capacity = 2 ^ k

ASSUME UninitAssumption == Uninit \notin Values

VARIABLES m_head,     \* next slot to fill, stored by the producer
          m_tail,     \* next slot to empty, stored by the consumer
          m_buffer,
          p_pc,       \* where the producer is in try_push
          p_item,     \* try_push's argument
          tail_seen,  \* the value of m_tail the producer last loaded
          c_pc,       \* where the consumer is in try_pop
          c_item,     \* try_pop's out parameter
          head_seen,  \* the value of m_head the consumer last loaded
          popped      \* history: what try_pop handed out, oldest first

producer == <<p_pc, p_item, tail_seen, m_head, m_buffer>>
consumer == <<c_pc, c_item, head_seen, m_tail, popped>>
queueVars == <<producer, consumer>>

Slots == 0 .. Capacity - 1

\* (i + 1) & (Capacity - 1), for a Capacity that is a power of two.
Wrap(i) == (i + 1) % Capacity

\* Slots from a forward to b, and the slots on that way, both ends included.
Dist(a, b) == IF a <= b THEN b - a ELSE b - a + Capacity
Between(a, b) == {s \in Slots : Dist(a, s) <= Dist(a, b)}

Size == Dist(m_tail, m_head)

QueueInit ==
  /\ m_head = 0
  /\ m_tail = 0
  /\ m_buffer = [s \in Slots |-> Uninit]
  /\ p_pc = "idle"
  /\ p_item = Uninit
  /\ tail_seen = 0
  /\ c_pc = "idle"
  /\ c_item = Uninit
  /\ head_seen = 0
  /\ popped = <<>>

\* try_push(v) is called.
PushCall(v) ==
  /\ p_pc = "idle"
  /\ Len(popped) + Size < MaxItems
  /\ p_pc' = "check"
  /\ p_item' = v
  /\ UNCHANGED <<tail_seen, m_head, m_buffer, consumer>>

\* The acquire load of m_tail and the test for a full ring.
PushCheckLate ==
  /\ p_pc = "check"
  /\ \E t \in Between(tail_seen, m_tail) :
       /\ tail_seen' = t
       /\ p_pc' = IF m_head = t /\ Size > 0 THEN "idle" ELSE "write"
  /\ UNCHANGED <<p_item, m_head, m_buffer, consumer>>
PushCheckEager ==
  /\ p_pc = "check"
  /\ \E t \in Between(tail_seen, m_tail) :
       /\ tail_seen' = t
       /\ p_pc' = IF t \in {Wrap(m_head), Wrap(Wrap(m_head))} THEN "idle" ELSE "write"
  /\ UNCHANGED <<p_item, m_head, m_buffer, consumer>>
PushCheck ==
  /\ p_pc = "check"
  /\ \E t \in Between(tail_seen, m_tail) :
       /\ tail_seen' = t
       /\ p_pc' = IF Wrap(m_head) = t THEN "idle" ELSE "write"
  /\ UNCHANGED <<p_item, m_head, m_buffer, consumer>>

\* The slot is assigned; until this step the assignment may be under way.
PushWrite ==
  /\ p_pc = "write"
  /\ m_buffer' = [m_buffer EXCEPT ![m_head] = p_item]
  /\ p_pc' = "publish"
  /\ UNCHANGED <<p_item, tail_seen, m_head, consumer>>

\* The release store of m_head; try_push returns true.
PushPublish ==
  /\ p_pc = "publish"
  /\ m_head' = Wrap(m_head)
  /\ p_pc' = "idle"
  /\ UNCHANGED <<p_item, tail_seen, m_buffer, consumer>>

\* try_pop is called: the acquire load of m_head and the test for an empty ring.
PopCheckKeepsOne(h) ==
  /\ c_pc = "idle"
  /\ h \in Between(head_seen, m_head)
  /\ head_seen' = h
  /\ c_pc' = IF h \in {m_tail, Wrap(m_tail)} THEN "idle" ELSE "read"
  /\ UNCHANGED <<c_item, m_tail, popped, producer>>
PopCheck(h) ==
  /\ c_pc = "idle"
  /\ h \in Between(head_seen, m_head)
  /\ head_seen' = h
  /\ c_pc' = IF m_tail = h THEN "idle" ELSE "read"
  /\ UNCHANGED <<c_item, m_tail, popped, producer>>

\* The slot is copied out; until this step the copy may be under way.
PopRead ==
  /\ c_pc = "read"
  /\ c_item' = m_buffer[m_tail]
  /\ c_pc' = "advance"
  /\ UNCHANGED <<head_seen, m_tail, popped, producer>>

\* The release store of m_tail; try_pop returns true.
PopAdvanceStuck ==
  /\ c_pc = "advance"
  /\ m_tail' = m_tail
  /\ popped' = Append(popped, c_item)
  /\ c_pc' = "idle"
  /\ UNCHANGED <<c_item, head_seen, producer>>
PopAdvance ==
  /\ c_pc = "advance"
  /\ m_tail' = Wrap(m_tail)
  /\ popped' = Append(popped, c_item)
  /\ c_pc' = "idle"
  /\ UNCHANGED <<c_item, head_seen, producer>>

QueueNext ==
  \/ \E v \in Values : PushCall(v)
  \/ PushCheck
  \/ PushWrite
  \/ PushPublish
  \/ \E h \in Slots : PopCheck(h)
  \/ PopRead
  \/ PopAdvance

QueueSpec == QueueInit /\ [][QueueNext]_queueVars

\* Both threads keep running, the consumer polls, and a store becomes visible
\* to the other thread after finite time.
QueueFairness ==
  /\ WF_queueVars(PushCheck)
  /\ WF_queueVars(PushWrite)
  /\ WF_queueVars(PushPublish)
  /\ WF_queueVars(PopCheck(m_head))
  /\ WF_queueVars(PopRead)
  /\ WF_queueVars(PopAdvance)

QueueFairSpec == QueueSpec /\ QueueFairness
-----------------------------------------------------------------------------
QueueTypeOK ==
  /\ m_head \in Slots
  /\ m_tail \in Slots
  /\ m_buffer \in [Slots -> Values \cup {Uninit}]
  /\ p_pc \in {"idle", "check", "write", "publish"}
  /\ p_item \in Values \cup {Uninit}
  /\ tail_seen \in Slots
  /\ c_pc \in {"idle", "read", "advance"}
  /\ c_item \in Values \cup {Uninit}
  /\ head_seen \in Slots
  /\ popped \in Seq(Values \cup {Uninit})

\* try_push's assignment to a slot (18, 28) and try_pop's copy of a slot (38)
\* never overlap on the same slot, whatever stale index either side acts on:
\* the queue is free of data races without a lock.
NoSlotRace == ~(p_pc = "write" /\ c_pc = "read" /\ m_head = m_tail)

\* The order the protocol keeps: going round the ring, the tail the producer
\* last saw, the real tail, the head the consumer last saw and the real head
\* come in this order (14-19, 34-39); a slot is written only in front of the
\* head and every slot from tail to head holds a pushed value.  This is the
\* inductive invariant of the proofs.
RingInv ==
  /\ QueueTypeOK
  /\ Dist(tail_seen, m_tail) + Size = Dist(tail_seen, m_head)
  /\ Dist(m_tail, head_seen) <= Size
  /\ p_pc \in {"write", "publish"} => Dist(tail_seen, m_head) < Capacity - 1
  /\ c_pc \in {"read", "advance"} => head_seen # m_tail
  /\ p_pc # "idle" => p_item \in Values
  /\ p_pc = "publish" => m_buffer[m_head] = p_item
  /\ c_pc = "advance" => c_item = m_buffer[m_tail]
  /\ \A s \in Slots : Dist(m_tail, s) < Size => m_buffer[s] \in Values

\* try_push refuses (16) only when the indices it holds are Capacity - 1 items
\* apart, and accepts only when a slot other than the one kept empty is free,
\* so that a full ring is never taken for an empty one.
RefusesOnlyWhenFull ==
  [][p_pc = "check" =>
       /\ p_pc' = "idle" => Dist(tail_seen', m_head) = Capacity - 1
       /\ p_pc' = "write" => Size < Capacity - 1]_queueVars

\* What the ring holds: the slots from m_tail up to m_head, oldest first.
SlotOf(i) == IF m_tail + i - 1 < Capacity THEN m_tail + i - 1
                                          ELSE m_tail + i - 1 - Capacity
Contents == [i \in 1 .. Size |-> m_buffer[SlotOf(i)]]

Fifo == INSTANCE BoundedFifo WITH
  Limit <- Capacity - 1,
  items <- Contents,
  delivered <- popped,
  backlog <- Dist(tail_seen, m_head),
  avail <- Dist(m_tail, head_seen)

\* The ring with its stale loads is a bounded first-in first-out channel:
\* nothing is lost, duplicated, reordered or read before it was written (13-41).
ImplementsFifo == Fifo!Spec

\* Every item try_push accepted reaches a consumer that keeps calling try_pop.
EveryItemDelivered ==
  \A n \in 1 .. MaxItems :
    (Len(popped) + Size >= n) ~> (Len(popped) >= n)
=============================================================================
