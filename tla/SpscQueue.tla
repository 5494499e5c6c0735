----------------------------- MODULE SpscQueue -----------------------------
(***************************************************************************)
(* include/market/SpscQueue.hpp: the bounded single-producer/single-       *)
(* consumer ring.  Every shared-memory access of try_push and try_pop is a *)
(* step of its own.                                                        *)
(*                                                                         *)
(* Memory order.  A thread always reads its own index exactly.  An acquire *)
(* load of the other thread's index may return any value that index has    *)
(* had since the last one this thread read (coherence forbids going back), *)
(* so each thread carries that last value and a load picks one between it  *)
(* and the current one.  What the release/acquire pair orders is therefore *)
(* exactly what the loaded index covers, and the accesses to storage_ it   *)
(* does not cover would be data races: see NoDataRace.                     *)
(***************************************************************************)
EXTENDS Naturals, Sequences

CONSTANTS Item,     \* T
          Capacity  \* slots of storage_, one of them reserved

(* The static_assert of the class template. *)
ASSUME CapacityAssumption == Capacity \in Nat /\ Capacity >= 2

ASSUME ItemAssumption == Item # {}

VARIABLES
  storage_,  \* the slots
  head_,     \* next slot to write; stored by the producer only
  tail_,     \* next slot to read; stored by the consumer only
  push_pc,   \* where the producer is in try_push
  push_item, \* the argument of the current try_push
  seen_tail, \* the last value the producer loaded from tail_
  pop_pc,    \* where the consumer is in try_pop
  pop_item,  \* try_pop's out-parameter
  seen_head  \* the last value the consumer loaded from head_

producer_vars == <<push_pc, push_item, seen_tail>>
consumer_vars == <<pop_pc, pop_item, seen_head>>
queue_vars == <<storage_, head_, tail_, producer_vars, consumer_vars>>

Index == 0 .. Capacity - 1

usable_capacity == Capacity - 1

increment(index) == (index + 1) % Capacity

(* How far index `head` is ahead of index `tail` around the ring. *)
size_approx(head, tail) == IF head >= tail THEN head - tail
                                           ELSE Capacity - tail + head

(* What an acquire load may return to a thread that last read `seen`.      *)
Visible(seen, current) ==
  {i \in Index : size_approx(i, seen) <= size_approx(current, seen)}

QueueInit ==
  /\ storage_ \in [Index -> Item]
  /\ \A i, j \in Index : storage_[i] = storage_[j]   \* value-initialized
  /\ head_ = 0 /\ tail_ = 0
  /\ push_pc = "idle" /\ seen_tail = 0
  /\ pop_pc = "idle" /\ seen_head = 0
  /\ push_item = storage_[0] /\ pop_item = storage_[0]

-----------------------------------------------------------------------------
(* try_push *)

(* The load of tail_ says full: return false. *)
PushFull(tail) ==
  /\ push_pc = "idle"
  /\ tail \in Visible(seen_tail, tail_)
  /\ increment(head_) = tail
  /\ seen_tail' = tail
  /\ UNCHANGED <<storage_, head_, tail_, push_pc, push_item, consumer_vars>>

(* Mutant: the full test is dropped. *)
PushRoom_Unguarded(item, tail) ==
  /\ push_pc = "idle"
  /\ tail \in Visible(seen_tail, tail_)
  /\ seen_tail' = tail /\ push_item' = item /\ push_pc' = "write"
  /\ UNCHANGED <<storage_, head_, tail_, consumer_vars>>

(* The load of tail_ says there is room. *)
PushRoom(item, tail) ==
  /\ push_pc = "idle"
  /\ tail \in Visible(seen_tail, tail_)
  /\ increment(head_) # tail
  /\ seen_tail' = tail
  /\ push_item' = item
  /\ push_pc' = "write"
  /\ UNCHANGED <<storage_, head_, tail_, consumer_vars>>

(* Mutant: the item goes to the slot after head_. *)
PushWrite_NextSlot ==
  /\ push_pc = "write"
  /\ storage_' = [storage_ EXCEPT ![increment(head_)] = push_item]
  /\ push_pc' = "publish"
  /\ UNCHANGED <<head_, tail_, push_item, seen_tail, consumer_vars>>

PushWrite ==
  /\ push_pc = "write"
  /\ storage_' = [storage_ EXCEPT ![head_] = push_item]
  /\ push_pc' = "publish"
  /\ UNCHANGED <<head_, tail_, push_item, seen_tail, consumer_vars>>

(* The release store of head_: return true. *)
PushPublish ==
  /\ push_pc = "publish"
  /\ head_' = increment(head_)
  /\ push_pc' = "idle"
  /\ UNCHANGED <<storage_, tail_, push_item, seen_tail, consumer_vars>>

-----------------------------------------------------------------------------
(* try_pop *)

(* The load of head_ says empty: return false. *)
PopEmpty(head) ==
  /\ pop_pc = "idle"
  /\ head \in Visible(seen_head, head_)
  /\ tail_ = head
  /\ seen_head' = head
  /\ UNCHANGED <<storage_, head_, tail_, pop_pc, pop_item, producer_vars>>

(* Mutant: the empty test is dropped. *)
PopReady_Unguarded(head) ==
  /\ pop_pc = "idle"
  /\ head \in Visible(seen_head, head_)
  /\ seen_head' = head /\ pop_pc' = "read"
  /\ UNCHANGED <<storage_, head_, tail_, pop_item, producer_vars>>

(* The load of head_ says there is an item. *)
PopReady(head) ==
  /\ pop_pc = "idle"
  /\ head \in Visible(seen_head, head_)
  /\ tail_ # head
  /\ seen_head' = head
  /\ pop_pc' = "read"
  /\ UNCHANGED <<storage_, head_, tail_, pop_item, producer_vars>>

PopRead ==
  /\ pop_pc = "read"
  /\ pop_item' = storage_[tail_]
  /\ pop_pc' = "publish"
  /\ UNCHANGED <<storage_, head_, tail_, seen_head, producer_vars>>

(* The release store of tail_: return true. *)
PopPublish ==
  /\ pop_pc = "publish"
  /\ tail_' = increment(tail_)
  /\ pop_pc' = "idle"
  /\ UNCHANGED <<storage_, head_, pop_item, seen_head, producer_vars>>

-----------------------------------------------------------------------------
PushLoad == \E tail \in Index :
              PushFull(tail) \/ \E item \in Item : PushRoom(item, tail)
PopLoad == \E head \in Index : PopEmpty(head) \/ PopReady(head)

QueueNext == \/ PushLoad \/ PushWrite \/ PushPublish
             \/ PopLoad \/ PopRead \/ PopPublish

QueueSpec == QueueInit /\ [][QueueNext]_queue_vars

-----------------------------------------------------------------------------
QueueTypeOK ==
  /\ storage_ \in [Index -> Item]
  /\ head_ \in Index /\ tail_ \in Index
  /\ push_pc \in {"idle", "write", "publish"}
  /\ push_item \in Item
  /\ seen_tail \in Index
  /\ pop_pc \in {"idle", "read", "publish"}
  /\ pop_item \in Item
  /\ seen_head \in Index

(* Producer and consumer are never about to touch the same slot of         *)
(* storage_, and every access is ordered after the other side's last use   *)
(* of that slot by the index this thread has loaded: the slot being read   *)
(* lies before seen_head, the slot being written was released before       *)
(* seen_tail.  (SpscQueue.hpp:13, "The reverse pair protects slot       *)
(* reuse".)                                                                *)
NoDataRace ==
  /\ push_pc = "write" /\ pop_pc = "read" => head_ # tail_
  /\ push_pc = "write" => size_approx(head_, seen_tail) < usable_capacity
  /\ pop_pc = "read" => size_approx(seen_head, tail_) > 0

(* However stale the views are, they stay inside the ring: the producer    *)
(* never underestimates the queue (so neither does the depth the benchmark *)
(* samples with size_approx), the consumer never overestimates it, and the *)
(* reserved slot is never used, so a full queue is never taken for an      *)
(* empty one.                                                              *)
ViewsBracketQueue ==
  /\ size_approx(seen_head, tail_) <= size_approx(head_, tail_)
  /\ size_approx(head_, tail_) <= size_approx(head_, seen_tail)
  /\ push_pc # "idle" => size_approx(head_, tail_) < usable_capacity

(* The items in the ring from tail_ to head_. *)
Contents == [k \in 1 .. size_approx(head_, tail_) |->
               storage_[(tail_ + k - 1) % Capacity]]

(* try_push and try_pop implement a bounded FIFO: nothing is lost,         *)
(* duplicated or reordered, and what is popped is what try_push was given. *)
(* A push takes effect at the release store of head_, a pop when the slot  *)
(* is read, while the slot itself stays occupied until tail_ is stored.    *)
Fifo == INSTANCE BoundedFifo WITH
          Limit <- usable_capacity,
          queue <- IF pop_pc = "publish" THEN Tail(Contents) ELSE Contents,
          offered <- push_item,
          taken <- pop_item
FifoSpec == Fifo!Spec
=============================================================================
