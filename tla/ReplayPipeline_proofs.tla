------------------------ MODULE ReplayPipeline_proofs ------------------------
(***************************************************************************)
(* SpscQueue and the pipeline that uses it.                                *)
(*                                                                         *)
(* For every capacity and every item type, SpscQueue has no data race, the *)
(* two threads' views bracket the queue, and it implements a bounded FIFO. *)
(* None of this is inductive: that the slot the producer writes is free    *)
(* rests on where the index it loaded some steps ago lies now.  RingInv    *)
(* says that the four indices lie around the ring in the order seen_tail,  *)
(* tail_, seen_head, head_, and that a call past its load still has the    *)
(* room, or the item, that the load showed; FifoInv adds what the calls    *)
(* past their access to storage_ have stored or read.                      *)
(*                                                                         *)
(* For every set of files and every schedule of the two threads,           *)
(* market_replay uses the queue as SpscQueue specifies it, and every event *)
(* read from the file is processed or still in transit, in file order.     *)
(* That PushDone appends the event the producer holds, and that PopDone    *)
(* hands over the oldest, is FifoInv; Control ties the program counters of *)
(* the two calls to those of their callers.                                *)
(***************************************************************************)
EXTENDS ReplayPipeline, SequenceTheorems, Sums_proofs

RingOrder ==
  /\ size_approx(head_, seen_tail) =
       size_approx(head_, tail_) + size_approx(tail_, seen_tail)
  /\ size_approx(head_, tail_) =
       size_approx(head_, seen_head) + size_approx(seen_head, tail_)

LoadStillHolds ==
  /\ push_pc # "idle" => size_approx(head_, seen_tail) < usable_capacity
  /\ pop_pc # "idle" => size_approx(seen_head, tail_) > 0

RingInv == QueueTypeOK /\ RingOrder /\ LoadStillHolds

-----------------------------------------------------------------------------
(* increment moves an index one slot forward and wraps at Capacity. *)
LEMMA IncrementWraps ==
  ASSUME NEW i \in Index
  PROVE  increment(i) = IF i + 1 = Capacity THEN 0 ELSE i + 1
BY CapacityAssumption DEF increment, Index

(* increment stays inside the ring. *)
LEMMA IncrementInRing ==
  ASSUME NEW i \in Index
  PROVE  increment(i) \in Index
BY IncrementWraps, CapacityAssumption DEF Index

(* The empty queue satisfies the strengthened invariant. *)
LEMMA RingInvInit == QueueInit => RingInv
BY CapacityAssumption
   DEF QueueInit, RingInv, QueueTypeOK, RingOrder, LoadStillHolds, Index,
       size_approx, usable_capacity

(* Every step of try_push and of try_pop preserves it.  Only the two loads *)
(* and the two release stores move an index, so only they disturb          *)
(* RingOrder.                                                              *)
LEMMA RingInvNext == RingInv /\ [QueueNext]_queue_vars => RingInv'
<1> SUFFICES ASSUME RingInv, [QueueNext]_queue_vars
             PROVE  RingInv'
  OBVIOUS
<1> USE CapacityAssumption
         DEF RingInv, QueueTypeOK, producer_vars, consumer_vars
<1>1. CASE PushLoad
  <2> PICK tail \in Index :
        PushFull(tail) \/ \E item \in Item : PushRoom(item, tail)
    BY <1>1 DEF PushLoad
  <2>1. CASE PushFull(tail)
    BY <2>1 DEF PushFull, Visible, RingOrder, LoadStillHolds, Index,
                size_approx
  <2>2. CASE \E item \in Item : PushRoom(item, tail)
    <3>1. increment(head_) # tail /\ tail \in Visible(seen_tail, tail_)
      BY <2>2 DEF PushRoom
    <3>2. size_approx(head_, tail) < usable_capacity
      BY <3>1, IncrementWraps DEF Index, size_approx, usable_capacity
    <3> QED
      BY <2>2, <3>1, <3>2 DEF PushRoom, Visible, RingOrder, LoadStillHolds,
                              Index, size_approx
  <2> QED
    BY <2>1, <2>2
<1>2. CASE PushWrite
  BY <1>2 DEF PushWrite, RingOrder, LoadStillHolds, size_approx,
              usable_capacity
<1>3. CASE PushPublish
  <2>1. /\ head_' = IF head_ + 1 = Capacity THEN 0 ELSE head_ + 1
        /\ head_' \in Index
        /\ push_pc' = "idle"
        /\ UNCHANGED <<storage_, tail_, push_item, seen_tail, pop_pc,
                        pop_item, seen_head>>
    BY <1>3, IncrementWraps, IncrementInRing DEF PushPublish
  <2>2. size_approx(head_, seen_tail) < usable_capacity
    BY <1>3 DEF PushPublish, LoadStillHolds
  <2>3. RingOrder'
    BY <2>1, <2>2 DEF RingOrder, Index, size_approx, usable_capacity
  <2> QED
    BY <2>1, <2>3 DEF LoadStillHolds, size_approx, usable_capacity
<1>4. CASE PopLoad
  <2> PICK head \in Index : PopEmpty(head) \/ PopReady(head)
    BY <1>4 DEF PopLoad
  <2>1. CASE PopEmpty(head)
    BY <2>1 DEF PopEmpty, Visible, RingOrder, LoadStillHolds, Index,
                size_approx, usable_capacity
  <2>2. CASE PopReady(head)
    BY <2>2 DEF PopReady, Visible, RingOrder, LoadStillHolds, Index,
                size_approx, usable_capacity
  <2> QED
    BY <2>1, <2>2
<1>5. CASE PopRead
  BY <1>5 DEF PopRead, RingOrder, LoadStillHolds, size_approx,
              usable_capacity
<1>6. CASE PopPublish
  <2>1. /\ tail_' = IF tail_ + 1 = Capacity THEN 0 ELSE tail_ + 1
        /\ tail_' \in Index
        /\ pop_pc' = "idle"
        /\ UNCHANGED <<storage_, head_, pop_item, seen_head, push_pc,
                        push_item, seen_tail>>
    BY <1>6, IncrementWraps, IncrementInRing DEF PopPublish
  <2>2. size_approx(seen_head, tail_) > 0
    BY <1>6 DEF PopPublish, LoadStillHolds
  <2>3. RingOrder'
    BY <2>1, <2>2 DEF RingOrder, Index, size_approx
  <2> QED
    BY <2>1, <2>3 DEF LoadStillHolds, size_approx, usable_capacity
<1>7. CASE UNCHANGED queue_vars
  BY <1>7 DEF queue_vars, RingOrder, LoadStillHolds, size_approx,
              usable_capacity
<1> QED
  BY <1>1, <1>2, <1>3, <1>4, <1>5, <1>6, <1>7 DEF QueueNext

(* The four indices keep their order around the ring for ever. *)
THEOREM RingInvariant == QueueSpec => []RingInv
BY RingInvInit, RingInvNext, PTL DEF QueueSpec

(* Type correctness of the ring. *)
THEOREM TypeCorrect == QueueSpec => []QueueTypeOK
<1>1. RingInv => QueueTypeOK
  BY DEF RingInv
<1> QED
  BY <1>1, RingInvariant, PTL

(* try_push and try_pop never race on a slot of storage_, for any Capacity *)
(* of at least two and any delay of the acquire loads.                     *)
THEOREM DataRaceFree == QueueSpec => []NoDataRace
<1>1. RingInv => NoDataRace
  BY CapacityAssumption
     DEF RingInv, QueueTypeOK, RingOrder, LoadStillHolds, NoDataRace, Index,
         size_approx, usable_capacity
<1> QED
  BY <1>1, RingInvariant, PTL

(* The stale views bracket the true queue and the reserved slot stays free. *)
THEOREM ViewsBracket == QueueSpec => []ViewsBracketQueue
<1>1. RingInv => ViewsBracketQueue
  BY CapacityAssumption
     DEF RingInv, QueueTypeOK, RingOrder, LoadStillHolds, ViewsBracketQueue,
         Index, size_approx, usable_capacity
<1> QED
  BY <1>1, RingInvariant, PTL
-----------------------------------------------------------------------------
(* The refinement of BoundedFifo.  Contents is a window of storage_ that   *)
(* PushPublish lengthens at its end and PopPublish shortens at its front;  *)
(* the write of try_push falls outside it.                                 *)

Ring(slots, head, tail) ==
  [k \in 1 .. size_approx(head, tail) |-> slots[(tail + k - 1) % Capacity]]

(* The slot that lies k - 1 slots after slot i. *)
LEMMA SlotWraps ==
  ASSUME NEW i \in Index, NEW k \in 1 .. Capacity
  PROVE  (i + k - 1) % Capacity = IF i + k - 1 < Capacity THEN i + k - 1
                                                 ELSE i + k - 1 - Capacity
<1>1. CASE i + k - 1 < Capacity
  BY <1>1, CapacityAssumption DEF Index
<1>2. CASE ~(i + k - 1 < Capacity)
  <2>1. i + k - 1 - Capacity \in 0 .. Capacity - 1
    BY <1>2, CapacityAssumption DEF Index
  <2> QED  BY <1>2, <2>1, CapacityAssumption DEF Index
<1> QED  BY <1>1, <1>2

(* A distance around the ring is less than Capacity. *)
LEMMA DistanceInRing ==
  ASSUME NEW i \in Index, NEW j \in Index
  PROVE  size_approx(i, j) \in 0 .. Capacity - 1
  BY CapacityAssumption DEF Index, size_approx

(* The window is a sequence of items. *)
LEMMA RingType ==
  ASSUME NEW slots \in [Index -> Item], NEW head \in Index, NEW tail \in Index
  PROVE  /\ Ring(slots, head, tail) \in Seq(Item)
         /\ Len(Ring(slots, head, tail)) = size_approx(head, tail)
         /\ \A k \in 1 .. size_approx(head, tail) :
              Ring(slots, head, tail)[k] = slots[(tail + k - 1) % Capacity]
<1>1. size_approx(head, tail) \in Nat /\ size_approx(head, tail) < Capacity
  BY DistanceInRing, CapacityAssumption
<1>2. \A k \in 1 .. size_approx(head, tail) : (tail + k - 1) % Capacity \in Index
  <2> SUFFICES ASSUME NEW k \in 1 .. size_approx(head, tail)
               PROVE  (tail + k - 1) % Capacity \in Index
    OBVIOUS
  <2>1. k \in 1 .. Capacity
    BY <1>1, CapacityAssumption
  <2> QED  BY <2>1, SlotWraps, CapacityAssumption DEF Index
<1> QED  BY <1>1, <1>2 DEF Ring

(* Publishing head_ appends the item in slot head_. *)
LEMMA RingAppends ==
  ASSUME NEW slots \in [Index -> Item], NEW head \in Index, NEW tail \in Index,
         size_approx(head, tail) < usable_capacity
  PROVE  Ring(slots, increment(head), tail)
           = Append(Ring(slots, head, tail), slots[head])
<1> DEFINE n == size_approx(head, tail)
           long == Ring(slots, increment(head), tail)
           short == Append(Ring(slots, head, tail), slots[head])
<1>1. increment(head) \in Index
  BY IncrementInRing
<1>2. n \in Nat /\ n + 1 < Capacity
  BY DistanceInRing, CapacityAssumption DEF usable_capacity
<1>3. size_approx(increment(head), tail) = n + 1
  BY IncrementWraps, CapacityAssumption DEF Index, size_approx, usable_capacity
<1>4. (tail + (n + 1) - 1) % Capacity = head
  <2>1. n + 1 \in 1 .. Capacity
    BY <1>2, CapacityAssumption
  <2> QED  BY <2>1, SlotWraps, CapacityAssumption DEF Index, size_approx
<1>5. /\ long \in Seq(Item) /\ Len(long) = n + 1
      /\ \A k \in 1 .. n + 1 : long[k] = slots[(tail + k - 1) % Capacity]
  BY <1>1, <1>3, RingType
<1>6. /\ Ring(slots, head, tail) \in Seq(Item) /\ Len(Ring(slots, head, tail)) = n
      /\ \A k \in 1 .. n :
           Ring(slots, head, tail)[k] = slots[(tail + k - 1) % Capacity]
  BY RingType
<1>7. /\ short \in Seq(Item) /\ Len(short) = n + 1
      /\ \A k \in 1 .. n + 1 : short[k] = slots[(tail + k - 1) % Capacity]
  <2>1. slots[head] \in Item
    OBVIOUS
  <2> HIDE DEF n
  <2>2. \A k \in 1 .. n : short[k] = slots[(tail + k - 1) % Capacity]
    BY <1>2, <1>6, <2>1
  <2>3. short[n + 1] = slots[(tail + (n + 1) - 1) % Capacity]
    BY <1>2, <1>4, <1>6, <2>1
  <2> QED  BY <1>2, <1>6, <2>1, <2>2, <2>3
<1> HIDE DEF n, long, short
<1>8. long = short
  BY <1>2, <1>5, <1>7, SeqEqual
<1> QED  BY <1>8 DEF long, short

(* Publishing tail_ drops the item in slot tail_. *)
LEMMA RingDrops ==
  ASSUME NEW slots \in [Index -> Item], NEW head \in Index, NEW tail \in Index,
         size_approx(head, tail) > 0
  PROVE  /\ Ring(slots, head, tail) # <<>>
         /\ Head(Ring(slots, head, tail)) = slots[tail]
         /\ Ring(slots, head, increment(tail)) = Tail(Ring(slots, head, tail))
<1> DEFINE n == size_approx(head, tail)
           long == Ring(slots, head, tail)
           short == Ring(slots, head, increment(tail))
<1>1. increment(tail) \in Index
  BY IncrementInRing
<1>2. n \in Nat \ {0} /\ n < Capacity
  BY DistanceInRing, CapacityAssumption
<1>3. size_approx(head, increment(tail)) = n - 1
  BY IncrementWraps, CapacityAssumption DEF Index, size_approx
<1>4. /\ long \in Seq(Item) /\ Len(long) = n
      /\ \A k \in 1 .. n : long[k] = slots[(tail + k - 1) % Capacity]
  BY RingType
<1>5. /\ short \in Seq(Item) /\ Len(short) = n - 1
      /\ \A k \in 1 .. n - 1 :
           short[k] = slots[(increment(tail) + k - 1) % Capacity]
  BY <1>1, <1>3, RingType
<1>6. \A k \in 1 .. n - 1 :
        (increment(tail) + k - 1) % Capacity = (tail + (k + 1) - 1) % Capacity
  <2> SUFFICES ASSUME NEW k \in 1 .. n - 1
               PROVE  (increment(tail) + k - 1) % Capacity
                        = (tail + (k + 1) - 1) % Capacity
    OBVIOUS
  <2>1. k \in 1 .. Capacity /\ k + 1 \in 1 .. Capacity
    BY <1>2, CapacityAssumption
  <2>2. (increment(tail) + k - 1) % Capacity
          = IF increment(tail) + k - 1 < Capacity THEN increment(tail) + k - 1
            ELSE increment(tail) + k - 1 - Capacity
    BY <1>1, <2>1, SlotWraps
  <2>3. (tail + (k + 1) - 1) % Capacity
          = IF tail + (k + 1) - 1 < Capacity THEN tail + (k + 1) - 1
            ELSE tail + (k + 1) - 1 - Capacity
    BY <2>1, SlotWraps
  <2> HIDE DEF n
  <2>4. CASE tail + 1 = Capacity
    <3>1. increment(tail) = 0
      BY <2>4, IncrementWraps
    <3>2. (increment(tail) + k - 1) % Capacity = k - 1
      BY <2>1, <2>2, <3>1, CapacityAssumption
    <3>3. (tail + (k + 1) - 1) % Capacity = k - 1
      BY <2>1, <2>3, <2>4, CapacityAssumption DEF Index
    <3> QED  BY <3>2, <3>3
  <2>5. CASE tail + 1 # Capacity
    <3>1. increment(tail) = tail + 1
      BY <2>5, IncrementWraps
    <3>2. increment(tail) + k - 1 = tail + (k + 1) - 1
      BY <2>1, <3>1 DEF Index
    <3> QED  BY <3>2
  <2> QED  BY <2>4, <2>5
<1>7. (tail + 1 - 1) % Capacity = tail
  <2>1. 1 \in 1 .. Capacity
    BY CapacityAssumption
  <2> QED  BY <2>1, SlotWraps, CapacityAssumption DEF Index
<1>8. long # <<>> /\ Head(long) = slots[tail]
  <2> HIDE DEF n, long
  <2>1. long # <<>> /\ Head(long) = long[1]
    BY <1>2, <1>4
  <2>2. long[1] = slots[(tail + 1 - 1) % Capacity]
    BY <1>2, <1>4
  <2> QED  BY <1>7, <2>1, <2>2
<1>9. /\ Tail(long) \in Seq(Item) /\ Len(Tail(long)) = n - 1
      /\ \A k \in 1 .. n - 1 : Tail(long)[k] = long[k + 1]
  <2> HIDE DEF n, long
  <2> QED  BY <1>2, <1>4, <1>8
<1> HIDE DEF n, long, short
<1>10. \A k \in 1 .. n - 1 : short[k] = Tail(long)[k]
  <2> SUFFICES ASSUME NEW k \in 1 .. n - 1 PROVE short[k] = Tail(long)[k]
    OBVIOUS
  <2>1. k + 1 \in 1 .. n
    BY <1>2
  <2>2. long[k + 1] = slots[(tail + (k + 1) - 1) % Capacity]
    BY <1>4, <2>1
  <2> QED  BY <1>5, <1>6, <1>9, <2>2
<1>11. short = Tail(long)
  BY <1>5, <1>9, <1>10, SeqEqual
<1> QED  BY <1>8, <1>11 DEF long, short

(* A write to slot head_ is outside the window. *)
LEMMA RingKeeps ==
  ASSUME NEW slots \in [Index -> Item], NEW head \in Index, NEW tail \in Index,
         NEW item \in Item
  PROVE  Ring([slots EXCEPT ![head] = item], head, tail) = Ring(slots, head, tail)
<1>1. ASSUME NEW k \in 1 .. size_approx(head, tail)
      PROVE  (tail + k - 1) % Capacity # head /\ (tail + k - 1) % Capacity \in Index
  <2>1. k \in 1 .. Capacity
    BY DistanceInRing, CapacityAssumption
  <2> QED  BY <2>1, SlotWraps, CapacityAssumption DEF Index, size_approx
<1> QED  BY <1>1 DEF Ring

-----------------------------------------------------------------------------
(* A call between its slot access and its release store: the slot it is    *)
(* about to hand over holds its item.                                      *)
ItemInv ==
  /\ push_pc = "publish" => storage_[head_] = push_item
  /\ pop_pc = "publish" => storage_[tail_] = pop_item

FifoInv == RingInv /\ ItemInv

(* The sequence that stands for the abstract queue. *)
Abstract == IF pop_pc = "publish" THEN Tail(Contents) ELSE Contents

(* Contents is what lies in storage_ between the two indices. *)
LEMMA ContentsIsRing == Contents = Ring(storage_, head_, tail_)
  BY DEF Contents, Ring

(* What RingInv says of the distance from tail_ to head_. *)
LEMMA RoomAndItem ==
  ASSUME RingInv
  PROVE  /\ push_pc # "idle" => size_approx(head_, tail_) < usable_capacity
         /\ pop_pc # "idle" => size_approx(head_, tail_) > 0
  BY CapacityAssumption
     DEF RingInv, QueueTypeOK, RingOrder, LoadStillHolds, Index, size_approx,
         usable_capacity

(* The contents are a sequence of items, not empty while a pop is under    *)
(* way: its first is the one in slot tail_.                                *)
LEMMA ContentsType ==
  ASSUME RingInv
  PROVE  /\ Contents \in Seq(Item) /\ Len(Contents) = size_approx(head_, tail_)
         /\ pop_pc # "idle" => Contents # <<>> /\ Head(Contents) = storage_[tail_]
<1>1. /\ storage_ \in [Index -> Item] /\ head_ \in Index /\ tail_ \in Index
      /\ pop_pc # "idle" => size_approx(head_, tail_) > 0
  BY RoomAndItem DEF RingInv, QueueTypeOK
<1>2. /\ Ring(storage_, head_, tail_) \in Seq(Item)
      /\ Len(Ring(storage_, head_, tail_)) = size_approx(head_, tail_)
  BY <1>1, RingType
<1>3. pop_pc # "idle" => /\ Ring(storage_, head_, tail_) # <<>>
                         /\ Head(Ring(storage_, head_, tail_)) = storage_[tail_]
  BY <1>1, RingDrops
<1> QED  BY <1>2, <1>3, ContentsIsRing

(* What each step does to the contents. *)
LEMMA ContentsSteps ==
  ASSUME RingInv
  PROVE  /\ PushWrite => Contents' = Contents
         /\ PushPublish => Contents' = Append(Contents, storage_[head_])
         /\ PopPublish => Contents' = Tail(Contents)
         /\ UNCHANGED <<storage_, head_, tail_>> => Contents' = Contents
<1>1. /\ storage_ \in [Index -> Item] /\ head_ \in Index /\ tail_ \in Index
      /\ push_item \in Item
  BY DEF RingInv, QueueTypeOK
<1>2. Contents' = Ring(storage_', head_', tail_')
  BY DEF Contents, Ring, size_approx
<1>3. ASSUME PushWrite PROVE Contents' = Contents
  <2>1. /\ storage_' = [storage_ EXCEPT ![head_] = push_item]
        /\ head_' = head_ /\ tail_' = tail_
    BY <1>3 DEF PushWrite
  <2> QED  BY <1>1, <1>2, <2>1, RingKeeps, ContentsIsRing
<1>4. ASSUME PushPublish PROVE Contents' = Append(Contents, storage_[head_])
  <2>1. /\ storage_' = storage_ /\ head_' = increment(head_) /\ tail_' = tail_
        /\ size_approx(head_, tail_) < usable_capacity
    BY <1>4, RoomAndItem DEF PushPublish
  <2> QED  BY <1>1, <1>2, <2>1, RingAppends, ContentsIsRing
<1>5. ASSUME PopPublish PROVE Contents' = Tail(Contents)
  <2>1. /\ storage_' = storage_ /\ head_' = head_ /\ tail_' = increment(tail_)
        /\ size_approx(head_, tail_) > 0
    BY <1>5, RoomAndItem DEF PopPublish
  <2> QED  BY <1>1, <1>2, <2>1, RingDrops, ContentsIsRing
<1>6. ASSUME UNCHANGED <<storage_, head_, tail_>> PROVE Contents' = Contents
  BY <1>2, <1>6, ContentsIsRing
<1> QED  BY <1>3, <1>4, <1>5, <1>6

(* The strengthened invariant of the refinement holds at the start... *)
LEMMA FifoInvInit == QueueInit => FifoInv
  BY RingInvInit DEF FifoInv, ItemInv, QueueInit

(* ... and is kept: only the write of try_push changes a slot, and not the *)
(* one a pop is about to release.                                          *)
LEMMA FifoInvNext == FifoInv /\ [QueueNext]_queue_vars => FifoInv'
<1> SUFFICES ASSUME FifoInv, [QueueNext]_queue_vars PROVE FifoInv'
  OBVIOUS
<1>1. RingInv /\ RingInv'
  BY RingInvNext DEF FifoInv
<1> USE DEF FifoInv, ItemInv
<1>2. CASE PushLoad
  BY <1>1, <1>2 DEF PushLoad, PushFull, PushRoom, consumer_vars
<1>3. CASE PushWrite
  <2>1. pop_pc # "idle" => head_ # tail_
    BY <1>1, RoomAndItem, CapacityAssumption
       DEF RingInv, QueueTypeOK, Index, size_approx
  <2> QED  BY <1>1, <1>3, <2>1 DEF PushWrite, consumer_vars, RingInv, QueueTypeOK
<1>4. CASE PushPublish
  BY <1>1, <1>4 DEF PushPublish, consumer_vars
<1>5. CASE PopLoad
  BY <1>1, <1>5 DEF PopLoad, PopEmpty, PopReady, producer_vars
<1>6. CASE PopRead
  BY <1>1, <1>6 DEF PopRead, producer_vars
<1>7. CASE PopPublish
  BY <1>1, <1>7 DEF PopPublish, producer_vars
<1>8. CASE UNCHANGED queue_vars
  BY <1>1, <1>8 DEF queue_vars, producer_vars, consumer_vars
<1> QED  BY <1>2, <1>3, <1>4, <1>5, <1>6, <1>7, <1>8 DEF QueueNext

(* A step of the ring is a step of the bounded FIFO or a stutter. *)
LEMMA FifoStep ==
  ASSUME FifoInv, [QueueNext]_queue_vars
  PROVE  [Fifo!Next]_<<Abstract, push_item, pop_item>>
<1>1. /\ RingInv /\ push_item \in Item
      /\ Contents \in Seq(Item) /\ Len(Contents) = size_approx(head_, tail_)
      /\ pop_pc # "idle" => Contents # <<>> /\ Head(Contents) = storage_[tail_]
      /\ pop_pc \in {"idle", "read", "publish"}
  BY ContentsType DEF FifoInv, RingInv, QueueTypeOK
<1>2. CASE PushLoad
  <2>1. UNCHANGED <<storage_, head_, tail_, pop_pc, pop_item>>
    BY <1>2 DEF PushLoad, PushFull, PushRoom, consumer_vars
  <2>2. Abstract' = Abstract
    BY <1>1, <2>1, ContentsSteps DEF Abstract
  <2>3. push_item' = push_item \/ push_item' \in Item
    BY <1>2 DEF PushLoad, PushFull, PushRoom
  <2> QED  BY <2>1, <2>2, <2>3 DEF Fifo!Next, Fifo!Offer, Abstract
<1>3. CASE PushWrite
  <2>1. UNCHANGED <<pop_pc, pop_item, push_item>> /\ Contents' = Contents
    BY <1>1, <1>3, ContentsSteps DEF PushWrite, consumer_vars
  <2> QED  BY <2>1 DEF Abstract
<1>4. CASE PushPublish
  <2>1. /\ UNCHANGED <<pop_pc, pop_item, push_item>>
        /\ Contents' = Append(Contents, push_item)
        /\ Len(Contents) < usable_capacity
    BY <1>1, <1>4, ContentsSteps, RoomAndItem
       DEF PushPublish, consumer_vars, FifoInv, ItemInv
  <2>2. Abstract' = Append(Abstract, push_item) /\ Len(Abstract) < usable_capacity
    <3>1. CASE pop_pc = "publish"
      <4>1. Tail(Append(Contents, push_item)) = Append(Tail(Contents), push_item)
        BY <1>1, <3>1, HeadTailAppend
      <4>2. Len(Tail(Contents)) < usable_capacity
        BY <1>1, <2>1, <3>1, HeadTailProperties, CapacityAssumption
           DEF usable_capacity
      <4> QED  BY <2>1, <3>1, <4>1, <4>2 DEF Abstract
    <3>2. CASE pop_pc # "publish"
      BY <2>1, <3>2 DEF Abstract
    <3> QED  BY <3>1, <3>2
  <2>3. Fifo!Push
    BY <2>1, <2>2 DEF Fifo!Push, Abstract
  <2> QED  BY <2>3 DEF Fifo!Next
<1>5. CASE PopLoad
  <2>1. /\ UNCHANGED <<storage_, head_, tail_, push_item, pop_item>>
        /\ pop_pc # "publish" /\ pop_pc' # "publish"
    BY <1>5 DEF PopLoad, PopEmpty, PopReady, producer_vars
  <2>2. Contents' = Contents
    BY <1>1, <2>1, ContentsSteps
  <2> QED  BY <2>1, <2>2 DEF Abstract
<1>6. CASE PopRead
  <2>1. /\ UNCHANGED <<storage_, head_, tail_, push_item>>
        /\ pop_pc = "read" /\ pop_pc' = "publish" /\ pop_item' = storage_[tail_]
    BY <1>6 DEF PopRead, producer_vars
  <2>2. Contents' = Contents
    BY <1>1, <2>1, ContentsSteps
  <2>3. /\ Abstract = Contents /\ Abstract' = Tail(Contents)
        /\ pop_item' = Head(Contents) /\ Contents # <<>>
    BY <1>1, <2>1, <2>2 DEF Abstract
  <2>4. Fifo!Pop
    BY <2>1, <2>3 DEF Fifo!Pop, Abstract
  <2> QED  BY <2>4 DEF Fifo!Next
<1>7. CASE PopPublish
  <2>1. /\ UNCHANGED <<push_item, pop_item>> /\ Contents' = Tail(Contents)
        /\ pop_pc = "publish" /\ pop_pc' = "idle"
    BY <1>1, <1>7, ContentsSteps DEF PopPublish, producer_vars
  <2> QED  BY <2>1 DEF Abstract
<1>8. CASE UNCHANGED queue_vars
  <2>1. UNCHANGED <<storage_, head_, tail_, pop_pc, pop_item, push_item>>
    BY <1>8 DEF queue_vars, producer_vars, consumer_vars
  <2> QED  BY <1>1, <2>1, ContentsSteps DEF Abstract
<1> QED  BY <1>2, <1>3, <1>4, <1>5, <1>6, <1>7, <1>8 DEF QueueNext

(* The empty ring stands for the empty FIFO. *)
LEMMA FifoStart == QueueInit => Fifo!Init
<1> SUFFICES ASSUME QueueInit PROVE Fifo!Init
  OBVIOUS
<1>1. 0 \in Index
  BY CapacityAssumption DEF Index
<1>2. push_item \in Item /\ pop_item \in Item /\ pop_pc = "idle"
  BY <1>1 DEF QueueInit
<1>3. RingInv /\ size_approx(head_, tail_) = 0
  BY RingInvInit DEF QueueInit, size_approx
<1>4. Contents = <<>>
  BY <1>3, ContentsType
<1> QED  BY <1>2, <1>4 DEF Fifo!Init

(* SpscQueue implements a bounded FIFO, for every capacity, every item     *)
(* type and every delay of the acquire loads: a successful try_push        *)
(* appends its argument, a successful try_pop returns the oldest item, and *)
(* a failing call changes nothing.                                         *)
THEOREM ImplementsFifo == QueueSpec => FifoSpec
<1>1. FifoInv /\ [QueueNext]_queue_vars =>
        [Fifo!Next]_<<Abstract, push_item, pop_item>>
  BY FifoStep
<1> QED
  BY <1>1, FifoStart, FifoInvInit, FifoInvNext, PTL
     DEF QueueSpec, FifoSpec, Fifo!Spec, Abstract

-----------------------------------------------------------------------------
(* The pipeline. *)

Control ==
  /\ push_pc # "idle" => producer_pc = "push" /\ push_item = event
  /\ pop_pc # "idle" => consumer_pc = "pop"
  /\ producer_pc \in {"next", "push"} => line_number_ <= Len(file)
  /\ producer_pc \in {"done", "exited"} =>
       line_number_ > Len(file) \/ producer_error
  /\ main_pc # "join" => producer_pc = "exited" /\ consumer_pc = "exited"
  /\ main_pc = "report" => ~producer_error

Line == Item \cup {Comment, Malformed}

PipelineInv ==
  /\ PipelineTypeOK /\ file \in Seq(Line) /\ FifoInv /\ Control
  /\ EveryEventAccountedFor

-----------------------------------------------------------------------------
(* The events of a file. *)

EventsUpTo(lines, n, h) ==
  h = [i \in 0 .. n |-> IF i = 0 THEN <<>>
                        ELSE IF lines[i] \in Item THEN Append(h[i - 1], lines[i])
                        ELSE h[i - 1]]

(* Events is the solution of its recursion. *)
LEMMA EventsChosen ==
  ASSUME NEW lines
  PROVE  Events(lines) = CHOOSE h : EventsUpTo(lines, Len(lines), h)
  BY Zenon DEF Events, EventsUpTo

(* The recursion has a solution, one line at a time. *)
LEMMA EventsExist ==
  ASSUME NEW lines, NEW len \in Nat
  PROVE  \E h : EventsUpTo(lines, len, h)
<1> DEFINE T == {n \in Nat : \E h : EventsUpTo(lines, n, h)}
<1>1. 0 \in T
  <2>1. EventsUpTo(lines, 0, [i \in 0 .. 0 |-> <<>>])
    BY DEF EventsUpTo
  <2> QED  BY <2>1
<1>2. ASSUME NEW n \in Nat, n \in T PROVE n + 1 \in T
  <2>1. PICK h : EventsUpTo(lines, n, h)
    BY <1>2
  <2> DEFINE next == IF lines[n + 1] \in Item THEN Append(h[n], lines[n + 1])
                                              ELSE h[n]
             g == [i \in 0 .. n + 1 |-> IF i = n + 1 THEN next ELSE h[i]]
  <2>2. \A i \in 0 .. n :
          h[i] = IF i = 0 THEN <<>>
                 ELSE IF lines[i] \in Item THEN Append(h[i - 1], lines[i])
                 ELSE h[i - 1]
    BY <2>1 DEF EventsUpTo
  <2>3. \A i \in 0 .. n : g[i] = h[i]
    BY SMT
  <2>4. g[n + 1] = next
    BY SMT
  <2>5. \A i \in 0 .. n + 1 :
          g[i] = IF i = 0 THEN <<>>
                 ELSE IF lines[i] \in Item THEN Append(g[i - 1], lines[i])
                 ELSE g[i - 1]
    <3> SUFFICES ASSUME NEW i \in 0 .. n + 1
                 PROVE  g[i] = IF i = 0 THEN <<>>
                               ELSE IF lines[i] \in Item
                                 THEN Append(g[i - 1], lines[i])
                               ELSE g[i - 1]
      OBVIOUS
    <3> HIDE DEF g
    <3>1. CASE i = n + 1
      <4>1. g[i - 1] = h[n] /\ i # 0
        BY <2>3, <3>1
      <4> QED  BY <2>4, <3>1, <4>1
    <3>2. CASE i \in 0 .. n
      <4>1. i # 0 => g[i - 1] = h[i - 1]
        BY <2>3, <3>2
      <4> QED  BY <2>2, <2>3, <3>2, <4>1
    <3> QED  BY <3>1, <3>2
  <2>6. g = [i \in 0 .. n + 1 |-> g[i]]
    OBVIOUS
  <2> HIDE DEF g
  <2>7. EventsUpTo(lines, n + 1, g)
    BY <2>5, <2>6 DEF EventsUpTo
  <2> QED  BY <2>7
<1>3. Nat \subseteq T
  <2> HIDE DEF T
  <2> QED  BY <1>1, <1>2, Induction
<1> QED  BY <1>3

(* What Events computes, line by line. *)
LEMMA EventsUnfold ==
  ASSUME NEW lines \in Seq(Line)
  PROVE  /\ Events(lines)[0] = <<>>
         /\ \A n \in 1 .. Len(lines) :
              Events(lines)[n] = IF lines[n] \in Item
                                   THEN Append(Events(lines)[n - 1], lines[n])
                                   ELSE Events(lines)[n - 1]
<1>1. \E h : EventsUpTo(lines, Len(lines), h)
  <2>1. Len(lines) \in Nat
    OBVIOUS
  <2> QED  BY <2>1, EventsExist, Zenon
<1>2. EventsUpTo(lines, Len(lines), Events(lines))
  BY <1>1, EventsChosen, Zenon
<1> HIDE DEF Events
<1>3. \A i \in 0 .. Len(lines) :
        Events(lines)[i] = IF i = 0 THEN <<>>
                           ELSE IF lines[i] \in Item
                             THEN Append(Events(lines)[i - 1], lines[i])
                           ELSE Events(lines)[i - 1]
  BY <1>2 DEF EventsUpTo
<1> QED  BY <1>3

(* The events of a prefix are a sequence of items. *)
LEMMA EventsType ==
  ASSUME NEW lines \in Seq(Line), NEW len \in 0 .. Len(lines)
  PROVE  Events(lines)[len] \in Seq(Item)
<1> DEFINE T == {n \in Nat : n <= Len(lines) => Events(lines)[n] \in Seq(Item)}
<1>1. 0 \in T
  <2>1. Events(lines)[0] = <<>>
    BY EventsUnfold
  <2>2. Events(lines)[0] \in Seq(Item)
    BY <2>1, EmptySeq
  <2> QED  BY <2>2
<1>2. ASSUME NEW n \in Nat, n \in T PROVE n + 1 \in T
  <2> SUFFICES ASSUME n + 1 <= Len(lines) PROVE Events(lines)[n + 1] \in Seq(Item)
    OBVIOUS
  <2>1. n + 1 \in 1 .. Len(lines) /\ (n + 1) - 1 = n
    OBVIOUS
  <2>2. Events(lines)[n] \in Seq(Item)
    BY <1>2
  <2>3. Events(lines)[n + 1] = IF lines[n + 1] \in Item
                                 THEN Append(Events(lines)[n], lines[n + 1])
                                 ELSE Events(lines)[n]
    BY <2>1, EventsUnfold
  <2> QED  BY <2>2, <2>3
<1>3. Nat \subseteq T
  <2> HIDE DEF T
  <2> QED  BY <1>1, <1>2, Induction
<1> QED  BY <1>3

(* Lines that are no events add none. *)
LEMMA EventsSkip ==
  ASSUME NEW lines \in Seq(Line), NEW a \in 0 .. Len(lines), NEW b \in a .. Len(lines),
         \A m \in a + 1 .. b : lines[m] \notin Item
  PROVE  Events(lines)[b] = Events(lines)[a]
<1> DEFINE T == {n \in Nat : a + n <= b => Events(lines)[a + n] = Events(lines)[a]}
<1>1. 0 \in T
  OBVIOUS
<1>2. ASSUME NEW n \in Nat, n \in T PROVE n + 1 \in T
  <2> SUFFICES ASSUME a + (n + 1) <= b
               PROVE  Events(lines)[a + (n + 1)] = Events(lines)[a]
    OBVIOUS
  <2> DEFINE m == a + (n + 1)
  <2>1. m \in 1 .. Len(lines) /\ m - 1 = a + n /\ m \in a + 1 .. b
    OBVIOUS
  <2>2. Events(lines)[a + n] = Events(lines)[a]
    BY <1>2
  <2> HIDE DEF m
  <2>3. Events(lines)[m] = Events(lines)[m - 1]
    BY <2>1, EventsUnfold
  <2> QED  BY <2>1, <2>2, <2>3 DEF m
<1>3. Nat \subseteq T
  <2> HIDE DEF T
  <2> QED  BY <1>1, <1>2, Induction
<1>4. b - a \in Nat /\ a + (b - a) = b /\ a + (b - a) <= b
  OBVIOUS
<1>5. Events(lines)[a + (b - a)] = Events(lines)[a]
  BY <1>3, <1>4
<1> QED  BY <1>4, <1>5

(* next() stops at the first line it does not skip, or after the last one. *)
LEMMA NextLineExists ==
  ASSUME file \in Seq(Line), line_number_ \in 0 .. Len(file)
  PROVE  /\ NextLine \in line_number_ + 1 .. Len(file) + 1
         /\ NextLine <= Len(file) => file[NextLine] # Comment
         /\ \A m \in line_number_ + 1 .. NextLine - 1 : file[m] = Comment
<1> DEFINE Stops == {n \in Nat : /\ n \in line_number_ + 1 .. Len(file) + 1
                                 /\ n <= Len(file) => file[n] # Comment}
<1>1. Len(file) + 1 \in Stops /\ Stops \subseteq Nat /\ Stops # {}
  OBVIOUS
<1>2. PICK n \in Stops : \A k \in Stops : n <= k
  <2> HIDE DEF Stops
  <2> QED  BY <1>1, Least
<1>3. \A k \in Stops : ~(k < n)
  BY <1>1, <1>2
<1>4. n \in line_number_ + 1 .. Len(file) + 1 /\ (n <= Len(file) => file[n] # Comment)
  OBVIOUS
<1>5. \A m \in line_number_ + 1 .. n - 1 : file[m] = Comment
  <2> SUFFICES ASSUME NEW m \in line_number_ + 1 .. n - 1, file[m] # Comment
               PROVE  FALSE
    OBVIOUS
  <2>1. m \in Stops /\ m < n
    BY <1>4
  <2> QED  BY <1>3, <2>1
<1> QED  BY <1>4, <1>5 DEF NextLine

(* What one call of next() adds to the events read. *)
LEMMA NextLineEvents ==
  ASSUME file \in Seq(Line), line_number_ \in 0 .. Len(file)
  PROVE  /\ NextLine > Len(file) =>
              Events(file)[Len(file)] = Events(file)[line_number_]
         /\ NextLine <= Len(file) /\ file[NextLine] = Malformed =>
              Events(file)[NextLine] = Events(file)[line_number_]
         /\ NextLine <= Len(file) /\ file[NextLine] # Malformed =>
              /\ file[NextLine] \in Item
              /\ Events(file)[NextLine]
                   = Append(Events(file)[line_number_], file[NextLine])
<1> DEFINE n == NextLine
<1>1. /\ n \in line_number_ + 1 .. Len(file) + 1
      /\ n <= Len(file) => file[n] # Comment
      /\ \A m \in line_number_ + 1 .. n - 1 : file[m] = Comment
  BY NextLineExists
<1> HIDE DEF n
<1>2. Events(file)[n - 1] = Events(file)[line_number_]
  <2>1. n - 1 \in line_number_ .. Len(file)
    BY <1>1
  <2>2. \A m \in line_number_ + 1 .. n - 1 : file[m] \notin Item
    BY <1>1, FilesAssumption
  <2> QED  BY <2>1, <2>2, EventsSkip
<1>3. n > Len(file) => n - 1 = Len(file)
  BY <1>1
<1>4. ASSUME n <= Len(file)
      PROVE  /\ file[n] # Malformed => file[n] \in Item
             /\ Events(file)[n] = IF file[n] \in Item
                                    THEN Append(Events(file)[n - 1], file[n])
                                    ELSE Events(file)[n - 1]
  <2>1. n \in 1 .. Len(file) /\ file[n] \in Line
    BY <1>1, <1>4
  <2> QED  BY <1>1, <1>4, <2>1, EventsUnfold DEF Line
<1>5. Malformed \notin Item
  BY FilesAssumption
<1> QED  BY <1>2, <1>3, <1>4, <1>5 DEF n

-----------------------------------------------------------------------------
(* Every step of the two threads is a step of the queue or leaves it alone. *)
LEMMA QueueStep ==
  ASSUME PipelineTypeOK, [Next]_vars
  PROVE  [QueueNext]_queue_vars
<1> USE DEF QueueNext, PushLoad, PopLoad
<1>1. CASE \E tail \in Index : TryPush(tail)
  <2>1. event \in Item
    BY DEF PipelineTypeOK
  <2> QED  BY <1>1, <2>1 DEF TryPush
<1>2. CASE \E head \in Index : TryPop(head)
  BY <1>2 DEF TryPop
<1>3. CASE PushStore \/ PushDone \/ PopLoadItem \/ PopDone
  BY <1>3 DEF PushStore, PushDone, PopLoadItem, PopDone
<1>4. CASE ReadEvent \/ StoreProducerDone \/ ProcessEvent \/ JoinAndReport
  BY <1>4 DEF ReadEvent, StoreProducerDone, ProcessEvent, JoinAndReport
<1>5. CASE \E done \in BOOLEAN : LoadProducerDone(done)
  BY <1>5 DEF LoadProducerDone
<1>6. CASE UNCHANGED vars \/ Exited
  BY <1>6 DEF vars, Exited
<1> QED  BY <1>1, <1>2, <1>3, <1>4, <1>5, <1>6 DEF Next, Producer, Consumer

-----------------------------------------------------------------------------
(* The sequence a state accounts for: the events processed, the one popped *)
(* and not yet processed, those in the ring, the one the producer holds.   *)
Account(done, popped, ring, held) == done \o (popped \o ring \o held)

(* Concatenation can be regrouped. *)
LEMMA Regroup ==
  ASSUME NEW S, NEW s \in Seq(S), NEW t \in Seq(S), NEW u \in Seq(S)
  PROVE  (s \o t) \o u = s \o (t \o u) /\ s \o t \in Seq(S)
OBVIOUS

(* The empty sequence adds nothing. *)
LEMMA SeqUnits ==
  ASSUME NEW S, NEW s \in Seq(S), NEW e \in S
  PROVE  /\ s \o <<>> = s /\ <<>> \o s = s /\ Append(s, e) = s \o <<e>>
         /\ <<e>> \in Seq(S) /\ <<>> \in Seq(S)
OBVIOUS

(* An event read joins the account at its end. *)
LEMMA AccountReads ==
  ASSUME NEW done \in Seq(Item), NEW popped \in Seq(Item),
         NEW ring \in Seq(Item), NEW e \in Item
  PROVE  Account(done, popped, ring, <<e>>)
           = Append(Account(done, popped, ring, <<>>), e)
<1> DEFINE both == popped \o ring
<1>1. both \in Seq(Item) /\ <<e>> \in Seq(Item)
  BY Regroup, SeqUnits
<1> HIDE DEF both
<1>2. (done \o both) \o <<e>> = done \o (both \o <<e>>) /\ done \o both \in Seq(Item)
  BY <1>1, Regroup
<1>3. /\ Append(done \o both, e) = (done \o both) \o <<e>>
      /\ both \o <<>> = both
  BY <1>1, <1>2, SeqUnits
<1> QED  BY <1>2, <1>3 DEF Account, both

(* An event pushed moves from the producer to the ring. *)
LEMMA AccountPushes ==
  ASSUME NEW done \in Seq(Item), NEW popped \in Seq(Item),
         NEW ring \in Seq(Item), NEW e \in Item
  PROVE  Account(done, popped, Append(ring, e), <<>>)
           = Account(done, popped, ring, <<e>>)
<1>1. <<e>> \in Seq(Item) /\ Append(ring, e) = ring \o <<e>>
  BY SeqUnits
<1>2. (popped \o ring) \o <<e>> = popped \o (ring \o <<e>>)
  BY <1>1, Regroup
<1> DEFINE all == popped \o (ring \o <<e>>)
<1>3. all \in Seq(Item)
  OBVIOUS
<1>4. all \o <<>> = all
  <2> HIDE DEF all
  <2> QED  BY <1>3, SeqUnits
<1> QED  BY <1>1, <1>2, <1>4 DEF Account

(* An event popped moves from the ring to the consumer. *)
LEMMA AccountPops ==
  ASSUME NEW done \in Seq(Item), NEW ring \in Seq(Item), NEW held \in Seq(Item),
         ring # <<>>
  PROVE  Account(done, <<Head(ring)>>, Tail(ring), held)
           = Account(done, <<>>, ring, held)
<1>1. <<Head(ring)>> \o Tail(ring) = ring /\ <<>> \o ring = ring
  OBVIOUS
<1> QED  BY <1>1 DEF Account

(* An event processed moves from the consumer to the book. *)
LEMMA AccountProcesses ==
  ASSUME NEW done \in Seq(Item), NEW ring \in Seq(Item), NEW held \in Seq(Item),
         NEW e \in Item
  PROVE  Account(Append(done, e), <<>>, ring, held)
           = Account(done, <<e>>, ring, held)
<1> DEFINE rest == ring \o held
<1>1. /\ rest \in Seq(Item) /\ <<e>> \in Seq(Item)
      /\ Append(done, e) = done \o <<e>> /\ <<>> \o ring = ring
  BY Regroup, SeqUnits
<1>2. (<<e>> \o ring) \o held = <<e>> \o rest
  BY <1>1, Regroup
<1> HIDE DEF rest
<1>3. (done \o <<e>>) \o rest = done \o (<<e>> \o rest)
  BY <1>1, Regroup
<1> QED  BY <1>1, <1>2, <1>3 DEF Account, rest

Popped == IF consumer_pc = "process" THEN <<pop_item>> ELSE <<>>
Held == IF producer_pc = "push" THEN <<event>> ELSE <<>>

(* EveryEventAccountedFor in these terms. *)
LEMMA AccountNamed ==
  EveryEventAccountedFor <=> Account(processed, Popped, Contents, Held) = EventsRead
  BY DEF EveryEventAccountedFor, InTransit, Account, Popped, Held

(* Before the first line is read there is nothing to account for. *)
LEMMA PipelineInvInit == Init => PipelineInv
<1> SUFFICES ASSUME Init PROVE PipelineInv
  OBVIOUS
<1>1. QueueInit /\ FifoInv /\ QueueTypeOK
  BY FifoInvInit DEF Init, FifoInv, RingInv
<1>2. file \in Seq(Line) /\ Len(file) \in Nat
  BY FilesAssumption DEF Init, Line
<1>3. PipelineTypeOK
  <2>1. line_number_ \in 0 .. Len(file) + 1
    BY <1>2 DEF Init
  <2>2. event \in Item /\ processed \in Seq(Item)
    BY <1>1 DEF Init, QueueTypeOK
  <2>3. producer_done \in BOOLEAN /\ producer_error \in BOOLEAN
    BY DEF Init
  <2> QED  BY <1>1, <2>1, <2>2, <2>3 DEF Init, PipelineTypeOK
<1>4. Control
  BY <1>1, <1>2 DEF Init, Control, QueueInit
<1>5. EveryEventAccountedFor
  <2>1. EventsRead = <<>>
    BY <1>2, EventsUnfold DEF EventsRead, Init
  <2>2. Contents = <<>>
    <3>1. size_approx(head_, tail_) = 0
      BY <1>1 DEF QueueInit, size_approx
    <3> QED  BY <1>1, <3>1, ContentsType DEF FifoInv
  <2> QED  BY <2>1, <2>2 DEF EveryEventAccountedFor, InTransit, Init
<1> QED  BY <1>1, <1>2, <1>3, <1>4, <1>5 DEF PipelineInv

(* Types and program counters. *)
LEMMA ControlNext == PipelineInv /\ [Next]_vars => PipelineTypeOK' /\ Control'
<1> SUFFICES ASSUME PipelineInv, [Next]_vars PROVE PipelineTypeOK' /\ Control'
  OBVIOUS
<1>1. QueueTypeOK'
  BY QueueStep, FifoInvNext DEF PipelineInv, FifoInv, RingInv
<1>2. file \in Seq(Line) /\ Len(file) \in Nat /\ QueueTypeOK
  BY DEF PipelineInv, PipelineTypeOK
<1> USE DEF PipelineInv, PipelineTypeOK, Control, queue_vars, producer_vars,
            consumer_vars
<1>3. CASE ReadEvent
  <2>1. line_number_ \in 0 .. Len(file)
    BY <1>2, <1>3 DEF ReadEvent
  <2>2. NextLine \in line_number_ + 1 .. Len(file) + 1
    BY <1>2, <2>1, NextLineExists
  <2>3. NextLine <= Len(file) /\ file[NextLine] # Malformed =>
          file[NextLine] \in Item
    BY <1>2, <2>1, NextLineEvents
  <2>4. push_pc = "idle"
    BY <1>3 DEF ReadEvent
  <2>5. /\ line_number_' = NextLine /\ producer_pc = "next"
        /\ UNCHANGED <<push_pc, pop_pc, file, consumer_pc, main_pc,
                       producer_done, processed>>
        /\ \/ /\ NextLine > Len(file) /\ producer_pc' = "done"
              /\ UNCHANGED <<event, producer_error>>
           \/ /\ ~(NextLine > Len(file)) /\ file[NextLine] = Malformed
              /\ producer_pc' = "done" /\ producer_error' = TRUE /\ event' = event
           \/ /\ ~(NextLine > Len(file)) /\ file[NextLine] # Malformed
              /\ producer_pc' = "push" /\ event' = file[NextLine]
              /\ producer_error' = producer_error
    BY <1>3 DEF ReadEvent
  <2>6. event' \in Item /\ line_number_' \in 0 .. Len(file') + 1
    BY <1>2, <2>1, <2>2, <2>3, <2>5
  <2>7. producer_error' \in BOOLEAN
    BY <2>5
  <2>8. PipelineTypeOK'
    BY <1>1, <2>5, <2>6, <2>7
  <2>9. (producer_pc \in {"next", "push"} => line_number_ <= Len(file))'
    BY <1>2, <2>1, <2>2, <2>5
  <2>10. (producer_pc \in {"done", "exited"} =>
            line_number_ > Len(file) \/ producer_error)'
    BY <2>5
  <2> QED  BY <2>4, <2>5, <2>8, <2>9, <2>10
<1>4. CASE \E tail \in Index : TryPush(tail)
  BY <1>1, <1>4 DEF TryPush, PushFull, PushRoom, pipeline_vars
<1>5. CASE PushStore
  BY <1>1, <1>5 DEF PushStore, PushWrite, pipeline_vars
<1>6. CASE PushDone
  BY <1>1, <1>6 DEF PushDone, PushPublish
<1>7. CASE StoreProducerDone
  BY <1>1, <1>7 DEF StoreProducerDone
<1>8. CASE \E head \in Index : TryPop(head)
  BY <1>1, <1>8 DEF TryPop, PopReady, PopEmpty
<1>9. CASE PopLoadItem
  BY <1>1, <1>9 DEF PopLoadItem, PopRead, pipeline_vars
<1>10. CASE PopDone
  BY <1>1, <1>10 DEF PopDone, PopPublish
<1>11. CASE ProcessEvent
  BY <1>1, <1>11 DEF ProcessEvent, QueueTypeOK
<1>12. CASE \E done \in BOOLEAN : LoadProducerDone(done)
  BY <1>1, <1>12 DEF LoadProducerDone
<1>13. CASE JoinAndReport
  BY <1>1, <1>13 DEF JoinAndReport
<1>14. CASE UNCHANGED vars \/ Exited
  BY <1>1, <1>14 DEF vars, pipeline_vars, Exited
<1> QED  BY <1>3, <1>4, <1>5, <1>6, <1>7, <1>8, <1>9, <1>10, <1>11, <1>12,
            <1>13, <1>14 DEF Next, Producer, Consumer

(* The account is kept. *)
LEMMA AccountNext == PipelineInv /\ [Next]_vars => EveryEventAccountedFor'
<1> SUFFICES ASSUME PipelineInv, [Next]_vars PROVE EveryEventAccountedFor'
  OBVIOUS
<1>1. Account(processed, Popped, Contents, Held) = EventsRead
  BY AccountNamed DEF PipelineInv
<1>2. SUFFICES Account(processed', Popped', Contents', Held') = EventsRead'
  BY DEF EveryEventAccountedFor, InTransit, Account, Popped, Held
<1>3. /\ FifoInv /\ RingInv /\ QueueTypeOK /\ PipelineTypeOK /\ Control
      /\ file \in Seq(Line) /\ Len(file) \in Nat
  BY DEF PipelineInv, FifoInv, RingInv
<1>4. /\ processed \in Seq(Item) /\ Popped \in Seq(Item)
      /\ Contents \in Seq(Item) /\ Held \in Seq(Item)
      /\ event \in Item /\ pop_item \in Item
  BY <1>3, ContentsType DEF PipelineTypeOK, QueueTypeOK, Popped, Held
<1>5. ASSUME UNCHANGED <<file, line_number_>> PROVE EventsRead' = EventsRead
  BY <1>5 DEF EventsRead
<1>6. ASSUME UNCHANGED <<storage_, head_, tail_>> PROVE Contents' = Contents
  BY <1>3, <1>6, ContentsSteps
<1>7. CASE ReadEvent
  <2>1. /\ line_number_ \in 0 .. Len(file) /\ producer_pc = "next"
        /\ Held = <<>> /\ EventsRead = Events(file)[line_number_]
    BY <1>3, <1>7 DEF ReadEvent, PipelineTypeOK, Control, Held, EventsRead
  <2>2. /\ file' = file /\ processed' = processed /\ Popped' = Popped
        /\ Contents' = Contents /\ line_number_' = NextLine
    BY <1>6, <1>7 DEF ReadEvent, Popped, queue_vars, consumer_vars
  <2>3. NextLine \in line_number_ + 1 .. Len(file) + 1
    BY <1>3, <2>1, NextLineExists
  <2>4. CASE NextLine > Len(file)
    <3>1. Held' = <<>>
      BY <1>7, <2>4 DEF ReadEvent, Held
    <3>2. EventsRead' = Events(file)[Len(file)]
      BY <1>3, <2>2, <2>3, <2>4 DEF EventsRead
    <3> QED  BY <1>1, <1>3, <2>1, <2>2, <2>4, <3>1, <3>2, NextLineEvents
  <2>5. CASE NextLine <= Len(file) /\ file[NextLine] = Malformed
    <3>1. Held' = <<>>
      BY <1>3, <1>7, <2>3, <2>5 DEF ReadEvent, Held
    <3>2. EventsRead' = Events(file)[NextLine]
      BY <2>2, <2>5 DEF EventsRead
    <3> QED  BY <1>1, <1>3, <2>1, <2>2, <2>5, <3>1, <3>2, NextLineEvents
  <2>6. CASE NextLine <= Len(file) /\ file[NextLine] # Malformed
    <3>1. Held' = <<file[NextLine]>>
      BY <1>3, <1>7, <2>3, <2>6 DEF ReadEvent, Held
    <3>2. EventsRead' = Events(file)[NextLine]
      BY <2>2, <2>6 DEF EventsRead
    <3>3. /\ file[NextLine] \in Item
          /\ Events(file)[NextLine] = Append(EventsRead, file[NextLine])
      BY <1>3, <2>1, <2>6, NextLineEvents
    <3>4. Account(processed, Popped, Contents, <<file[NextLine]>>)
            = Append(Account(processed, Popped, Contents, <<>>), file[NextLine])
      BY <1>4, <3>3, AccountReads
    <3> QED  BY <1>1, <2>1, <2>2, <3>1, <3>2, <3>3, <3>4
  <2> QED  BY <1>3, <2>3, <2>4, <2>5, <2>6
<1>8. CASE PushStore
  <2>1. /\ UNCHANGED <<processed, Popped, Held, file, line_number_>>
        /\ Contents' = Contents
    BY <1>3, <1>8, ContentsSteps
       DEF PushStore, PushWrite, pipeline_vars, consumer_vars, Popped, Held
  <2> QED  BY <1>1, <1>5, <2>1
<1>9. CASE PushDone
  <2>1. Contents' = Append(Contents, event) /\ Held = <<event>> /\ Held' = <<>>
    BY <1>3, <1>9, ContentsSteps
       DEF PushDone, PushPublish, FifoInv, ItemInv, Control, Held
  <2>2. UNCHANGED <<processed, Popped, file, line_number_>>
    BY <1>9 DEF PushDone, PushPublish, consumer_vars, Popped
  <2>3. Account(processed, Popped, Append(Contents, event), <<>>)
          = Account(processed, Popped, Contents, <<event>>)
    BY <1>4, AccountPushes
  <2> QED  BY <1>1, <1>5, <2>1, <2>2, <2>3
<1>10. CASE PopDone
  <2>1. /\ Contents' = Tail(Contents) /\ Contents # <<>>
        /\ Head(Contents) = pop_item
    BY <1>3, <1>10, ContentsSteps, ContentsType
       DEF PopDone, PopPublish, FifoInv, ItemInv
  <2>2. Popped = <<>> /\ Popped' = <<pop_item>>
    BY <1>3, <1>10 DEF PopDone, PopPublish, Control, Popped
  <2>3. UNCHANGED <<processed, Held, file, line_number_>>
    BY <1>10 DEF PopDone, Held
  <2>4. Account(processed, <<Head(Contents)>>, Tail(Contents), Held)
          = Account(processed, <<>>, Contents, Held)
    BY <1>4, <2>1, AccountPops
  <2> QED  BY <1>1, <1>5, <2>1, <2>2, <2>3, <2>4
<1>11. CASE ProcessEvent
  <2>1. /\ processed' = Append(processed, pop_item)
        /\ Popped = <<pop_item>> /\ Popped' = <<>>
        /\ UNCHANGED <<Held, file, line_number_>> /\ Contents' = Contents
    BY <1>6, <1>11 DEF ProcessEvent, Popped, Held, queue_vars
  <2>2. Account(Append(processed, pop_item), <<>>, Contents, Held)
          = Account(processed, <<pop_item>>, Contents, Held)
    BY <1>4, AccountProcesses
  <2> QED  BY <1>1, <1>5, <2>1, <2>2
<1>12. ASSUME UNCHANGED <<processed, Popped, Held, file, line_number_>>,
              UNCHANGED <<storage_, head_, tail_>>
       PROVE  Account(processed', Popped', Contents', Held') = EventsRead'
  BY <1>1, <1>5, <1>6, <1>12
<1>13. CASE \E tail \in Index : TryPush(tail)
  BY <1>12, <1>13 DEF TryPush, PushFull, PushRoom, pipeline_vars, consumer_vars,
                      Popped, Held
<1>14. CASE \E head \in Index : TryPop(head)
  BY <1>12, <1>14 DEF TryPop, PopReady, PopEmpty, Popped, Held
<1>15. CASE PopLoadItem
  <2>1. consumer_pc # "process"
    BY <1>3, <1>15 DEF PopLoadItem, PopRead, Control
  <2> QED  BY <1>12, <1>15, <2>1 DEF PopLoadItem, PopRead, pipeline_vars, Popped, Held
<1>16. CASE StoreProducerDone \/ JoinAndReport
  BY <1>12, <1>16 DEF StoreProducerDone, JoinAndReport, queue_vars, consumer_vars,
                      Popped, Held
<1>17. CASE \E done \in BOOLEAN : LoadProducerDone(done)
  BY <1>12, <1>17 DEF LoadProducerDone, queue_vars, Popped, Held
<1>18. CASE UNCHANGED vars \/ Exited
  BY <1>12, <1>18 DEF vars, Exited, pipeline_vars, queue_vars, consumer_vars,
                      Popped, Held
<1> QED  BY <1>7, <1>8, <1>9, <1>10, <1>11, <1>13, <1>14, <1>15, <1>16, <1>17,
            <1>18 DEF Next, Producer, Consumer

(* Every step keeps the strengthened invariant. *)
LEMMA PipelineInvNext == PipelineInv /\ [Next]_vars => PipelineInv'
<1> SUFFICES ASSUME PipelineInv, [Next]_vars PROVE PipelineInv'
  OBVIOUS
<1>1. FifoInv'
  BY QueueStep, FifoInvNext DEF PipelineInv
<1>2. file' = file
  BY DEF Next, Producer, Consumer, ReadEvent, PushStore, PushDone,
         StoreProducerDone, TryPush, PopLoadItem, PopDone, ProcessEvent, TryPop,
         LoadProducerDone, JoinAndReport, Exited, vars, pipeline_vars
<1> QED  BY <1>1, <1>2, ControlNext, AccountNext DEF PipelineInv

(* The invariant of the pipeline holds for every set of files, every       *)
(* capacity and every schedule of the threads.                             *)
THEOREM PipelineInvariant == Spec => []PipelineInv
  BY PipelineInvInit, PipelineInvNext, PTL DEF Spec

(* Type correctness of market_replay. *)
THEOREM PipelineTypeCorrect == Spec => []PipelineTypeOK
<1>1. PipelineInv => PipelineTypeOK
  BY DEF PipelineInv
<1> QED  BY <1>1, PipelineInvariant, PTL

(* The two threads lose, repeat and reorder no event, whatever the file,   *)
(* the capacity of the queue and the interleaving.                         *)
THEOREM NothingLost == Spec => []EveryEventAccountedFor
<1>1. PipelineInv => EveryEventAccountedFor
  BY DEF PipelineInv
<1> QED  BY <1>1, PipelineInvariant, PTL

(* market_replay uses its queue only as SpscQueue specifies. *)
THEOREM UsesQueue == Spec => QueueSpec
<1>1. PipelineInv /\ [Next]_vars => [QueueNext]_queue_vars
  BY QueueStep DEF PipelineInv
<1>2. Init => QueueInit
  BY DEF Init
<1> QED  BY <1>1, <1>2, PipelineInvariant, PTL DEF Spec, QueueSpec

(* So the queue of market_replay is a bounded FIFO. *)
THEOREM PipelineFifo == Spec => FifoSpec
  BY UsesQueue, ImplementsFifo, PTL

(* The events processed and the contents of the queue are the whole file. *)
ReportMissesOnlyQueue ==
  main_pc = "report" => processed \o Contents = Events(file)[Len(file)]

(* What the report can miss is what is still in the ring and nothing else: *)
(* main joins the threads with the file read to its end, so no event is    *)
(* lost between the two threads.                                           *)
THEOREM ReportAccountsForFile == Spec => []ReportMissesOnlyQueue
<1>1. PipelineInv => ReportMissesOnlyQueue
  <2> SUFFICES ASSUME PipelineInv, main_pc = "report"
               PROVE  processed \o Contents = Events(file)[Len(file)]
    BY DEF ReportMissesOnlyQueue
  <2>1. /\ producer_pc = "exited" /\ consumer_pc = "exited"
        /\ line_number_ > Len(file)
    BY DEF PipelineInv, Control
  <2>2. line_number_ \in Nat /\ Len(file) \in Nat
    BY DEF PipelineInv, PipelineTypeOK
  <2>3. EventsRead = Events(file)[Len(file)]
    BY <2>1, <2>2 DEF EventsRead
  <2>4. Contents \in Seq(Item)
    BY ContentsType DEF PipelineInv, FifoInv
  <2>5. InTransit = Contents
    BY <2>1, <2>4, ConcatEmptySeq DEF InTransit
  <2> QED  BY <2>3, <2>5 DEF PipelineInv, EveryEventAccountedFor
<1> QED  BY <1>1, PipelineInvariant, PTL
==============================================================================
