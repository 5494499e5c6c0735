--------------------------- MODULE PriceTimeBook ---------------------------
(***************************************************************************)
(* What OrderBook promises, whatever its pools, lists, hash tables and     *)
(* heaps do: the behaviour of the oracles ReferenceBook and                *)
(* ReferenceMatcher of tests/MarketEngineTests.cpp, a map from order ids   *)
(* to resting orders.  Apply mode (process_event) is one action per event  *)
(* type.  Match mode (submit) is a begin, one step per fill and an end, so *)
(* that the state the FillSink observes is a state of the model; the book  *)
(* is single-threaded, so nothing else runs in between.                    *)
(*                                                                         *)
(* One thing of the data structures shows, and the oracles do not have it: *)
(* level_lookup_ refuses a new level once each of its slots has been used. *)
(* used_slots counts them; which slots are used again depends on hashes    *)
(* and is a choice here.                                                   *)
(***************************************************************************)
EXTENDS OrderTypes, LookupTable, Sequences

CONSTANTS Capacity,               \* max_orders
          MaxPriority, MaxFill    \* bounds on the two 64-bit sequence counters

ASSUME BookAssumption ==
  /\ Capacity \in Nat \ {0}
  /\ MaxPriority \in Nat /\ MaxFill \in Nat

Order == [side : Side, price : Int, quantity : Nat \ {0}, priority : Nat]

(* An order being matched: its request and what is left of it. *)
Taker == [request : OrderRequest, remaining : Nat]
NoTaker == [remaining |-> 0]

Fill == [taker_id : OrderId, maker_id : OrderId, taker_side : Side,
         price : Int, quantity : Nat, sequence : Nat]

VARIABLES
  resting,         \* the resting orders by id
  next_priority_,  \* the time priority the next order to rest gets
  fill_sequence_,  \* the sequence number of the next fill
  used_slots,      \* the slots of level_lookup_ that are not empty
  taker,           \* the order submit() is matching; NoTaker outside it
  fills,           \* what the FillSink got from the last submit()
  result           \* what the last call returned; "matching" inside submit()

vars == <<resting, next_priority_, fill_sequence_, used_slots, taker, fills,
          result>>

Init == /\ resting = <<>>
        /\ next_priority_ = 0 /\ fill_sequence_ = 0 /\ used_slots = 0
        /\ taker = NoTaker /\ fills = <<>> /\ result = "Applied"

-----------------------------------------------------------------------------
Insert(book, id, order) ==
  [i \in DOMAIN book \cup {id} |-> IF i = id THEN order ELSE book[i]]

Remove(book, id) == [i \in DOMAIN book \ {id} |-> book[i]]

(* Mutant: the slots that fills have freed are not counted as free. *)
Full_BeforeFills(book) == Cardinality(DOMAIN book) + Len(fills) >= Capacity

Full(book) == Cardinality(DOMAIN book) >= Capacity

LevelKeys(book) == {<<book[i].side, book[i].price>> : i \in DOMAIN book}

(* acquire_level fails.  (A level slot is free whenever an order slot is.) *)
LevelRefused(book, side, price) ==
  <<side, price>> \notin LevelKeys(book) /\ Saturated(used_slots, Capacity)

(* acquire_level succeeds: the level is there or is inserted. *)
acquire_level(book, side, price) ==
  used_slots' \in IF <<side, price>> \in LevelKeys(book) THEN {used_slots}
                  ELSE UsedAfter(used_slots, Cardinality(LevelKeys(book)))

(* The checks of rest_order. *)
RestOutcome(book, id, side, price, quantity) ==
  IF quantity = 0 THEN "InvalidQuantity"
  ELSE IF id \in DOMAIN book THEN "DuplicateOrderId"
  ELSE IF Full(book) \/ LevelRefused(book, side, price) THEN "CapacityExhausted"
  ELSE "Applied"

(* Mutant: the priority is the number of orders ahead, not a counter. *)
NewOrder_Ranked(side, price, quantity) ==
  [side |-> side, price |-> price, quantity |-> quantity,
   priority |-> Cardinality(DOMAIN resting)]

NewOrder(side, price, quantity) ==
  [side |-> side, price |-> price, quantity |-> quantity,
   priority |-> next_priority_]

(* A call that ends at once: it returns r and leaves the book as it is. *)
Refuse(r) == result' = r /\ UNCHANGED <<resting, next_priority_, used_slots>>

(* rest_order on a book from which `book` is what is left. *)
rest_order(book, id, side, price, quantity) ==
  LET outcome == RestOutcome(book, id, side, price, quantity) IN
  /\ result' = outcome
  /\ IF outcome = "Applied"
       THEN /\ resting' = Insert(book, id, NewOrder(side, price, quantity))
            /\ next_priority_' = next_priority_ + 1
            /\ acquire_level(book, side, price)
       ELSE /\ resting' = book
            /\ UNCHANGED <<next_priority_, used_slots>>

-----------------------------------------------------------------------------
(* Apply mode: process_event, one action per EventType. *)

Idle == /\ result # "matching"
        /\ fills' = <<>>
        /\ UNCHANGED <<taker, fill_sequence_>>

Add(id, side, price, quantity) ==
  /\ Idle /\ next_priority_ < MaxPriority
  /\ rest_order(resting, id, side, price, quantity)

(* In place the order keeps its priority; a new side or price loses it.    *)
(* To a level that is refused nothing is promised: CapacityExhausted after *)
(* the unlink is "unreachable after precheck" (OrderBook.cpp:84) and, when *)
(* it is reached, leaves no book to speak of.                              *)
Modify(id, side, price, quantity) ==
  /\ Idle /\ next_priority_ < MaxPriority
  /\ IF quantity = 0 THEN Refuse("InvalidQuantity")
     ELSE IF id \notin DOMAIN resting THEN Refuse("OrderNotFound")
     ELSE /\ result' = "Applied"
          /\ IF resting[id].side = side /\ resting[id].price = price
               THEN /\ resting' = [resting EXCEPT ![id].quantity = quantity]
                    /\ UNCHANGED <<next_priority_, used_slots>>
               ELSE /\ ~LevelRefused(Remove(resting, id), side, price)
                    /\ resting' = [resting EXCEPT ![id] =
                                     NewOrder(side, price, quantity)]
                    /\ next_priority_' = next_priority_ + 1
                    /\ acquire_level(Remove(resting, id), side, price)

Cancel(id) ==
  /\ Idle
  /\ IF id \notin DOMAIN resting THEN Refuse("OrderNotFound")
     ELSE /\ result' = "Applied"
          /\ resting' = Remove(resting, id)
          /\ UNCHANGED <<next_priority_, used_slots>>

(* Mutant: an order that is traded in full stays. *)
Trade_KeepsEmpty(id, quantity) ==
  /\ Idle
  /\ IF id \notin DOMAIN resting \/ quantity > resting[id].quantity
       THEN Refuse("OrderNotFound")
       ELSE /\ result' = "Applied"
            /\ resting' = [resting EXCEPT ![id].quantity = @ - quantity]
            /\ UNCHANGED <<next_priority_, used_slots>>

(* Trade and Reduce. *)
Trade(id, quantity) ==
  /\ Idle
  /\ IF quantity = 0 THEN Refuse("InvalidQuantity")
     ELSE IF id \notin DOMAIN resting THEN Refuse("OrderNotFound")
     ELSE IF quantity > resting[id].quantity THEN Refuse("InvalidQuantity")
     ELSE /\ result' = "Applied"
          /\ resting' = IF quantity = resting[id].quantity
                          THEN Remove(resting, id)
                          ELSE [resting EXCEPT ![id].quantity = @ - quantity]
          /\ UNCHANGED <<next_priority_, used_slots>>

(* cancel of order_id, then rest_order of new_order_id on the same side:   *)
(* when the level is refused the original is gone.                         *)
Replace(id, new_id, price, quantity) ==
  /\ Idle /\ next_priority_ < MaxPriority
  /\ IF quantity = 0 THEN Refuse("InvalidQuantity")
     ELSE IF id \notin DOMAIN resting THEN Refuse("OrderNotFound")
     ELSE IF new_id # id /\ new_id \in DOMAIN resting
       THEN Refuse("DuplicateOrderId")
     ELSE rest_order(Remove(resting, id), new_id, resting[id].side, price,
                     quantity)

-----------------------------------------------------------------------------
(* Match mode: submit. *)

(* The resting orders a request may trade with. *)
Makers(request) ==
  {i \in DOMAIN resting : /\ resting[i].side = Opposite(request.side)
                          /\ crosses(request, resting[i].price)}

fillable_quantity(request) ==
  SumFunctionOnSet([i \in DOMAIN resting |-> resting[i].quantity],
                   Makers(request))

(* Mutant: both sides are ordered like the asks. *)
Ahead_LowestFirst(a, b) ==
  \/ a.price < b.price
  \/ a.price = b.price /\ a.priority < b.priority

(* a is ahead of b, two orders of one side: price, then time. *)
Ahead(a, b) ==
  \/ /\ a.price # b.price
     /\ IF a.side = "Buy" THEN a.price > b.price ELSE a.price < b.price
  \/ a.price = b.price /\ a.priority < b.priority

BestMaker(request, m) ==
  /\ m \in Makers(request)
  /\ \A n \in Makers(request) \ {m} : Ahead(resting[m], resting[n])

SubmitCancel(id) ==
  /\ Idle
  /\ IF id \in DOMAIN resting
       THEN result' = "Canceled" /\ resting' = Remove(resting, id)
       ELSE result' = "RejectedInvalid" /\ UNCHANGED resting
  /\ UNCHANGED <<next_priority_, used_slots>>

(* Mutant: no pre-scan for fill-or-kill. *)
SubmitCheck_NoPrescan(request) ==
  IF request.quantity = 0 THEN "RejectedInvalid"
  ELSE IF MayRest(request) /\ request.id \in DOMAIN resting
    THEN "RejectedDuplicate"
  ELSE "matching"

(* The checks before the first fill. *)
SubmitCheck(request) ==
  IF request.quantity = 0 THEN "RejectedInvalid"
  ELSE IF MayRest(request) /\ request.id \in DOMAIN resting
    THEN "RejectedDuplicate"
  ELSE IF request.tif = "FOK" /\ fillable_quantity(request) < request.quantity
    THEN "RejectedFOK"
  ELSE "matching"

SubmitBegin(request) ==
  /\ result # "matching"
  /\ next_priority_ < MaxPriority /\ fill_sequence_ < MaxFill
  /\ LET check == SubmitCheck(request) IN
     /\ result' = check
     /\ taker' = IF check = "matching"
                   THEN [request |-> request, remaining |-> request.quantity]
                   ELSE NoTaker
  /\ fills' = <<>>
  /\ UNCHANGED <<resting, next_priority_, fill_sequence_, used_slots>>

SubmitFill ==
  /\ result = "matching" /\ taker.remaining > 0
  /\ \E m \in DOMAIN resting :
       LET traded == IF taker.remaining < resting[m].quantity
                       THEN taker.remaining ELSE resting[m].quantity
       IN
       /\ BestMaker(taker.request, m)
       /\ fills' = Append(fills, [taker_id |-> taker.request.id,
                                  maker_id |-> m,
                                  taker_side |-> taker.request.side,
                                  price |-> resting[m].price,
                                  quantity |-> traded,
                                  sequence |-> fill_sequence_])
       /\ fill_sequence_' = fill_sequence_ + 1
       /\ taker' = [taker EXCEPT !.remaining = @ - traded]
       /\ resting' = IF traded = resting[m].quantity
                       THEN Remove(resting, m)
                       ELSE [resting EXCEPT ![m].quantity = @ - traded]
  /\ UNCHANGED <<next_priority_, used_slots, result>>

Filled == taker.request.quantity - taker.remaining

SubmitEnd ==
  /\ result = "matching"
  /\ taker.remaining = 0 \/ Makers(taker.request) = {}
  /\ LET request == taker.request
         rests == /\ taker.remaining > 0 /\ MayRest(request) /\ ~Full(resting)
                  /\ ~LevelRefused(resting, request.side, request.price)
     IN
     /\ result' = IF taker.remaining = 0 THEN "FilledComplete"
                  ELSE IF rests
                    THEN IF Filled = 0 THEN "RestedNoFill"
                                       ELSE "PartialFillRested"
                  ELSE IF MayRest(request) THEN "RejectedCapacity"
                  ELSE IF Filled = 0 THEN "NoFillKilled"
                                     ELSE "PartialFillKilled"
     /\ IF rests
          THEN /\ resting' = Insert(resting, request.id,
                               NewOrder(request.side, request.price,
                                        taker.remaining))
               /\ next_priority_' = next_priority_ + 1
               /\ acquire_level(resting, request.side, request.price)
          ELSE UNCHANGED <<resting, next_priority_, used_slots>>
  /\ taker' = NoTaker
  /\ UNCHANGED <<fill_sequence_, fills>>

-----------------------------------------------------------------------------
ApplyNext ==
  \E id \in OrderId :
    \/ Cancel(id)
    \/ \E quantity \in Quantity : Trade(id, quantity)
    \/ \E price \in Price, quantity \in Quantity :
         \/ \E side \in Side : \/ Add(id, side, price, quantity)
                               \/ Modify(id, side, price, quantity)
         \/ \E new_id \in OrderId : Replace(id, new_id, price, quantity)

MatchNext == \/ SubmitFill
             \/ SubmitEnd
             \/ \E id \in OrderId : SubmitCancel(id)
             \/ \E request \in Requests : SubmitBegin(request)

Next == MatchNext \/ ApplyNext

Spec == Init /\ [][Next]_vars

-----------------------------------------------------------------------------
Matching == result = "matching"

TypeOK ==
  /\ DOMAIN resting \subseteq OrderId
  /\ resting \in [DOMAIN resting -> Order]
  /\ next_priority_ \in Nat /\ fill_sequence_ \in Nat /\ used_slots \in Nat
  /\ result \in ProcessResult \cup SubmitResult \cup {"matching"}
  /\ Matching => taker \in Taker
  /\ fills \in Seq(Fill)

(* Never more than max_orders orders rest, and no two share a time         *)
(* priority: at every price there is exactly one order to trade first.     *)
PriorityIsStrict ==
  /\ Cardinality(DOMAIN resting) <= Capacity
  /\ \A i, j \in DOMAIN resting :
       /\ resting[i].priority < next_priority_
       /\ resting[i].priority = resting[j].priority => i = j

(* A taker that traded is never then refused for want of a slot in the     *)
(* pool: its first fill that leaves a remainder has freed one.  So         *)
(* RejectedCapacity, which submit() returns after the matching loop, means *)
(* "nothing was done", with one exception that leaves the slot unused: the *)
(* level table is saturated.                                               *)
CapacityRefusalIsClean ==
  result = "RejectedCapacity" =>
    \/ fills = <<>>
    \/ Saturated(used_slots, Capacity) /\ ~Full(resting)

(* The best bid is below the best ask. *)
Uncrossed ==
  \A b, s \in DOMAIN resting :
    resting[b].side = "Buy" /\ resting[s].side = "Sell"
      => resting[b].price < resting[s].price

(* submit() never leaves a crossed book behind: a book that is uncrossed   *)
(* before a step of match mode is uncrossed after it, the step in which a  *)
(* remainder rests included.  (Apply mode may cross it: the feed decides.) *)
SubmitNeverCrosses ==
  [][Uncrossed /\ result' \in SubmitResult \cup {"matching"} => Uncrossed']_vars

(* The FillSink sees price-time priority: prices get no better from one    *)
(* fill to the next, sequence numbers have no gap, no order still resting  *)
(* on the maker side is better priced than one that traded, and every      *)
(* maker but the last is gone.                                             *)
FillsAreBestFirst ==
  \A i \in DOMAIN fills :
    LET Better(p, q) == IF fills[i].taker_side = "Buy" THEN p < q ELSE p > q
    IN
    /\ \A j \in DOMAIN resting :
         resting[j].side = Opposite(fills[i].taker_side)
           => ~Better(resting[j].price, fills[i].price)
    /\ i < Len(fills) =>
         /\ ~Better(fills[i + 1].price, fills[i].price)
         /\ fills[i + 1].sequence = fills[i].sequence + 1
         /\ fills[i].maker_id \notin DOMAIN resting

(* A fill-or-kill order that passed the pre-scan can still be filled in    *)
(* full after each of its fills, so it is never left half done; and what   *)
(* the fills sum to is what the order lost.                                *)
FillOrKill ==
  Matching =>
    /\ taker.request.tif = "FOK"
         => fillable_quantity(taker.request) >= taker.remaining
    /\ SumFunction([i \in DOMAIN fills |-> fills[i].quantity]) = Filled
=============================================================================
