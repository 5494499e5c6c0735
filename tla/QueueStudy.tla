----------------------------- MODULE QueueStudy -----------------------------
(***************************************************************************)
(* include/market/research/QueueModel.hpp and the loop of                  *)
(* src/ItchQueue.cpp: a hypothetical passive order at the best price, the  *)
(* quantity ahead of it in the queue, and a new order when it is filled or *)
(* times out.                                                              *)
(*                                                                         *)
(* The program is run once per multiplier, on the same events; the model   *)
(* takes the runs in step so that they can be compared.  The book, which   *)
(* no multiplier influences, is one.  ahead_ is a double in the code; here *)
(* it is in units of 1 / Scale and a multiplier of m stands for m / Scale. *)
(***************************************************************************)
EXTENDS EventBook, Sequences

CONSTANTS OrderId, Price, Quantity,   \* the values the events are made of
          Sides,                      \* the sides of the orders that are added
          side, size, timeout,        \* the options of the program
          Multipliers, Scale,
          max_orders,                 \* --capacity
          MaxEvents                   \* bound on the length of the feed

ASSUME StudyAssumption ==
  /\ Quantity \subseteq Nat /\ Price \subseteq Int
  /\ side \in {"Buy", "Sell"} /\ Sides \subseteq {"Buy", "Sell"}
  /\ size \in Nat /\ timeout \in Nat /\ max_orders \in Nat \ {0}
  /\ Scale \in Nat \ {0} /\ Multipliers \subseteq Nat /\ Scale \in Multipliers
  /\ MaxEvents \in Nat

VARIABLES book,
          runs,     \* by multiplier
          fed,      \* how many events have come
          ended

vars == <<book, runs, fed, ended>>

Fields(type, id, new_id, event_side, price, quantity) ==
  [type |-> type, order_id |-> id, new_order_id |-> new_id,
   side |-> event_side, price_ticks |-> price, quantity |-> quantity]

Events ==
  {Fields("Add", i, i, s, p, q) : i \in OrderId, s \in Sides, p \in Price, q \in Quantity}
    \cup {Fields(t, i, i, side, 0, q) : t \in {"Trade", "Reduce"}, i \in OrderId, q \in Quantity}
    \cup {Fields("Cancel", i, i, side, 0, 0) : i \in OrderId}
    \cup {Fields("Replace", i, j, side, p, q) : i, j \in OrderId, p \in Price, q \in Quantity}

-----------------------------------------------------------------------------
(* QueueModel.  `arrival`, `orderly` and `reached` are history: the        *)
(* priority an order at the tail of the queue would have had at the post,  *)
(* and whether every event since was in order and how much was executed of *)
(* orders behind that place.                                               *)

NoModel == [active |-> FALSE]

(* Mutant: the multiplier divides the quantity ahead. *)
QueueModel_Divided(after, price, multiplier) ==
  LET cohort == level_order_ids(after, side, price) IN
  [active |-> TRUE, price_ |-> price,
   ahead_ |-> (TotalQuantity(after, cohort) * Scale * Scale) \div multiplier,
   filled_ |-> 0, cohort_ |-> cohort,
   arrival |-> after.next_priority_, orderly |-> TRUE, reached |-> 0]

QueueModel(after, price, multiplier) ==
  LET cohort == level_order_ids(after, side, price) IN
  [active |-> TRUE, price_ |-> price,
   ahead_ |-> TotalQuantity(after, cohort) * multiplier,
   filled_ |-> 0, cohort_ |-> cohort,
   arrival |-> after.next_priority_, orderly |-> TRUE, reached |-> 0]

Larger(a, b) == IF a > b THEN a ELSE b
Smaller(a, b) == IF a < b THEN a ELSE b

order_at_our_level(model, id) == id \in level_order_ids(book, side, model.price_)

(* Mutant: any order of the level counts as ahead. *)
AheadOfUs_Level(model, id) == TRUE

AheadOfUs(model, id) == id \in model.cohort_

(* A cancelled quantity advances us if it was ahead. *)
Advance(model, id, quantity) ==
  IF AheadOfUs(model, id)
    THEN [model EXCEPT !.ahead_ = Larger(0, @ - Scale * quantity)]
    ELSE model

(* An execution consumes the queue; the rest fills us, in whole units. *)
Execute(model, quantity) ==
  LET consumed == Smaller(Scale * quantity, model.ahead_)
      overflow == Scale * quantity - consumed
      room == Scale * (size - model.filled_)
  IN  [model EXCEPT !.ahead_ = @ - consumed,
                    !.filled_ = @ + Smaller(overflow, room) \div Scale]

(* on_event, given the book before the event. *)
on_event(model, event) ==
  LET id == event.order_id IN
  IF model.filled_ >= size \/ ~order_at_our_level(model, id) THEN model
  ELSE CASE event.type = "Trade"   -> Execute(model, event.quantity)
         [] event.type = "Reduce"  -> Advance(model, id, event.quantity)
         [] event.type \in {"Cancel", "Replace"} ->
              Advance(model, id, book.resting[id].quantity)
         [] OTHER -> model

-----------------------------------------------------------------------------
(* What the exchange's own feed keeps to: the book accepts the event, an   *)
(* execution meets the first order of its level, an id is not used twice.  *)
Orderly(model, event) ==
  LET id == event.order_id IN
  /\ Outcome(book, event, max_orders) = "Applied"
  /\ event.type = "Trade" =>
       \A i \in level_order_ids(book, book.resting[id].side, book.resting[id].price) :
         book.resting[id].priority <= book.resting[i].priority
  /\ event.type = "Add" => id \notin model.cohort_
  /\ event.type = "Replace" => event.new_order_id \notin model.cohort_

Observed(model, event) ==
  LET id == event.order_id IN
  [model EXCEPT
     !.orderly = @ /\ Orderly(model, event),
     !.reached = IF /\ event.type = "Trade" /\ order_at_our_level(model, id)
                    /\ book.resting[id].priority >= model.arrival
                   THEN @ + event.quantity ELSE @]

NoRun == [model |-> NoModel, events_since_post |-> 0,
          posted |-> 0, full |-> 0, any |-> 0]

Init == /\ book = EmptyBook /\ runs = [m \in Multipliers |-> NoRun]
        /\ fed = 0 /\ ended = FALSE

(* resolve *)
Resolve(run, filled) ==
  [run EXCEPT !.model = NoModel,
              !.full = IF filled THEN @ + 1 ELSE @,
              !.any = IF run.model.filled_ > 0 THEN @ + 1 ELSE @]

(* The part of the loop before the book takes the event. *)
React(run, event) ==
  LET reacted == [run EXCEPT !.model = on_event(Observed(@, event), event),
                             !.events_since_post = @ + 1]
  IN
  IF ~run.model.active THEN run
  ELSE IF reacted.model.filled_ >= size THEN Resolve(reacted, TRUE)
  ELSE IF reacted.events_since_post >= timeout THEN Resolve(reacted, FALSE)
  ELSE reacted

(* The part after it. *)
Repost(run, after, multiplier) ==
  IF run.model.active \/ Prices(after, side) = {} THEN run
  ELSE [run EXCEPT !.model = QueueModel(after, Best(after, side).price, multiplier),
                   !.events_since_post = 0,
                   !.posted = @ + 1]

OnEvent(event) ==
  /\ ~ended /\ fed < MaxEvents
  /\ book' \in process_event(book, event, max_orders)
  /\ runs' = [m \in Multipliers |-> Repost(React(runs[m], event), book', m)]
  /\ fed' = fed + 1
  /\ UNCHANGED ended

(* The feed ends; what the last order has is counted. *)
Finish ==
  /\ ~ended
  /\ runs' = [m \in Multipliers |->
                IF runs[m].model.active /\ runs[m].model.filled_ > 0
                  THEN [runs[m] EXCEPT !.any = @ + 1] ELSE runs[m]]
  /\ ended' = TRUE
  /\ UNCHANGED <<book, fed>>

Next == (\E event \in Events : OnEvent(event)) \/ Finish

Spec == Init /\ [][Next]_vars

-----------------------------------------------------------------------------
(* What is really ahead of the order: what the orders of its level that    *)
(* were there when it was posted still rest for.                           *)
TrueAhead(model) ==
  TotalQuantity(book, {i \in level_order_ids(book, side, model.price_) :
                         book.resting[i].priority < model.arrival})

(* The displayed model "follow[s] the visible book exactly"                *)
(* (QueueModel.hpp:18): while the feed is in order, ahead_ is the quantity *)
(* that rests in front of us, though it is kept by a set of ids and        *)
(* updated from the book before each event, and we are filled by exactly   *)
(* what is executed behind our place.  Out of order it errs to one side    *)
(* only: ahead_ is never more than what is in front of us.                 *)
DisplayedFollowsBook ==
  LET model == runs[Scale].model IN
  model.active =>
    /\ model.ahead_ <= Scale * TrueAhead(model)
    /\ model.orderly => /\ model.ahead_ = Scale * TrueAhead(model)
                        /\ model.filled_ = model.reached

(* Two runs whose orders were posted after the same event. *)
SamePost(a, b) ==
  /\ runs[a].model.active /\ runs[b].model.active
  /\ runs[a].events_since_post = runs[b].events_since_post

(* The band has its ends the right way round: of two orders posted at the  *)
(* same event the one with the larger multiplier never has less ahead of   *)
(* it nor more filled, and is not filled completely before the other,      *)
(* whatever the rounding of the overflow does.                             *)
BandIsOrdered ==
  [][\A a, b \in Multipliers :
       a < b =>
         /\ SamePost(a, b)' =>
              LET displayed == runs'[a].model
                  conservative == runs'[b].model
              IN  /\ displayed.ahead_ <= conservative.ahead_
                  /\ displayed.filled_ >= conservative.filled_
         /\ SamePost(a, b) /\ runs'[b].full > runs[b].full =>
              runs'[a].full > runs[a].full
    ]_vars
=============================================================================
