----------------------------- MODULE EventBook -----------------------------
(***************************************************************************)
(* One OrderBook as the ITCH programs use it, as a value: process_event    *)
(* for the events decode_message produces, and the queries of the research *)
(* tools.  A book is a record of the resting orders by id, the priority    *)
(* the next order gets and the used slots of level_lookup_; PriceTimeBook  *)
(* says the same as a state machine, and SymbolsDoNotInterfere of          *)
(* ItchReplay holds the two together.                                      *)
(***************************************************************************)
EXTENDS LookupTable

EmptyBook == [resting |-> <<>>, next_priority_ |-> 0, used_slots |-> 0]

Ids(book) == DOMAIN book.resting

order_count(book) == Cardinality(Ids(book))

LevelKeys(book) ==
  {<<book.resting[i].side, book.resting[i].price>> : i \in Ids(book)}

(* acquire_level fails. *)
LevelRefused(book, side, price, max_orders) ==
  <<side, price>> \notin LevelKeys(book) /\ Saturated(book.used_slots, max_orders)

(* The book without an order. *)
Drop(book, id) ==
  [book EXCEPT !.resting = [i \in DOMAIN @ \ {id} |-> @[i]]]

(* process_event's ProcessResult. *)
Outcome(book, event, max_orders) ==
  LET known == event.order_id \in Ids(book) IN
  IF event.type # "Cancel" /\ event.quantity = 0 THEN "InvalidQuantity"
  ELSE IF event.type = "Add"
    THEN IF known THEN "DuplicateOrderId"
         ELSE IF \/ order_count(book) >= max_orders
                 \/ LevelRefused(book, event.side, event.price_ticks, max_orders)
           THEN "CapacityExhausted"
         ELSE "Applied"
  ELSE IF ~known THEN "OrderNotFound"
  ELSE IF /\ event.type \in {"Trade", "Reduce"}
          /\ event.quantity > book.resting[event.order_id].quantity
    THEN "InvalidQuantity"
  ELSE IF /\ event.type = "Replace"
          /\ event.new_order_id \in Ids(book) \ {event.order_id}
    THEN "DuplicateOrderId"
  ELSE IF /\ event.type = "Replace"
          /\ LevelRefused(Drop(book, event.order_id),
                          book.resting[event.order_id].side,
                          event.price_ticks, max_orders)
    THEN "CapacityExhausted"
  ELSE "Applied"

(* The slots that may be used once the level is there. *)
acquire_level(book, side, price) ==
  IF <<side, price>> \in LevelKeys(book) THEN {book.used_slots}
  ELSE UsedAfter(book.used_slots, Cardinality(LevelKeys(book)))

(* The book with a new order at the tail of its level: a book for each way *)
(* the level's insertion may have gone.                                    *)
WithOrder(book, id, side, price, quantity, used) ==
  [resting |-> [i \in Ids(book) \cup {id} |->
                  IF i = id THEN [side |-> side, price |-> price,
                                  quantity |-> quantity,
                                  priority |-> book.next_priority_]
                            ELSE book.resting[i]],
   next_priority_ |-> book.next_priority_ + 1,
   used_slots |-> used]

Rest(book, id, side, price, quantity) ==
  {WithOrder(book, id, side, price, quantity, used) :
     used \in acquire_level(book, side, price)}

(* What process_event may make of the book.  A Replace whose level is      *)
(* refused has cancelled the original.                                     *)
process_event(book, event, max_orders) ==
  LET id == event.order_id
      outcome == Outcome(book, event, max_orders)
  IN
  IF outcome = "CapacityExhausted" /\ event.type = "Replace" THEN {Drop(book, id)}
  ELSE IF outcome # "Applied" THEN {book}
  ELSE CASE event.type = "Add" ->
              Rest(book, id, event.side, event.price_ticks, event.quantity)
         [] event.type = "Replace" ->
              Rest(Drop(book, id), event.new_order_id, book.resting[id].side,
                   event.price_ticks, event.quantity)
         [] event.type \in {"Trade", "Reduce"}
              /\ event.quantity < book.resting[id].quantity ->
              {[book EXCEPT !.resting[id].quantity = @ - event.quantity]}
         [] OTHER -> {Drop(book, id)}

-----------------------------------------------------------------------------
level_order_ids(book, side, price) ==
  {i \in Ids(book) : book.resting[i].side = side /\ book.resting[i].price = price}

TotalQuantity(book, ids) ==
  SumFunctionOnSet([i \in Ids(book) |-> book.resting[i].quantity], ids)

Prices(book, side) ==
  {book.resting[i].price : i \in {j \in Ids(book) : book.resting[j].side = side}}

(* best_bid and best_ask: the price and total of the best level; zeros,    *)
(* as in an L1Row, when the side is empty.                                 *)
Best(book, side) ==
  LET prices == Prices(book, side)
      best == IF side = "Buy" THEN Max(prices) ELSE Min(prices)
  IN  IF prices = {} THEN [price |-> 0, size |-> 0]
      ELSE [price |-> best,
            size |-> TotalQuantity(book, level_order_ids(book, side, best))]
=============================================================================
