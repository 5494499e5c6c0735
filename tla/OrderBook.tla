----------------------------- MODULE OrderBook -----------------------------
(***************************************************************************)
(* src/OrderBook.cpp: the fixed-capacity book.  `book` is a record of the  *)
(* private members of class OrderBook: pools of order and level slots with *)
(* their free lists, an intrusive FIFO list per level, the two lookup      *)
(* tables (LookupTable) and a price ladder per side (PriceLadder).  Each   *)
(* private member function is an operator from books to books.             *)
(*                                                                         *)
(* A freed slot keeps only its link in the free list: its other fields are *)
(* never read again before they are written.                               *)
(***************************************************************************)
EXTENDS OrderTypes, LookupTable, PriceLadder, Sequences, Functions

CONSTANTS Capacity,               \* max_orders
          OrderHash, LevelHash,   \* mix() of an id, of a side and price
          MaxPriority, MaxFill    \* bounds on the two 64-bit sequence counters

ASSUME OrderBookAssumption ==
  /\ Capacity \in Nat \ {0}
  /\ OrderHash \in [OrderId -> Nat]
  /\ LevelHash \in [Side \X Price -> Nat]

VARIABLES
  book,
  taker,   \* submit's locals; NoTaker outside it
  fills,   \* what the FillSink got from the last submit()
  result   \* what the last call returned; "matching" inside submit()

vars == <<book, taker, fills, result>>

Slots == 0 .. Capacity - 1

TableSlots == 0 .. next_power_of_two(Capacity * 2) - 1

FreeSlot(next_free) == [active |-> FALSE, next_free |-> next_free]

NextSlot(i) == IF i + 1 < Capacity THEN i + 1 ELSE npos

NoTaker == [remaining |-> 0]

Init ==
  /\ book = [orders_ |-> [i \in Slots |-> FreeSlot(NextSlot(i))],
             levels_ |-> [i \in Slots |-> FreeSlot(NextSlot(i))],
             order_lookup_ |-> [s \in TableSlots |-> Empty],
             level_lookup_ |-> [s \in TableSlots |-> Empty],
             ladder |-> [side \in Side |-> EmptyLadder],
             free_order_ |-> 0, free_level_ |-> 0,
             active_orders_ |-> 0, next_priority_ |-> 0,
             fill_sequence_ |-> 0]
  /\ taker = NoTaker /\ fills = <<>> /\ result = "Applied"

-----------------------------------------------------------------------------
(* Lookup *)

find_order_index(b, id) == find(b.order_lookup_, OrderHash[id], id)

find_level_index(b, side, price) ==
  find(b.level_lookup_, LevelHash[side, price], <<side, price>>)

(* Mutant: the id stays in the table. *)
erase_order_lookup_Skipped(b, id) == b

erase_order_lookup(b, id) ==
  [b EXCEPT !.order_lookup_ = erase(@, OrderHash[id], id)]

-----------------------------------------------------------------------------
(* Levels *)

LevelPrice(b) ==
  [l \in {k \in Slots : b.levels_[k].active} |-> b.levels_[l].price]

(* Mutant: a level slot whose insertion fails is not put back. *)
acquire_level_LosesSlot(b, side, price) ==
  LET existing == find_level_index(b, side, price)
      index == b.free_level_
      key == <<side, price>>
      popped == [b EXCEPT !.free_level_ = b.levels_[index].next_free]
      placed == [popped EXCEPT
        !.levels_[index] = [price |-> price, side |-> side, active |-> TRUE,
                            total_quantity |-> 0, order_count |-> 0,
                            head |-> npos, tail |-> npos],
        !.level_lookup_ = insert(@, LevelHash[key], key, index, FALSE)]
  IN
  IF existing # npos THEN [level |-> existing, book |-> b]
  ELSE IF index = npos THEN [level |-> npos, book |-> b]
  ELSE IF ~CanInsert(b.level_lookup_, LevelHash[key], FALSE)
    THEN [level |-> npos, book |-> popped]
  ELSE [level |-> index,
        book |-> [placed EXCEPT !.ladder[side] =
                    ladder_push(side, LevelPrice(placed), @, index)]]

(* The level of a side and price, made from a free slot if there is none;  *)
(* level is npos when that fails.                                          *)
acquire_level(b, side, price) ==
  LET existing == find_level_index(b, side, price)
      index == b.free_level_
      key == <<side, price>>
      popped == [b EXCEPT
        !.free_level_ = b.levels_[index].next_free,
        !.levels_[index] = [price |-> price, side |-> side, active |-> TRUE,
                            total_quantity |-> 0, order_count |-> 0,
                            head |-> npos, tail |-> npos],
        !.level_lookup_ = insert(@, LevelHash[key], key, index, FALSE)]
  IN
  IF existing # npos THEN [level |-> existing, book |-> b]
  ELSE IF index = npos THEN [level |-> npos, book |-> b]
  ELSE IF ~CanInsert(b.level_lookup_, LevelHash[key], FALSE)
    THEN [level |-> npos, book |-> b]   \* the slot goes back where it was
  ELSE [level |-> index,
        book |-> [popped EXCEPT !.ladder[side] =
                    ladder_push(side, LevelPrice(popped), @, index)]]

(* Mutant: the level stays on its ladder. *)
release_level_OnLadder(b, index) ==
  LET key == <<b.levels_[index].side, b.levels_[index].price>>
  IN  [b EXCEPT
        !.level_lookup_ = erase(@, LevelHash[key], key),
        !.levels_[index] = FreeSlot(b.free_level_),
        !.free_level_ = index]

release_level(b, index) ==
  LET side == b.levels_[index].side
      key == <<side, b.levels_[index].price>>
  IN  [b EXCEPT
        !.ladder[side] = ladder_remove(side, LevelPrice(b), @, index),
        !.level_lookup_ = erase(@, LevelHash[key], key),
        !.levels_[index] = FreeSlot(b.free_level_),
        !.free_level_ = index]

(* The level when the order at `index` joined its list, when it left it.   *)
Joined(level, index, order) ==
  [level EXCEPT !.head = IF level.tail = npos THEN index ELSE @,
                !.tail = index,
                !.total_quantity = @ + order.quantity,
                !.order_count = @ + 1]

Left(level, order) ==
  [level EXCEPT !.head = IF order.prev = npos THEN order.next ELSE @,
                !.tail = IF order.next = npos THEN order.prev ELSE @,
                !.total_quantity = @ - order.quantity,
                !.order_count = @ - 1]

link_tail(b, index, level) ==
  LET last == b.levels_[level].tail
      linked == [b.orders_ EXCEPT ![index].prev = last, ![index].next = npos]
  IN  [b EXCEPT
        !.orders_ = IF last = npos THEN linked
                                   ELSE [linked EXCEPT ![last].next = index],
        !.levels_[level] = Joined(@, index, b.orders_[index])]

unlink(b, index) ==
  LET order == b.orders_[index]
      level == order.level
      bypassed == [i \in Slots |->
        IF i = index THEN [order EXCEPT !.prev = npos, !.next = npos]
        ELSE IF i = order.prev THEN [b.orders_[i] EXCEPT !.next = order.next]
        ELSE IF i = order.next THEN [b.orders_[i] EXCEPT !.prev = order.prev]
        ELSE b.orders_[i]]
      without == [b EXCEPT !.orders_ = bypassed,
                           !.levels_[level] = Left(@, order)]
  IN  IF without.levels_[level].order_count = 0
        THEN release_level(without, level) ELSE without

-----------------------------------------------------------------------------
(* Orders *)

free_order_slot(b, index) ==
  [b EXCEPT !.orders_[index] = FreeSlot(b.free_order_), !.free_order_ = index]

(* cancel() of the order at `index`; submit drops a filled maker the same  *)
(* way but for the order of two independent steps.                         *)
DropOrder(b, index) ==
  LET gone == free_order_slot(
                erase_order_lookup(unlink(b, index), b.orders_[index].id), index)
  IN  [gone EXCEPT !.active_orders_ = @ - 1]

(* A call's new book and what it returns. *)
Return(b, outcome) == [book |-> b, result |-> outcome]

cancel(b, id) ==
  LET index == find_order_index(b, id)
  IN  IF index = npos THEN Return(b, "OrderNotFound")
                      ELSE Return(DropOrder(b, index), "Applied")

rest_order(b, id, side, price, quantity) ==
  IF quantity = 0 THEN Return(b, "InvalidQuantity")
  ELSE IF find_order_index(b, id) # npos THEN Return(b, "DuplicateOrderId")
  ELSE IF b.free_order_ = npos THEN Return(b, "CapacityExhausted")
  ELSE
    LET acquired == acquire_level(b, side, price)
        index == b.free_order_
        order == [id |-> id, price |-> price, quantity |-> quantity,
                  priority |-> b.next_priority_, level |-> acquired.level,
                  side |-> side, active |-> TRUE, prev |-> npos, next |-> npos]
        linked == link_tail([acquired.book EXCEPT
                               !.free_order_ = b.orders_[index].next_free,
                               !.orders_[index] = order,
                               !.next_priority_ = @ + 1],
                            index, acquired.level)
    IN
    IF acquired.level = npos THEN Return(acquired.book, "CapacityExhausted")
    ELSE IF CanInsert(b.order_lookup_, OrderHash[id], TRUE)
      THEN Return([linked EXCEPT
                     !.order_lookup_ = insert(@, OrderHash[id], id, index, TRUE),
                     !.active_orders_ = @ + 1], "Applied")
      ELSE Return(free_order_slot(unlink(linked, index), index),
                  "CapacityExhausted")

modify(b, id, side, price, quantity) ==
  LET index == find_order_index(b, id)
      order == b.orders_[index]
      in_place == [b EXCEPT
        !.levels_[order.level].total_quantity = @ - order.quantity + quantity,
        !.orders_[index].quantity = quantity]
      target == find_level_index(b, side, price)
      acquired == acquire_level(unlink(b, index), side, price)
      moved == [acquired.book EXCEPT
        !.orders_[index] = [@ EXCEPT !.side = side, !.price = price,
                                     !.quantity = quantity,
                                     !.priority = b.next_priority_,
                                     !.level = acquired.level],
        !.next_priority_ = @ + 1]
  IN
  IF quantity = 0 THEN Return(b, "InvalidQuantity")
  ELSE IF index = npos THEN Return(b, "OrderNotFound")
  ELSE IF order.side = side /\ order.price = price
    THEN Return(in_place, "Applied")
  ELSE IF /\ target = npos /\ b.free_level_ = npos
          /\ b.levels_[order.level].order_count > 1
    THEN Return(b, "CapacityExhausted")
  ELSE IF acquired.level = npos
    THEN Return(acquired.book, "CapacityExhausted")   \* order unlinked already
  ELSE Return(link_tail(moved, index, acquired.level), "Applied")

(* Trade and Reduce events. *)
trade(b, id, quantity) ==
  LET index == find_order_index(b, id)
      order == b.orders_[index]
  IN
  IF quantity = 0 THEN Return(b, "InvalidQuantity")
  ELSE IF index = npos THEN Return(b, "OrderNotFound")
  ELSE IF quantity > order.quantity THEN Return(b, "InvalidQuantity")
  ELSE IF quantity = order.quantity THEN cancel(b, id)
  ELSE Return([b EXCEPT
                 !.orders_[index].quantity = @ - quantity,
                 !.levels_[order.level].total_quantity = @ - quantity],
              "Applied")

(* Mutant: the order is canceled before the new one is checked. *)
replace_CancelsFirst(b, id, new_id, price, quantity) ==
  LET index == find_order_index(b, id) IN
  IF index = npos THEN Return(b, "OrderNotFound")
  ELSE rest_order(cancel(b, id).book, new_id, b.orders_[index].side, price,
                  quantity)

replace(b, id, new_id, price, quantity) ==
  LET index == find_order_index(b, id) IN
  IF quantity = 0 THEN Return(b, "InvalidQuantity")
  ELSE IF index = npos THEN Return(b, "OrderNotFound")
  ELSE IF new_id # id /\ find_order_index(b, new_id) # npos
    THEN Return(b, "DuplicateOrderId")
  ELSE rest_order(cancel(b, id).book, new_id, b.orders_[index].side, price,
                  quantity)

-----------------------------------------------------------------------------
(* Apply mode: process_event, one action per EventType. *)

Idle == result # "matching" /\ fills' = <<>> /\ UNCHANGED taker

Call(returned) == LET r == returned IN book' = r.book /\ result' = r.result

Add(id, side, price, quantity) ==
  /\ Idle /\ book.next_priority_ < MaxPriority
  /\ Call(rest_order(book, id, side, price, quantity))

Modify(id, side, price, quantity) ==
  /\ Idle /\ book.next_priority_ < MaxPriority
  /\ Call(modify(book, id, side, price, quantity))

Cancel(id) == Idle /\ Call(cancel(book, id))

Trade(id, quantity) == Idle /\ Call(trade(book, id, quantity))

Replace(id, new_id, price, quantity) ==
  /\ Idle /\ book.next_priority_ < MaxPriority
  /\ Call(replace(book, id, new_id, price, quantity))

-----------------------------------------------------------------------------
(* Match mode: submit.  One SubmitFill is one turn of the inner loop: with *)
(* order_index at npos it first fetches the best level, as the outer loop  *)
(* does.                                                                   *)

ladder_top(b, side) ==
  IF Size(b.ladder[side]) = 0 THEN npos ELSE b.ladder[side].heap[0]

(* Mutant: levels that do not cross count too. *)
fillable_quantity_WholeSide(b, request) ==
  LET heap == b.ladder[Opposite(request.side)].heap
      total(i) == b.levels_[heap[i]].total_quantity
  IN  MapThenSumSet(total, DOMAIN heap)

fillable_quantity(b, request) ==
  LET heap == b.ladder[Opposite(request.side)].heap
      total(i) == IF crosses(request, b.levels_[heap[i]].price)
                    THEN b.levels_[heap[i]].total_quantity ELSE 0
  IN  MapThenSumSet(total, DOMAIN heap)

SubmitCheck(request) ==
  IF request.quantity = 0 THEN "RejectedInvalid"
  ELSE IF MayRest(request) /\ find_order_index(book, request.id) # npos
    THEN "RejectedDuplicate"
  ELSE IF /\ request.tif = "FOK"
          /\ fillable_quantity(book, request) < request.quantity
    THEN "RejectedFOK"
  ELSE "matching"

SubmitCancel(id) ==
  /\ Idle
  /\ LET r == cancel(book, id) IN
     /\ book' = r.book
     /\ result' = IF r.result = "Applied" THEN "Canceled" ELSE "RejectedInvalid"

SubmitBegin(request) ==
  /\ result # "matching"
  /\ book.next_priority_ < MaxPriority /\ book.fill_sequence_ < MaxFill
  /\ LET check == SubmitCheck(request) IN
     /\ result' = check
     /\ taker' = IF check = "matching"
                   THEN [request |-> request, remaining |-> request.quantity,
                          level_index |-> npos, order_index |-> npos]
                   ELSE NoTaker
  /\ fills' = <<>>
  /\ UNCHANGED book

(* The level the loop is in, or the one the outer loop fetches; npos when  *)
(* the outer loop breaks.                                                  *)
CurrentLevel ==
  LET top == ladder_top(book, Opposite(taker.request.side)) IN
  IF taker.order_index # npos THEN taker.level_index
  ELSE IF top # npos /\ crosses(taker.request, book.levels_[top].price)
    THEN top ELSE npos

SubmitFill ==
  /\ result = "matching" /\ taker.remaining > 0 /\ CurrentLevel # npos
  /\ LET level == CurrentLevel
         index == IF taker.order_index # npos THEN taker.order_index
                                              ELSE book.levels_[level].head
         maker == book.orders_[index]
         traded == Min({taker.remaining, maker.quantity})
         sent == [book EXCEPT !.fill_sequence_ = @ + 1]
     IN
     /\ fills' = Append(fills, [taker_id |-> taker.request.id,
                                maker_id |-> maker.id,
                                taker_side |-> taker.request.side,
                                price |-> book.levels_[level].price,
                                quantity |-> traded,
                                sequence |-> book.fill_sequence_])
     /\ taker' = [taker EXCEPT
                    !.remaining = @ - traded,
                    !.level_index = level,
                    !.order_index = IF traded = maker.quantity THEN maker.next
                                                               ELSE index]
     /\ book' = IF traded = maker.quantity THEN DropOrder(sent, index)
                ELSE [sent EXCEPT !.orders_[index].quantity = @ - traded,
                                  !.levels_[level].total_quantity = @ - traded]
  /\ UNCHANGED result

(* Mutant: what rest_order returns is not looked at. *)
SubmitEnd_RefusalIgnored ==
  /\ result = "matching"
  /\ taker.remaining = 0 \/ CurrentLevel = npos
  /\ LET request == taker.request IN
     /\ result' = IF taker.remaining = 0 THEN "FilledComplete"
                  ELSE IF MayRest(request)
                    THEN IF taker.remaining = request.quantity
                           THEN "RestedNoFill" ELSE "PartialFillRested"
                  ELSE IF taker.remaining = request.quantity
                    THEN "NoFillKilled" ELSE "PartialFillKilled"
     /\ book' = IF taker.remaining > 0 /\ MayRest(request)
                  THEN rest_order(book, request.id, request.side,
                                  request.price, taker.remaining).book
                  ELSE book
  /\ taker' = NoTaker
  /\ UNCHANGED fills

SubmitEnd ==
  /\ result = "matching"
  /\ taker.remaining = 0 \/ CurrentLevel = npos
  /\ LET request == taker.request
         unfilled == taker.remaining = request.quantity
         rested == rest_order(book, request.id, request.side, request.price,
                              taker.remaining)
     IN
     /\ result' = IF taker.remaining = 0 THEN "FilledComplete"
                  ELSE IF ~MayRest(request)
                    THEN IF unfilled THEN "NoFillKilled" ELSE "PartialFillKilled"
                  ELSE IF rested.result = "CapacityExhausted"
                    THEN "RejectedCapacity"
                  ELSE IF unfilled THEN "RestedNoFill" ELSE "PartialFillRested"
     /\ book' = IF taker.remaining > 0 /\ MayRest(request)
                  THEN rested.book ELSE book
  /\ taker' = NoTaker
  /\ UNCHANGED fills

-----------------------------------------------------------------------------
ApplyNext ==
  \E id \in OrderId :
    \/ Cancel(id)
    \/ \E quantity \in Quantity : Trade(id, quantity)
    \/ \E price \in Price, quantity \in Quantity :
         \/ \E side \in Side : \/ Add(id, side, price, quantity)
                               \/ Modify(id, side, price, quantity)
         \/ \E new_id \in OrderId : Replace(id, new_id, price, quantity)

MatchNext == \/ SubmitFill
             \/ SubmitEnd
             \/ \E id \in OrderId : SubmitCancel(id)
             \/ \E request \in Requests : SubmitBegin(request)

(* The programs use a book in one mode. *)
ApplySpec == Init /\ [][ApplyNext]_vars
MatchSpec == Init /\ [][MatchNext]_vars

-----------------------------------------------------------------------------
ActiveOrders == {i \in Slots : book.orders_[i].active}
ActiveLevels == {l \in Slots : book.levels_[l].active}

(* The free list of a pool runs through exactly the slots of S. *)
FreeList(pool, first, S) ==
  \E list \in [1 .. Cardinality(S) -> S] :
    \A i \in 0 .. Cardinality(S) :
      (IF i = 0 THEN first ELSE pool[list[i]].next_free) =
        IF i = Cardinality(S) THEN npos ELSE list[i + 1]

(* Neither pool leaks: every slot is either active or on the free list,    *)
(* and active_orders_ counts.  No level is active without an order, so a   *)
(* free order slot guarantees a free level slot.                           *)
PoolsOK ==
  /\ FreeList(book.orders_, book.free_order_, Slots \ ActiveOrders)
  /\ FreeList(book.levels_, book.free_level_, Slots \ ActiveLevels)
  /\ book.active_orders_ = Cardinality(ActiveOrders)
  /\ ActiveLevels = {book.orders_[i].level : i \in ActiveOrders}

Queue(l) == {i \in ActiveOrders : book.orders_[i].level = l}

(* The first of a set of orders by time priority; npos of the empty set.   *)
Earliest(S) ==
  IF S = {} THEN npos
  ELSE CHOOSE i \in S :
         \A j \in S : book.orders_[i].priority <= book.orders_[j].priority

Behind(i) == {j \in Queue(book.orders_[i].level) :
                book.orders_[j].priority > book.orders_[i].priority}

(* Every active level's intrusive list is its orders in time priority,     *)
(* linked both ways, and its count and total are those of the list.        *)
LevelsOK ==
  \A l \in ActiveLevels :
    LET level == book.levels_[l] IN
    /\ level.head = Earliest(Queue(l))
    /\ level.order_count = Cardinality(Queue(l))
    /\ level.total_quantity =
         SumFunction([i \in Queue(l) |-> book.orders_[i].quantity])
    /\ \A i \in Queue(l) :
         LET order == book.orders_[i] IN
         /\ order.side = level.side /\ order.price = level.price
         /\ order.quantity > 0
         /\ order.next = Earliest(Behind(i))
         /\ IF order.next = npos THEN level.tail = i
                                 ELSE book.orders_[order.next].prev = i
         /\ level.head = i => order.prev = npos

(* Both lookup tables know exactly the active orders and levels, by id and *)
(* by side and price: one slot each, found in spite of collisions and      *)
(* tombstones.                                                             *)
LookupOK ==
  /\ \A id \in OrderId, i \in Slots :
       find_order_index(book, id) = i
         <=> i \in ActiveOrders /\ book.orders_[i].id = id
  /\ \A side \in Side, price \in Price, l \in Slots :
       find_level_index(book, side, price) = l
         <=> /\ l \in ActiveLevels
             /\ book.levels_[l].side = side /\ book.levels_[l].price = price

(* Each side's ladder holds exactly that side's active levels, every       *)
(* back-pointer is right, and the top is the best price.                   *)
LaddersOK ==
  \A side \in Side :
    LET ladder == book.ladder[side]
        levels == {l \in ActiveLevels : book.levels_[l].side = side}
    IN
    /\ DOMAIN ladder.heap = 0 .. Cardinality(levels) - 1
    /\ DOMAIN ladder.heap_pos = levels
    /\ \A l \in levels :
         /\ ladder.heap[ladder.heap_pos[l]] = l
         /\ l # ladder.heap[0] =>
              ladder_before(side, LevelPrice(book), ladder.heap[0], l)

(* The four structures agree on one set of orders, after every call and    *)
(* between the fills of a submit, where the FillSink may look: a slot that *)
(* is active in a pool is on exactly one level's list, in both tables and  *)
(* on its side's ladder, and a free one is in none of them.                *)
StructureOK == PoolsOK /\ LevelsOK /\ LookupOK /\ LaddersOK

(* A refused event changes nothing: Replace is an "atomic cancel of        *)
(* order_id then add new_order_id" (MarketDataEvent.hpp:17), and modify's  *)
(* CapacityExhausted after the unlink is "unreachable after precheck"      *)
(* (OrderBook.cpp:84).                                                     *)
RefusedEventChangesNothing ==
  [][result' \in ProcessResult \ {"Applied"} => book' = book]_vars

-----------------------------------------------------------------------------
(* The orders the book holds, by id. *)
Resting ==
  LET active == ActiveOrders
      slot(id) == CHOOSE i \in active : book.orders_[i].id = id
  IN  [id \in {book.orders_[i].id : i \in active} |->
         LET order == book.orders_[slot(id)]
         IN  [side |-> order.side, price |-> order.price,
              quantity |-> order.quantity, priority |-> order.priority]]

Promise == INSTANCE PriceTimeBook WITH
             resting <- Resting,
             next_priority_ <- book.next_priority_,
             fill_sequence_ <- book.fill_sequence_,
             used_slots <- Cardinality({s \in TableSlots :
                                          book.level_lookup_[s] # Empty}),
             taker <- IF result = "matching"
                        THEN [request |-> taker.request,
                              remaining |-> taker.remaining]
                        ELSE [remaining |-> 0]

(* The pools, lists, tables and heaps behave as a plain map of orders with *)
(* the same results and fills, call by call: the refinement the repository *)
(* tests by comparing OrderBook with ReferenceBook and ReferenceMatcher on *)
(* random streams.                                                         *)
ImplementsPriceTimeBook == Promise!Spec
=============================================================================
