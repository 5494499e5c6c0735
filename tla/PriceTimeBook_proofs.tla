------------------------ MODULE PriceTimeBook_proofs ------------------------
(***************************************************************************)
(* For every capacity and every set of ids, prices and quantities: time    *)
(* priority is strict, a capacity refusal is clean, submit() never crosses *)
(* the book, its fills come best first, and FillOrKill is all or nothing.  *)
(*                                                                         *)
(* That a taker which has traded is refused by a saturated level table     *)
(* only is not inductive: it rests on what happened at the last fill.  The *)
(* strengthening RoomAfterFill says that a taker which has traded and is   *)
(* not yet filled has left the book with a free slot.  FreshTaker carries  *)
(* the duplicate check made before the first fill to the moment the        *)
(* remainder rests.                                                        *)
(*                                                                         *)
(* That fills come best first rests on what was left behind: RankInv says  *)
(* that the fills of a call are the taker's own, numbered without a gap,   *)
(* and that whoever is still there is no better than the last maker.  That *)
(* a FillOrKill order is filled rests on the sum the pre-scan made before  *)
(* the first fill: at each fill what is offered shrinks by what is filled. *)
(***************************************************************************)
EXTENDS PriceTimeBook, Sums_proofs, TLAPS

(* What holds of the resting orders alone when n is the next priority. *)
BookOK(book, n) ==
  /\ IsFiniteSet(DOMAIN book)
  /\ DOMAIN book \subseteq OrderId
  /\ book \in [DOMAIN book -> Order]
  /\ Cardinality(DOMAIN book) <= Capacity
  /\ \A i, j \in DOMAIN book :
       /\ book[i].priority < n
       /\ book[i].priority = book[j].priority => i = j

RoomAfterFill ==
  Matching /\ fills # <<>> /\ taker.remaining > 0
    => Cardinality(DOMAIN resting) < Capacity

FreshTaker ==
  Matching /\ MayRest(taker.request) => taker.request.id \notin DOMAIN resting

Inv == /\ TypeOK
       /\ BookOK(resting, next_priority_)
       /\ RoomAfterFill
       /\ FreshTaker
       /\ CapacityRefusalIsClean

-----------------------------------------------------------------------------
(* Facts about the book operations. *)

(* Inserting an order behind every other keeps the book well formed and *)
(* adds one to its size.                                                *)
LEMMA InsertOK ==
  ASSUME NEW book, NEW n \in Nat, BookOK(book, n), ~Full(book),
         NEW id \in OrderId, id \notin DOMAIN book,
         NEW order \in Order, order.priority = n
  PROVE  BookOK(Insert(book, id, order), n + 1)
<1> DEFINE new == Insert(book, id, order)
<1>1. DOMAIN new = DOMAIN book \cup {id}
  BY DEF Insert
<1>2. /\ IsFiniteSet(DOMAIN new)
      /\ Cardinality(DOMAIN new) = Cardinality(DOMAIN book) + 1
      /\ Cardinality(DOMAIN book) \in Nat
  BY <1>1, FS_AddElement, FS_CardinalityType DEF BookOK
<1>3. Cardinality(DOMAIN new) <= Capacity
  BY <1>2, BookAssumption DEF Full
<1>4. /\ new[id] = order
      /\ \A i \in DOMAIN book : new[i] = book[i] /\ book[i] \in Order
  BY DEF Insert, BookOK
<1>5. new \in [DOMAIN new -> Order]
  BY <1>1, <1>4 DEF Insert
<1>6. \A i \in DOMAIN book : book[i].priority < n /\ book[i].priority \in Nat
  BY <1>4 DEF BookOK, Order
<1>7. \A i, j \in DOMAIN new :
        /\ new[i].priority < n + 1
        /\ new[i].priority = new[j].priority => i = j
  BY <1>1, <1>4, <1>6 DEF BookOK
<1> QED
  BY <1>1, <1>2, <1>3, <1>5, <1>7 DEF BookOK

(* Removing an order keeps the book well formed and frees one place. *)
LEMMA RemoveOK ==
  ASSUME NEW book, NEW n \in Nat, BookOK(book, n), NEW id \in DOMAIN book
  PROVE  /\ BookOK(Remove(book, id), n)
         /\ Cardinality(DOMAIN Remove(book, id)) < Capacity
<1> DEFINE new == Remove(book, id)
<1>1. DOMAIN new = DOMAIN book \ {id}
  BY DEF Remove
<1>2. /\ IsFiniteSet(DOMAIN new)
      /\ Cardinality(DOMAIN new) = Cardinality(DOMAIN book) - 1
      /\ Cardinality(DOMAIN book) \in Nat
  BY <1>1, FS_RemoveElement, FS_CardinalityType DEF BookOK
<1>3. Cardinality(DOMAIN new) < Capacity
  BY <1>2, BookAssumption DEF BookOK
<1>4. \A i \in DOMAIN new : new[i] = book[i] /\ book[i] \in Order
  BY <1>1 DEF Remove, BookOK
<1>5. new \in [DOMAIN new -> Order]
  BY <1>1, <1>4 DEF Remove
<1>6. \A i, j \in DOMAIN new :
        /\ new[i].priority < n
        /\ new[i].priority = new[j].priority => i = j
  BY <1>1, <1>4 DEF BookOK
<1> QED
  BY <1>1, <1>2, <1>3, <1>5, <1>6, BookAssumption, FS_CardinalityType
     DEF BookOK

(* Changing only the quantity of an order keeps the book well formed. *)
LEMMA QuantityOK ==
  ASSUME NEW book, NEW n \in Nat, BookOK(book, n), NEW id \in DOMAIN book,
         NEW quantity \in Nat \ {0}
  PROVE  BookOK([book EXCEPT ![id].quantity = quantity], n)
<1> DEFINE new == [book EXCEPT ![id].quantity = quantity]
<1>1. DOMAIN new = DOMAIN book
  OBVIOUS
<1>2. \A i \in DOMAIN book : book[i] \in Order
  BY DEF BookOK
<1>3. \A i \in DOMAIN book : new[i] \in Order /\ new[i].priority = book[i].priority
  BY <1>2 DEF Order
<1>4. new \in [DOMAIN new -> Order]
  BY <1>1, <1>3
<1> QED
  BY <1>1, <1>3, <1>4 DEF BookOK

(* Overwriting an order by one with the newest priority keeps the book *)
(* well formed.                                                        *)
LEMMA MoveOK ==
  ASSUME NEW book, NEW n \in Nat, BookOK(book, n), NEW id \in DOMAIN book,
         NEW order \in Order, order.priority = n
  PROVE  BookOK([book EXCEPT ![id] = order], n + 1)
<1> DEFINE new == [book EXCEPT ![id] = order]
<1>1. DOMAIN new = DOMAIN book
  OBVIOUS
<1>2. \A i \in DOMAIN book : /\ book[i] \in Order
                             /\ new[i] = IF i = id THEN order ELSE book[i]
  BY DEF BookOK
<1>3. new \in [DOMAIN new -> Order]
  BY <1>1, <1>2
<1>4. \A i \in DOMAIN book : book[i].priority < n /\ book[i].priority \in Nat
  BY <1>2 DEF BookOK, Order
<1>5. \A i, j \in DOMAIN new :
        /\ new[i].priority < n + 1
        /\ new[i].priority = new[j].priority => i = j
  BY <1>1, <1>2, <1>4 DEF BookOK
<1> QED
  BY <1>1, <1>3, <1>5 DEF BookOK

-----------------------------------------------------------------------------
(* The invariant is preserved, operation by operation. *)

(* The empty book satisfies Inv. *)
LEMMA InvInit == Init => Inv
<1> SUFFICES ASSUME Init PROVE Inv
  OBVIOUS
<1>1. /\ DOMAIN resting = {}
      /\ resting \in [DOMAIN resting -> Order]
      /\ IsFiniteSet(DOMAIN resting)
      /\ Cardinality(DOMAIN resting) = 0
  BY FS_EmptySet DEF Init
<1>2. BookOK(resting, next_priority_)
  BY <1>1, BookAssumption DEF BookOK
<1> QED
  BY <1>1, <1>2 DEF Init, Inv, TypeOK, RoomAfterFill, FreshTaker, CapacityRefusalIsClean,
                    Matching, ProcessResult

(* A call that emits no fill and leaves submit() only has to keep the book. *)
LEMMA CallKeepsInv ==
  ASSUME Inv, Idle,
         result' \in ProcessResult \cup SubmitResult,
         next_priority_' \in Nat, used_slots' \in Nat,
         BookOK(resting', next_priority_')
  PROVE  Inv'
BY DEF Inv, Idle, TypeOK, BookOK, RoomAfterFill, FreshTaker, CapacityRefusalIsClean,
       Matching, ProcessResult, SubmitResult

(* The order built for a well-formed event is an order, newer than all *)
(* others.                                                             *)
LEMMA NewOrderType ==
  ASSUME next_priority_ \in Nat, NEW side \in Side, NEW price \in Price,
         NEW quantity \in Nat \ {0}
  PROVE  /\ NewOrder(side, price, quantity) \in Order
         /\ NewOrder(side, price, quantity).priority = next_priority_
BY InputAssumption DEF NewOrder, Order

(* The count of used slots stays a number. *)
LEMMA UsedNat ==
  ASSUME used_slots \in Nat, NEW book, NEW side, NEW price,
         acquire_level(book, side, price)
  PROVE  used_slots' \in Nat
BY DEF acquire_level, UsedAfter

(* rest_order() keeps the book well formed, whether it rests the order *)
(* or refuses.                                                         *)
LEMMA RestOrderOK ==
  ASSUME NEW book, NEW id \in OrderId, NEW side \in Side, NEW price \in Price,
         NEW quantity \in Quantity, next_priority_ \in Nat, used_slots \in Nat,
         BookOK(book, next_priority_),
         rest_order(book, id, side, price, quantity)
  PROVE  /\ result' \in ProcessResult
         /\ next_priority_' \in Nat /\ used_slots' \in Nat
         /\ BookOK(resting', next_priority_')
<1>1. CASE RestOutcome(book, id, side, price, quantity) = "Applied"
  <2>1. quantity \in Nat \ {0} /\ id \notin DOMAIN book /\ ~Full(book)
    BY <1>1, InputAssumption DEF RestOutcome
  <2>2. BookOK(Insert(book, id, NewOrder(side, price, quantity)),
               next_priority_ + 1)
    BY <2>1, NewOrderType, InsertOK
  <2> QED
    BY <1>1, <2>2, UsedNat DEF rest_order, ProcessResult
<1>2. CASE RestOutcome(book, id, side, price, quantity) # "Applied"
  BY <1>2 DEF rest_order, RestOutcome, ProcessResult
<1> QED
  BY <1>1, <1>2

(* An Add event keeps Inv. *)
LEMMA AddInv ==
  ASSUME Inv, NEW id \in OrderId, NEW side \in Side, NEW price \in Price,
         NEW quantity \in Quantity, Add(id, side, price, quantity)
  PROVE  Inv'
BY RestOrderOK, CallKeepsInv DEF Add, Inv, TypeOK

(* A Modify event keeps Inv: in place or at the tail of the new level. *)
LEMMA ModifyInv ==
  ASSUME Inv, NEW id \in OrderId, NEW side \in Side, NEW price \in Price,
         NEW quantity \in Quantity, Modify(id, side, price, quantity)
  PROVE  Inv'
<1>1. next_priority_ \in Nat /\ used_slots \in Nat /\ BookOK(resting, next_priority_)
  BY DEF Inv, TypeOK
<1>2. CASE quantity = 0 \/ id \notin DOMAIN resting
  BY <1>1, <1>2, CallKeepsInv DEF Modify, Refuse, ProcessResult
<1>3. CASE /\ quantity # 0 /\ id \in DOMAIN resting
           /\ resting[id].side = side /\ resting[id].price = price
  <2>1. BookOK([resting EXCEPT ![id].quantity = quantity], next_priority_)
    BY <1>1, <1>3, QuantityOK, InputAssumption
  <2> QED
    BY <1>1, <1>3, <2>1, CallKeepsInv DEF Modify, ProcessResult
<1>4. CASE /\ quantity # 0 /\ id \in DOMAIN resting
           /\ ~(resting[id].side = side /\ resting[id].price = price)
  <2>1. BookOK([resting EXCEPT ![id] = NewOrder(side, price, quantity)],
               next_priority_ + 1)
    BY <1>1, <1>4, NewOrderType, MoveOK, InputAssumption
  <2> QED
    BY <1>1, <1>4, <2>1, UsedNat, CallKeepsInv DEF Modify, ProcessResult
<1> QED
  BY <1>2, <1>3, <1>4

(* A Cancel keeps Inv, sent as an event or through submit(). *)
LEMMA CancelInv ==
  ASSUME Inv, NEW id \in OrderId, Cancel(id) \/ SubmitCancel(id)
  PROVE  Inv'
<1>1. next_priority_ \in Nat /\ used_slots \in Nat /\ BookOK(resting, next_priority_)
  BY DEF Inv, TypeOK
<1>2. CASE id \notin DOMAIN resting
  BY <1>1, <1>2, CallKeepsInv
     DEF Cancel, SubmitCancel, Refuse, ProcessResult, SubmitResult
<1>3. CASE id \in DOMAIN resting
  <2>1. BookOK(Remove(resting, id), next_priority_)
    BY <1>1, <1>3, RemoveOK
  <2> QED
    BY <1>1, <1>3, <2>1, CallKeepsInv
       DEF Cancel, SubmitCancel, ProcessResult, SubmitResult
<1> QED
  BY <1>2, <1>3

(* A Trade event keeps Inv: it reduces the order or removes it. *)
LEMMA TradeInv ==
  ASSUME Inv, NEW id \in OrderId, NEW quantity \in Quantity,
         Trade(id, quantity)
  PROVE  Inv'
<1>1. next_priority_ \in Nat /\ used_slots \in Nat /\ BookOK(resting, next_priority_)
  BY DEF Inv, TypeOK
<1>2. CASE UNCHANGED <<resting, next_priority_, used_slots>>
  BY <1>1, <1>2, CallKeepsInv DEF Trade, Refuse, ProcessResult
<1>3. CASE ~UNCHANGED <<resting, next_priority_, used_slots>>
  <2>1. /\ id \in DOMAIN resting /\ quantity # 0
        /\ ~(quantity > resting[id].quantity)
        /\ result' = "Applied" /\ UNCHANGED <<next_priority_, used_slots>>
        /\ resting' = IF quantity = resting[id].quantity
                        THEN Remove(resting, id)
                        ELSE [resting EXCEPT ![id].quantity = @ - quantity]
        /\ Idle
    BY <1>3 DEF Trade, Refuse
  <2>2. resting[id].quantity \in Nat /\ quantity \in Nat
    BY <1>1, <2>1, InputAssumption DEF BookOK, Order
  <2>3. CASE quantity = resting[id].quantity
    BY <1>1, <2>1, <2>3, RemoveOK, CallKeepsInv DEF ProcessResult
  <2>4. CASE quantity # resting[id].quantity
    <3> DEFINE left == resting[id].quantity - quantity
    <3>1. left \in Nat \ {0}
      BY <2>1, <2>2, <2>4
    <3>2. resting' = [resting EXCEPT ![id].quantity = left]
      BY <2>1, <2>4
    <3> HIDE DEF left
    <3>3. BookOK([resting EXCEPT ![id].quantity = left], next_priority_)
      BY <1>1, <2>1, <3>1, QuantityOK
    <3> QED
      BY <1>1, <2>1, <3>2, <3>3, CallKeepsInv DEF ProcessResult
  <2> QED
    BY <2>3, <2>4
<1> QED
  BY <1>2, <1>3

(* A Replace event keeps Inv: the cancelled order has freed the place *)
(* it needs.                                                          *)
LEMMA ReplaceInv ==
  ASSUME Inv, NEW id \in OrderId, NEW new_id \in OrderId, NEW price \in Price,
         NEW quantity \in Quantity, Replace(id, new_id, price, quantity)
  PROVE  Inv'
<1>1. next_priority_ \in Nat /\ used_slots \in Nat /\ BookOK(resting, next_priority_)
  BY DEF Inv, TypeOK
<1>2. CASE \/ quantity = 0 \/ id \notin DOMAIN resting
           \/ new_id # id /\ new_id \in DOMAIN resting
  BY <1>1, <1>2, CallKeepsInv DEF Replace, Refuse, ProcessResult
<1>3. CASE ~(\/ quantity = 0 \/ id \notin DOMAIN resting
             \/ new_id # id /\ new_id \in DOMAIN resting)
  <2>1. resting[id].side \in Side /\ BookOK(Remove(resting, id), next_priority_)
    BY <1>1, <1>3, RemoveOK DEF BookOK, Order
  <2>2. rest_order(Remove(resting, id), new_id, resting[id].side, price,
                   quantity)
    BY <1>3 DEF Replace
  <2>3. /\ result' \in ProcessResult /\ next_priority_' \in Nat /\ used_slots' \in Nat
        /\ BookOK(resting', next_priority_')
    BY <1>1, <2>1, <2>2, RestOrderOK
  <2> QED
    BY <2>3, CallKeepsInv DEF Replace
<1> QED
  BY <1>2, <1>3

(* Nothing but the returned value and the taker changes, and a request     *)
(* that starts to match has emitted no fill.                               *)
LEMMA SubmitBeginInv ==
  ASSUME Inv, NEW request \in Requests, SubmitBegin(request)
  PROVE  Inv'
<1>1. /\ request \in OrderRequest
      /\ request.quantity \in Nat
  BY InputAssumption DEF OrderRequest
<1>2. result' = "matching" => taker' \in Taker
  BY <1>1 DEF SubmitBegin, SubmitCheck, Taker
<1>3. result' \in SubmitResult \cup {"matching"}
  BY DEF SubmitBegin, SubmitCheck, SubmitResult
<1>4. FreshTaker'
  BY DEF SubmitBegin, SubmitCheck, FreshTaker, Matching
<1> QED
  BY <1>2, <1>3, <1>4 DEF SubmitBegin, Inv, TypeOK, BookOK, RoomAfterFill,
                    CapacityRefusalIsClean, Matching

(* One fill.  When the taker is not yet filled the maker is, and is gone:  *)
(* that is the free slot of RoomAfterFill.                                 *)
LEMMA SubmitFillInv ==
  ASSUME Inv, SubmitFill
  PROVE  Inv'
<1>1. /\ next_priority_ \in Nat /\ fill_sequence_ \in Nat
      /\ BookOK(resting, next_priority_)
      /\ taker \in Taker /\ taker.remaining > 0
      /\ fills \in Seq(Fill)
  BY DEF Inv, TypeOK, SubmitFill, Matching
<1> PICK m \in DOMAIN resting :
      LET traded == IF taker.remaining < resting[m].quantity
                      THEN taker.remaining ELSE resting[m].quantity
      IN
      /\ fills' = Append(fills, [taker_id |-> taker.request.id,
                                 maker_id |-> m,
                                 taker_side |-> taker.request.side,
                                 price |-> resting[m].price,
                                 quantity |-> traded,
                                 sequence |-> fill_sequence_])
      /\ fill_sequence_' = fill_sequence_ + 1
      /\ taker' = [taker EXCEPT !.remaining = @ - traded]
      /\ resting' = IF traded = resting[m].quantity
                      THEN Remove(resting, m)
                      ELSE [resting EXCEPT ![m].quantity = @ - traded]
  BY DEF SubmitFill
<1> DEFINE traded == IF taker.remaining < resting[m].quantity
                       THEN taker.remaining ELSE resting[m].quantity
           fill == [taker_id |-> taker.request.id, maker_id |-> m,
                    taker_side |-> taker.request.side,
                    price |-> resting[m].price, quantity |-> traded,
                    sequence |-> fill_sequence_]
<1>2. /\ m \in OrderId /\ resting[m] \in Order
      /\ resting[m].quantity \in Nat \ {0} /\ resting[m].price \in Int
      /\ taker.remaining \in Nat
      /\ taker.request.id \in OrderId /\ taker.request.side \in Side
  BY <1>1 DEF BookOK, Order, Taker, OrderRequest
<1>3. traded \in Nat /\ taker.remaining - traded \in Nat
  BY <1>2
<1>4. fills' \in Seq(Fill)
  <2>1. fill \in Fill
    BY <1>1, <1>2, <1>3 DEF Fill
  <2>2. fills' = Append(fills, fill)
    OBVIOUS
  <2> QED
    BY <1>1, <2>1, <2>2
<1>5. taker' \in Taker /\ taker'.remaining = taker.remaining - traded
  BY <1>1, <1>3 DEF Taker
<1>6. /\ BookOK(resting', next_priority_)
      /\ taker'.remaining > 0 => Cardinality(DOMAIN resting') < Capacity
  <2>1. CASE traded = resting[m].quantity
    BY <1>1, <2>1, RemoveOK
  <2>2. CASE traded # resting[m].quantity
    <3> DEFINE left == resting[m].quantity - traded
    <3>1. left \in Nat \ {0} /\ traded = taker.remaining
      BY <1>2, <2>2
    <3>2. resting' = [resting EXCEPT ![m].quantity = left]
      BY <2>2
    <3>3. ~(taker'.remaining > 0)
      BY <1>2, <1>5, <3>1
    <3> HIDE DEF left, traded
    <3>4. BookOK([resting EXCEPT ![m].quantity = left], next_priority_)
      BY <1>1, <3>1, QuantityOK
    <3> QED
      BY <3>2, <3>3, <3>4
  <2> QED
    BY <2>1, <2>2
<1>7. /\ UNCHANGED <<next_priority_, used_slots, result>> /\ result = "matching"
      /\ fill_sequence_' \in Nat /\ used_slots \in Nat
  BY <1>1 DEF SubmitFill, Inv, TypeOK
<1>8. FreshTaker'
  <2>1. taker'.request = taker.request
    BY <1>1 DEF Taker
  <2>2. DOMAIN resting' \subseteq DOMAIN resting
    BY DEF Remove
  <2> QED
    BY <1>7, <2>1, <2>2 DEF Inv, FreshTaker, Matching
<1> HIDE DEF traded, fill
<1> QED
  BY <1>1, <1>4, <1>5, <1>6, <1>7, <1>8
     DEF Inv, TypeOK, BookOK, RoomAfterFill, CapacityRefusalIsClean, Matching

(* The end of submit(): a remainder that finds no order slot has not      *)
(* traded.                                                                *)
LEMMA SubmitEndInv ==
  ASSUME Inv, SubmitEnd
  PROVE  Inv'
<1> DEFINE request == taker.request
           rests == /\ taker.remaining > 0 /\ MayRest(request) /\ ~Full(resting)
                    /\ ~LevelRefused(resting, request.side, request.price)
<1>1. /\ next_priority_ \in Nat /\ fill_sequence_ \in Nat /\ used_slots \in Nat
      /\ BookOK(resting, next_priority_)
      /\ taker \in Taker /\ result = "matching"
      /\ fills \in Seq(Fill)
      /\ UNCHANGED <<fill_sequence_, fills>>
  BY DEF Inv, TypeOK, SubmitEnd, Matching
<1>2. /\ request \in OrderRequest /\ taker.remaining \in Nat
      /\ request.id \in OrderId /\ request.side \in Side
      /\ request.price \in Price
  BY <1>1 DEF Taker, OrderRequest
<1>3. result' \in SubmitResult /\ result' # "matching"
  BY DEF SubmitEnd, SubmitResult
<1>4. CapacityRefusalIsClean'
  <2> SUFFICES ASSUME result' = "RejectedCapacity", fills # <<>>
               PROVE  Saturated(used_slots, Capacity)' /\ ~Full(resting)'
    BY <1>1 DEF CapacityRefusalIsClean
  <2>1. /\ taker.remaining > 0 /\ MayRest(request) /\ ~rests
        /\ UNCHANGED <<resting, used_slots>>
    BY <1>2 DEF SubmitEnd
  <2>2. ~Full(resting)
    BY <1>1, <2>1, BookAssumption, FS_CardinalityType
       DEF Full, BookOK, Inv, RoomAfterFill, Matching
  <2>3. Saturated(used_slots, Capacity)
    BY <2>1, <2>2 DEF LevelRefused
  <2> QED
    BY <2>1, <2>2, <2>3 DEF Saturated, Full
<1>5. next_priority_' \in Nat /\ used_slots' \in Nat /\ BookOK(resting', next_priority_')
  <2>1. CASE rests
    <3>1. request.id \notin DOMAIN resting
      BY <1>1, <2>1 DEF Inv, FreshTaker, Matching
    <3> QED
      BY <1>1, <1>2, <2>1, <3>1, NewOrderType, InsertOK, UsedNat DEF SubmitEnd
  <2>2. CASE ~rests
    BY <1>1, <2>2 DEF SubmitEnd
  <2> QED
    BY <2>1, <2>2
<1> QED
  BY <1>1, <1>3, <1>4, <1>5
     DEF Inv, TypeOK, BookOK, RoomAfterFill, FreshTaker, Matching

(* Every step of the book keeps Inv. *)
LEMMA InvNext == Inv /\ [Next]_vars => Inv'
<1> SUFFICES ASSUME Inv, [Next]_vars PROVE Inv'
  OBVIOUS
<1>1. CASE ApplyNext
  BY <1>1, AddInv, ModifyInv, CancelInv, TradeInv, ReplaceInv DEF ApplyNext
<1>2. CASE MatchNext
  BY <1>2, CancelInv, SubmitBeginInv, SubmitFillInv, SubmitEndInv DEF MatchNext
<1>3. CASE UNCHANGED vars
  BY <1>3 DEF vars, Inv, TypeOK, BookOK, RoomAfterFill, FreshTaker,
              CapacityRefusalIsClean, Matching
<1> QED
  BY <1>1, <1>2, <1>3 DEF Next

(* The strengthened invariant holds of every behaviour of the book. *)
THEOREM Invariant == Spec => []Inv
BY InvInit, InvNext, PTL DEF Spec

(* Type correctness of the book, in both modes. *)
THEOREM TypeCorrect == Spec => []TypeOK
<1>1. Inv => TypeOK
  BY DEF Inv
<1> QED
  BY <1>1, Invariant, PTL

(* No more than max_orders orders rest and no two share a time priority,   *)
(* whatever mix of events and submissions led there.                       *)
THEOREM StrictPriority == Spec => []PriorityIsStrict
<1>1. Inv => PriorityIsStrict
  BY DEF Inv, BookOK, PriorityIsStrict
<1> QED
  BY <1>1, Invariant, PTL

(* submit() returns RejectedCapacity only when it has emitted no fill, or  *)
(* when the level table is saturated while an order slot is free.          *)
THEOREM CleanCapacityRefusal == Spec => []CapacityRefusalIsClean
<1>1. Inv => CapacityRefusalIsClean
  BY DEF Inv
<1> QED
  BY <1>1, Invariant, PTL

-----------------------------------------------------------------------------
(* Removing orders and changing quantities cannot cross a book. *)
LEMMA ShrinkKeepsUncrossed ==
  ASSUME Uncrossed, DOMAIN resting' \subseteq DOMAIN resting,
         \A i \in DOMAIN resting' : /\ resting'[i].side = resting[i].side
                                    /\ resting'[i].price = resting[i].price
  PROVE  Uncrossed'
BY DEF Uncrossed

(* A remainder rests only when nothing on the other side crosses it. *)
LEMMA RestKeepsUncrossed ==
  ASSUME Inv, Uncrossed, SubmitEnd
  PROVE  Uncrossed'
<1> DEFINE request == taker.request
<1>1. /\ BookOK(resting, next_priority_)
      /\ request \in OrderRequest /\ request.side \in Side
      /\ request.price \in Int
  BY InputAssumption
     DEF Inv, TypeOK, SubmitEnd, Matching, Taker, OrderRequest
<1>2. CASE UNCHANGED resting
  BY <1>2 DEF Uncrossed
<1>3. CASE ~UNCHANGED resting
  <2> DEFINE order == NewOrder(request.side, request.price, taker.remaining)
  <2>1. /\ resting' = Insert(resting, request.id, order)
        /\ Makers(request) = {}
        /\ request.order_type = "Limit"
    BY <1>3 DEF SubmitEnd, MayRest
  <2>2. /\ DOMAIN resting' = DOMAIN resting \cup {request.id}
        /\ \A i \in DOMAIN resting' :
             resting'[i] = IF i = request.id THEN order ELSE resting[i]
    BY <2>1 DEF Insert
  <2>3. order.side = request.side /\ order.price = request.price
    BY DEF NewOrder
  <2>4. \A i \in DOMAIN resting :
          /\ resting[i].price \in Int
          /\ resting[i].side = Opposite(request.side)
               => IF request.side = "Buy" THEN request.price < resting[i].price
                                          ELSE request.price > resting[i].price
    BY <1>1, <2>1 DEF Makers, crosses, BookOK, Order
  <2> HIDE DEF order
  <2> QED
    BY <1>1, <2>2, <2>3, <2>4 DEF Uncrossed, Opposite, Side
<1> QED
  BY <1>2, <1>3

(* No step of match mode crosses an uncrossed book. *)
THEOREM NeverCrosses == Spec => SubmitNeverCrosses
<1>1. ASSUME Inv, [Next]_vars
      PROVE  [Uncrossed /\ result' \in SubmitResult \cup {"matching"}
                => Uncrossed']_vars
  <2> SUFFICES ASSUME Uncrossed, result' \in SubmitResult \cup {"matching"},
                      Next
               PROVE  Uncrossed'
    BY <1>1
  <2>1. CASE ApplyNext
    <3>1. result' \in ProcessResult
      BY <2>1, <1>1 DEF ApplyNext, Add, Modify, Cancel, Trade, Replace, Refuse,
                   rest_order, RestOutcome, ProcessResult
    <3> QED
      BY <3>1 DEF ProcessResult, SubmitResult
  <2>2. CASE \E id \in OrderId : SubmitCancel(id)
    BY <2>2, ShrinkKeepsUncrossed DEF SubmitCancel, Remove
  <2>3. CASE \E request \in Requests : SubmitBegin(request)
    BY <2>3 DEF SubmitBegin, Uncrossed
  <2>4. CASE SubmitFill
    <3>1. BookOK(resting, next_priority_)
      BY <1>1 DEF Inv
    <3>2. PICK m \in DOMAIN resting :
            \/ resting' = Remove(resting, m)
            \/ \E left : resting' = [resting EXCEPT ![m].quantity = left]
      BY <2>4 DEF SubmitFill
    <3>3. /\ DOMAIN resting' \subseteq DOMAIN resting
          /\ \A i \in DOMAIN resting' :
               /\ resting'[i].side = resting[i].side
               /\ resting'[i].price = resting[i].price
      BY <3>1, <3>2 DEF Remove, BookOK, Order
    <3> QED
      BY <3>3, ShrinkKeepsUncrossed
  <2>5. CASE SubmitEnd
    BY <1>1, <2>5, RestKeepsUncrossed
  <2> QED
    BY <2>1, <2>2, <2>3, <2>4, <2>5 DEF Next, MatchNext
<1> QED
  BY <1>1, Invariant, PTL DEF Spec, SubmitNeverCrosses

-----------------------------------------------------------------------------
(* The fills of a submission.  FillsAreBestFirst looks at every fill since *)
(* submit() began, so its induction needs what the taker has not forgotten *)
(* of them (OfTaker): whose they are, that their makers are gone while the *)
(* taker is hungry, and that none was the taker's own id; LastSequence     *)
(* ties the counter to the last fill.                                      *)

OfTaker ==
  Matching =>
    \A i \in DOMAIN fills :
      /\ fills[i].taker_side = taker.request.side
      /\ MayRest(taker.request) => fills[i].maker_id # taker.request.id
      /\ taker.remaining > 0 => fills[i].maker_id \notin DOMAIN resting

LastSequence ==
  Matching /\ fills # <<>> => fills[Len(fills)].sequence + 1 = fill_sequence_

Better(side, p, q) == IF side = "Buy" THEN p < q ELSE p > q

Traded(m) == IF taker.remaining < resting[m].quantity
               THEN taker.remaining ELSE resting[m].quantity

FillOf(m) == [taker_id |-> taker.request.id, maker_id |-> m,
              taker_side |-> taker.request.side, price |-> resting[m].price,
              quantity |-> Traded(m), sequence |-> fill_sequence_]

(* What a step that fills against m does to the book. *)
BookAfter(m) ==
  /\ DOMAIN resting' \subseteq DOMAIN resting
  /\ \A i \in DOMAIN resting' : /\ resting'[i].side = resting[i].side
                                /\ resting'[i].price = resting[i].price
  /\ \A i \in DOMAIN resting \ {m} : i \in DOMAIN resting' /\ resting'[i] = resting[i]
  /\ \/ m \notin DOMAIN resting' /\ Traded(m) = resting[m].quantity
     \/ /\ m \in DOMAIN resting' /\ Traded(m) = taker.remaining
        /\ resting'[m].quantity = resting[m].quantity - Traded(m)

FillsAgainst(m) ==
  /\ BestMaker(taker.request, m)
  /\ FillOf(m) \in Fill /\ fills' = Append(fills, FillOf(m))
  /\ fill_sequence_' = fill_sequence_ + 1
  /\ taker'.request = taker.request
  /\ taker'.remaining = taker.remaining - Traded(m)
  /\ Traded(m) \in Nat \ {0} /\ Traded(m) <= taker.remaining
  /\ BookAfter(m)

(* A step of the matching loop fills against one maker, the best. *)
LEMMA FillStep ==
  ASSUME Inv, SubmitFill
  PROVE  \E m \in DOMAIN resting : FillsAgainst(m)
<1>1. /\ fill_sequence_ \in Nat /\ BookOK(resting, next_priority_)
      /\ taker \in Taker /\ taker.remaining > 0
  BY DEF Inv, TypeOK, SubmitFill, Matching
<1>2. PICK m \in DOMAIN resting :
        /\ BestMaker(taker.request, m)
        /\ fills' = Append(fills, FillOf(m))
        /\ fill_sequence_' = fill_sequence_ + 1
        /\ taker' = [taker EXCEPT !.remaining = @ - Traded(m)]
        /\ resting' = IF Traded(m) = resting[m].quantity
                        THEN Remove(resting, m)
                        ELSE [resting EXCEPT ![m].quantity = @ - Traded(m)]
  BY DEF SubmitFill, FillOf, Traded
<1>3. /\ m \in OrderId /\ \A i \in DOMAIN resting : resting[i] \in Order
      /\ resting[m].quantity \in Nat \ {0} /\ resting[m].price \in Int
      /\ taker.remaining \in Nat \ {0}
      /\ taker.request.id \in OrderId /\ taker.request.side \in Side
  BY <1>1 DEF BookOK, Order, Taker, OrderRequest
<1>4. /\ Traded(m) \in Nat \ {0} /\ Traded(m) <= taker.remaining
      /\ Traded(m) # resting[m].quantity => Traded(m) = taker.remaining
  BY <1>3 DEF Traded
<1>5. FillOf(m) \in Fill
  BY <1>1, <1>3, <1>4 DEF FillOf, Fill
<1>6. /\ taker'.request = taker.request
      /\ taker'.remaining = taker.remaining - Traded(m)
  BY <1>1, <1>2 DEF Taker
<1>7. BookAfter(m)
  <2>1. CASE Traded(m) = resting[m].quantity
    BY <1>2, <2>1 DEF BookAfter, Remove
  <2>2. CASE Traded(m) # resting[m].quantity
    BY <1>2, <1>3, <1>4, <2>2 DEF BookAfter, Order
  <2> QED  BY <2>1, <2>2
<1> QED  BY <1>2, <1>4, <1>5, <1>6, <1>7 DEF FillsAgainst

(* No order of the maker side is better priced than the best maker: one    *)
(* the taker crosses is behind it, one it does not cross is further away.  *)
LEMMA BestIsBest ==
  ASSUME Inv, Matching, NEW m \in DOMAIN resting, BestMaker(taker.request, m),
         NEW j \in DOMAIN resting,
         resting[j].side = Opposite(taker.request.side)
  PROVE  ~Better(taker.request.side, resting[j].price, resting[m].price)
<1>1. /\ resting[m].price \in Int /\ resting[j].price \in Int
      /\ taker.request.price \in Int /\ taker.request.side \in Side
  BY InputAssumption DEF Inv, TypeOK, Order, Taker, OrderRequest
<1>2. /\ resting[m].side = Opposite(taker.request.side)
      /\ crosses(taker.request, resting[m].price)
  BY DEF BestMaker, Makers
<1>3. CASE j = m
  BY <1>1, <1>3 DEF Better
<1>4. CASE j # m /\ crosses(taker.request, resting[j].price)
  <2>1. Ahead(resting[m], resting[j])
    BY <1>4 DEF BestMaker, Makers
  <2> QED  BY <1>1, <1>2, <2>1 DEF Ahead, Better, Opposite, Side
<1>5. CASE ~crosses(taker.request, resting[j].price)
  BY <1>1, <1>2, <1>5 DEF crosses, Better
<1> QED  BY <1>3, <1>4, <1>5

(* FillsAreBestFirst, with its comparison named. *)
FillRank(i) ==
  /\ \A j \in DOMAIN resting :
       resting[j].side = Opposite(fills[i].taker_side)
         => ~Better(fills[i].taker_side, resting[j].price, fills[i].price)
  /\ i < Len(fills) =>
       /\ ~Better(fills[i].taker_side, fills[i + 1].price, fills[i].price)
       /\ fills[i + 1].sequence = fills[i].sequence + 1
       /\ fills[i].maker_id \notin DOMAIN resting

(* FillsAreBestFirst, one fill at a time. *)
LEMMA BestFirstNamed == FillsAreBestFirst <=> \A i \in DOMAIN fills : FillRank(i)
  BY DEF FillsAreBestFirst, FillRank, Better

RankInv == OfTaker /\ LastSequence /\ FillsAreBestFirst

(* One fill. *)
LEMMA FillRanks ==
  ASSUME Inv, RankInv, SubmitFill
  PROVE  RankInv'
<1>1. /\ Matching /\ result' = result /\ fills \in Seq(Fill)
      /\ fill_sequence_ \in Nat /\ taker.remaining > 0 /\ taker.remaining \in Nat
      /\ \A i \in DOMAIN resting : resting[i] \in Order
  BY DEF Inv, TypeOK, SubmitFill, Matching, Taker
<1>2. PICK m \in DOMAIN resting : FillsAgainst(m)
  BY FillStep
<1> DEFINE n == Len(fills)
<1>3. /\ BestMaker(taker.request, m) /\ FillOf(m) \in Fill
      /\ fills' = Append(fills, FillOf(m))
      /\ taker'.request = taker.request /\ BookAfter(m)
      /\ taker'.remaining = taker.remaining - Traded(m) /\ Traded(m) \in Nat
  BY <1>2 DEF FillsAgainst
<1>4. /\ n \in Nat /\ DOMAIN fills = 1 .. n /\ DOMAIN fills' = 1 .. n + 1
      /\ Len(fills') = n + 1
      /\ \A i \in 1 .. n : fills'[i] = fills[i] /\ fills[i] \in Fill
      /\ fills'[n + 1] = FillOf(m)
  BY <1>1, <1>3
<1> HIDE DEF n
<1>5. /\ FillOf(m).taker_side = taker.request.side /\ FillOf(m).maker_id = m
      /\ FillOf(m).price = resting[m].price
      /\ FillOf(m).sequence = fill_sequence_
  BY DEF FillOf
<1>6. /\ DOMAIN resting' \subseteq DOMAIN resting
      /\ \A i \in DOMAIN resting' : /\ resting'[i].side = resting[i].side
                                    /\ resting'[i].price = resting[i].price
      /\ taker'.remaining > 0 => m \notin DOMAIN resting'
  BY <1>1, <1>3 DEF BookAfter
<1>7. OfTaker'
  <2> SUFFICES ASSUME NEW i \in 1 .. n + 1
               PROVE  /\ fills'[i].taker_side = taker'.request.side
                      /\ MayRest(taker'.request)
                           => fills'[i].maker_id # taker'.request.id
                      /\ taker'.remaining > 0
                           => fills'[i].maker_id \notin DOMAIN resting'
    BY <1>4 DEF OfTaker, MayRest
  <2>1. CASE i = n + 1
    <3>1. MayRest(taker.request) => m # taker.request.id
      BY <1>1 DEF Inv, FreshTaker
    <3> QED  BY <1>3, <1>4, <1>5, <1>6, <2>1, <3>1
  <2>2. CASE i \in 1 .. n
    <3>1. /\ fills[i].taker_side = taker.request.side
          /\ MayRest(taker.request) => fills[i].maker_id # taker.request.id
          /\ fills[i].maker_id \notin DOMAIN resting
      BY <1>1, <1>4, <2>2 DEF RankInv, OfTaker
    <3> QED  BY <1>3, <1>4, <1>6, <2>2, <3>1
  <2> QED  BY <1>4, <2>1, <2>2
<1>8. LastSequence'
  BY <1>3, <1>2, <1>4, <1>5 DEF LastSequence, FillsAgainst
<1>9. ASSUME NEW i \in 1 .. n + 1
      PROVE  /\ \A j \in DOMAIN resting' :
                  resting'[j].side = Opposite(fills'[i].taker_side)
                    => ~Better(fills'[i].taker_side, resting'[j].price,
                               fills'[i].price)
             /\ i < n + 1 =>
                  /\ ~Better(fills'[i].taker_side, fills'[i + 1].price,
                             fills'[i].price)
                  /\ fills'[i + 1].sequence = fills'[i].sequence + 1
                  /\ fills'[i].maker_id \notin DOMAIN resting'
  <2>1. CASE i = n + 1
    <3>1. fills'[i].taker_side = taker.request.side /\ fills'[i].price = resting[m].price
      BY <1>4, <1>5, <2>1
    <3>2. \A j \in DOMAIN resting : resting[j].side = Opposite(taker.request.side)
            => ~Better(taker.request.side, resting[j].price, resting[m].price)
      BY <1>1, <1>3, BestIsBest
    <3> QED  BY <1>4, <1>6, <2>1, <3>1, <3>2
  <2>2. CASE i \in 1 .. n
    <3>1. FillRank(i) /\ fills[i].taker_side = taker.request.side
          /\ fills[i].maker_id \notin DOMAIN resting
      BY <1>1, <1>4, <2>2, BestFirstNamed DEF RankInv, OfTaker
    <3>2. fills'[i] = fills[i]
      BY <1>4, <2>2
    <3>3. \A j \in DOMAIN resting' :
            resting'[j].side = Opposite(fills[i].taker_side)
              => ~Better(fills[i].taker_side, resting'[j].price, fills[i].price)
      BY <1>6, <3>1 DEF FillRank
    <3>4. CASE i = n
      <4>1. fills'[i + 1] = FillOf(m)
        BY <1>4, <3>4
      <4>2. resting[m].side = Opposite(fills[i].taker_side)
        BY <1>3, <3>1 DEF BestMaker, Makers
      <4>3. ~Better(fills[i].taker_side, resting[m].price, fills[i].price)
        BY <3>1, <4>2 DEF FillRank
      <4>4. fills[i].sequence + 1 = fill_sequence_
        BY <1>1, <1>4, <2>2, <3>4 DEF RankInv, LastSequence, n
      <4> QED  BY <1>5, <1>6, <3>1, <3>2, <3>3, <4>1, <4>3, <4>4
    <3>5. CASE i # n
      <4>1. i < n /\ fills'[i + 1] = fills[i + 1]
        BY <1>4, <2>2, <3>5
      <4> QED  BY <1>4, <1>6, <3>1, <3>2, <3>3, <4>1 DEF FillRank, n
    <3> QED  BY <3>4, <3>5
  <2> QED  BY <1>4, <2>1, <2>2
<1>10. FillsAreBestFirst'
  BY <1>4, <1>9 DEF FillsAreBestFirst, Better
<1> QED  BY <1>7, <1>8, <1>10 DEF RankInv

(* The end of submit(): what rests is the taker, on the taker's side and   *)
(* under an id that no maker had.                                          *)
LEMMA EndRanks ==
  ASSUME Inv, RankInv, SubmitEnd
  PROVE  RankInv'
<1>1. /\ Matching /\ result' # "matching" /\ fills' = fills /\ fills \in Seq(Fill)
      /\ taker \in Taker /\ taker.request.side \in Side
  BY DEF Inv, TypeOK, SubmitEnd, Matching, Taker, OrderRequest
<1>2. CASE resting' = resting
  BY <1>1, <1>2 DEF RankInv, OfTaker, LastSequence, Matching, FillsAreBestFirst
<1>3. CASE resting' # resting
  <2> DEFINE request == taker.request
             order == NewOrder(request.side, request.price, taker.remaining)
  <2>1. resting' = Insert(resting, request.id, order) /\ MayRest(request)
    BY <1>3 DEF SubmitEnd
  <2>2. /\ DOMAIN resting' = DOMAIN resting \cup {request.id}
        /\ \A j \in DOMAIN resting' :
             resting'[j] = IF j = request.id THEN order ELSE resting[j]
        /\ order.side = request.side
    BY <2>1 DEF Insert, NewOrder
  <2>3. Opposite(request.side) # request.side
    BY <1>1 DEF Opposite, Side
  <2> HIDE DEF order
  <2>4. ASSUME NEW i \in DOMAIN fills
        PROVE  /\ \A j \in DOMAIN resting' :
                    resting'[j].side = Opposite(fills[i].taker_side)
                      => ~Better(fills[i].taker_side, resting'[j].price,
                                 fills[i].price)
               /\ i < Len(fills) =>
                    /\ ~Better(fills[i].taker_side, fills[i + 1].price,
                               fills[i].price)
                    /\ fills[i + 1].sequence = fills[i].sequence + 1
                    /\ fills[i].maker_id \notin DOMAIN resting'
    <3>1. /\ FillRank(i) /\ fills[i].taker_side = request.side
          /\ fills[i].maker_id # request.id
      BY <1>1, <2>1, <2>4, BestFirstNamed DEF RankInv, OfTaker
    <3> QED  BY <2>2, <2>3, <3>1 DEF FillRank
  <2>5. FillsAreBestFirst'
    BY <1>1, <2>4 DEF FillsAreBestFirst, Better
  <2> QED  BY <1>1, <2>5 DEF RankInv, OfTaker, LastSequence, Matching
<1> QED  BY <1>2, <1>3

(* Every other call forgets the fills. *)
LEMMA NoFillsRank ==
  ASSUME fills' = <<>> PROVE RankInv'
  BY DEF RankInv, OfTaker, LastSequence, FillsAreBestFirst

(* Every step keeps the fills of the current call in rank. *)
LEMMA RankNext == Inv /\ RankInv /\ [Next]_vars => RankInv'
<1> SUFFICES ASSUME Inv, RankInv, [Next]_vars PROVE RankInv'
  OBVIOUS
<1>1. CASE ApplyNext
  BY <1>1, NoFillsRank DEF ApplyNext, Add, Modify, Cancel, Trade, Replace, Idle
<1>2. CASE MatchNext
  BY <1>2, NoFillsRank, FillRanks, EndRanks
     DEF MatchNext, SubmitCancel, SubmitBegin, Idle
<1>3. CASE UNCHANGED vars
  BY <1>3 DEF vars, RankInv, OfTaker, LastSequence, FillsAreBestFirst, Matching
<1> QED  BY <1>1, <1>2, <1>3 DEF Next

(* The FillSink sees price-time priority, for every book and every order. *)
THEOREM BestFirst == Spec => []FillsAreBestFirst
<1>1. Init => RankInv
  BY DEF Init, RankInv, OfTaker, LastSequence, FillsAreBestFirst
<1>2. RankInv => FillsAreBestFirst
  BY DEF RankInv
<1> QED  BY <1>1, <1>2, RankNext, Invariant, PTL DEF Spec

-----------------------------------------------------------------------------
(* Fill or kill.  A fill takes from the makers what it takes from the      *)
(* taker: either the maker goes, and the sum over the makers loses its     *)
(* whole term, or the term shrinks and the taker is done.                  *)

QuantityOf(book) == [i \in DOMAIN book |-> book[i].quantity]

QuantitiesOf(s) == [i \in DOMAIN s |-> s[i].quantity]

Offered(request) == SumFunctionOnSet(QuantityOf(resting), Makers(request))

(* FillOrKill with its sums named. *)
LEMMA FillOrKillNamed ==
  FillOrKill <=>
    (Matching => /\ taker.request.tif = "FOK"
                      => Offered(taker.request) >= taker.remaining
                 /\ SumFunction(QuantitiesOf(fills))
                      = taker.request.quantity - taker.remaining)
  BY DEF FillOrKill, fillable_quantity, Offered, QuantityOf, QuantitiesOf, Filled

(* The makers of a request are finitely many orders with a quantity. *)
LEMMA OfferedType ==
  ASSUME Inv, NEW request
  PROVE  /\ IsFiniteSet(Makers(request))
         /\ \A i \in Makers(request) : /\ i \in DOMAIN resting
                                       /\ QuantityOf(resting)[i] = resting[i].quantity
                                       /\ resting[i].quantity \in Nat \ {0}
         /\ Offered(request) \in Nat
<1>1. /\ IsFiniteSet(DOMAIN resting) /\ \A i \in DOMAIN resting : resting[i] \in Order
  BY DEF Inv, BookOK
<1>2. Makers(request) \subseteq DOMAIN resting
  BY DEF Makers
<1>3. IsFiniteSet(Makers(request))
  BY <1>1, <1>2, FS_Subset
<1>4. \A i \in Makers(request) : /\ i \in DOMAIN resting
                                 /\ QuantityOf(resting)[i] = resting[i].quantity
                                 /\ resting[i].quantity \in Nat \ {0}
  BY <1>1, <1>2 DEF QuantityOf, Order
<1>5. \A i \in Makers(request) : QuantityOf(resting)[i] \in Nat
  BY <1>4
<1> QED  BY <1>3, <1>4, <1>5, SumNat DEF Offered

(* What the fills add up to after one more. *)
LEMMA FilledSum ==
  ASSUME NEW s \in Seq(Fill), NEW e \in Fill
  PROVE  /\ SumFunction(QuantitiesOf(s)) \in Int
         /\ SumFunction(QuantitiesOf(Append(s, e)))
              = SumFunction(QuantitiesOf(s)) + e.quantity
<1>1. \A f \in Fill : f.quantity \in Int
  BY DEF Fill
<1>2. QuantitiesOf(s) \in Seq(Int) /\ DOMAIN QuantitiesOf(s) = 1 .. Len(s)
  BY <1>1 DEF QuantitiesOf
<1>3. IsFiniteSet(1 .. Len(s))
  BY FS_Interval
<1>4. \A i \in 1 .. Len(s) : QuantitiesOf(s)[i] \in Int
  BY <1>2
<1>5. SumFunction(QuantitiesOf(s)) \in Int
  BY <1>2, <1>3, <1>4, SumInt DEF SumFunction
<1>6. QuantitiesOf(Append(s, e)) = Append(QuantitiesOf(s), e.quantity)
  BY <1>1, <1>2 DEF QuantitiesOf
<1> QED  BY <1>1, <1>2, <1>5, <1>6, SumAppend

(* A fill takes what it trades from what the makers offer. *)
LEMMA OfferShrinks ==
  ASSUME Inv, Inv', NEW m \in DOMAIN resting, FillsAgainst(m)
  PROVE  Offered(taker.request)' = Offered(taker.request) - Traded(m)
<1> DEFINE R == taker.request
           S == Makers(R)
           f == QuantityOf(resting)
           g == QuantityOf(resting')
           Sn == {i \in DOMAIN resting' :
                    /\ resting'[i].side = Opposite(R.side)
                    /\ crosses(R, resting'[i].price)}
<1>1. /\ BestMaker(R, m) /\ taker'.request = R /\ BookAfter(m)
      /\ Traded(m) \in Nat
  BY DEF FillsAgainst
<1>2. /\ IsFiniteSet(S) /\ m \in S
      /\ \A i \in S : /\ i \in DOMAIN resting /\ f[i] = resting[i].quantity
                      /\ f[i] \in Nat /\ f[i] \in Int
  BY <1>1, OfferedType DEF BestMaker
<1>3. Offered(R) = SumFunctionOnSet(f, S)
  BY DEF Offered
<1>4. Offered(taker.request)' = SumFunctionOnSet(g, Sn)
  BY <1>1 DEF Offered, Makers, QuantityOf, crosses
<1>5. CASE m \notin DOMAIN resting'
  <2>1. Sn = S \ {m} /\ \A i \in S \ {m} : f[i] = g[i]
    BY <1>1, <1>5 DEF BookAfter, Makers, QuantityOf
  <2>2. IsFiniteSet(S \ {m})
    BY <1>2, FS_RemoveElement
  <2>3. Traded(m) = f[m]
    BY <1>1, <1>2, <1>5 DEF BookAfter
  <2> HIDE DEF S, f, g, Sn
  <2>4. SumFunctionOnSet(f, S) = f[m] + SumFunctionOnSet(f, S \ {m})
    BY <1>2, SumSplit
  <2>5. SumFunctionOnSet(f, S \ {m}) = SumFunctionOnSet(g, S \ {m})
    BY <2>1, <2>2, SumCong
  <2>6. SumFunctionOnSet(f, S \ {m}) \in Int
    BY <1>2, <2>2, SumInt
  <2>7. PICK rest \in Int : rest = SumFunctionOnSet(f, S \ {m})
    BY <2>6
  <2>8. SumFunctionOnSet(f, S) - f[m] = rest
    BY <1>2, <2>4, <2>7
  <2> QED  BY <1>3, <1>4, <2>1, <2>3, <2>5, <2>7, <2>8
<1>6. CASE m \in DOMAIN resting'
  <2>1. /\ Sn = S /\ \A i \in S \ {m} : f[i] = g[i]
        /\ g[m] = resting[m].quantity - Traded(m)
    BY <1>1, <1>2, <1>6 DEF BookAfter, Makers, QuantityOf
  <2>2. g[m] = f[m] - Traded(m) /\ \A i \in S : f[i] \in Int /\ g[i] \in Int
    BY <1>1, <1>2, <2>1
  <2>3. SumFunctionOnSet(f, S) \in Int
    BY <1>2, SumInt
  <2> HIDE DEF S, f, g, Sn
  <2>4. SumFunctionOnSet(g, S) = SumFunctionOnSet(f, S) - f[m] + g[m]
    BY <1>2, <2>1, <2>2, SumChange
  <2>5. PICK all \in Int : all = SumFunctionOnSet(f, S)
    BY <2>3
  <2>6. all - f[m] + g[m] = all - Traded(m)
    BY <1>1, <1>2, <2>2
  <2> QED  BY <1>3, <1>4, <2>1, <2>4, <2>5, <2>6
<1> QED  BY <1>5, <1>6

(* The pre-scan passes, or submit() ends at once. *)
LEMMA PrescanHolds ==
  ASSUME Inv, NEW request \in Requests, SubmitBegin(request)
  PROVE  FillOrKill'
<1> SUFFICES ASSUME result' = "matching" PROVE FillOrKill'
  BY DEF FillOrKill, Matching
<1>1. /\ SubmitCheck(request) = "matching" /\ fills' = <<>> /\ resting' = resting
      /\ taker' = [request |-> request, remaining |-> request.quantity]
  BY DEF SubmitBegin
<1>2. request.quantity \in Nat
  BY InputAssumption DEF OrderRequest
<1>3. fillable_quantity(request) = Offered(request) /\ Offered(request) \in Nat
  BY OfferedType DEF fillable_quantity, Offered, QuantityOf
<1>4. request.tif = "FOK" => Offered(request) >= request.quantity
  BY <1>1, <1>2, <1>3 DEF SubmitCheck
<1>5. fillable_quantity(taker.request)' = fillable_quantity(request)
  BY <1>1 DEF fillable_quantity, Makers
<1>6. SumFunction([i \in DOMAIN fills' |-> fills'[i].quantity]) = 0
  <2>1. DOMAIN [i \in DOMAIN fills' |-> fills'[i].quantity] = {}
    BY <1>1
  <2> QED  BY <2>1, SumEmpty DEF SumFunction
<1>7. taker'.request = request /\ taker'.remaining = request.quantity
  BY <1>1
<1> QED  BY <1>2, <1>3, <1>4, <1>5, <1>6, <1>7 DEF FillOrKill, Filled

(* A fill keeps what is left within reach and the books of the fills. *)
LEMMA FillKeepsReach ==
  ASSUME Inv, Inv', FillOrKill, SubmitFill
  PROVE  FillOrKill'
<1>1. /\ Matching /\ fills \in Seq(Fill) /\ taker.remaining \in Nat
      /\ taker.request.quantity \in Int
  BY InputAssumption DEF Inv, TypeOK, SubmitFill, Matching, Taker, OrderRequest
<1>2. PICK m \in DOMAIN resting : FillsAgainst(m)
  BY FillStep
<1>3. /\ FillOf(m) \in Fill /\ fills' = Append(fills, FillOf(m))
      /\ taker'.request = taker.request
      /\ taker'.remaining = taker.remaining - Traded(m) /\ Traded(m) \in Nat
      /\ FillOf(m).quantity = Traded(m)
  BY <1>2 DEF FillsAgainst, FillOf
<1>4. /\ taker.request.tif = "FOK" => Offered(taker.request) >= taker.remaining
      /\ SumFunction(QuantitiesOf(fills)) = taker.request.quantity - taker.remaining
  BY <1>1, FillOrKillNamed
<1>5. Offered(taker.request) \in Nat
  BY OfferedType
<1>6. taker'.request.tif = "FOK" => fillable_quantity(taker.request)' >= taker'.remaining
  <2>1. fillable_quantity(taker.request)' = Offered(taker.request) - Traded(m)
    <3>1. fillable_quantity(taker.request)' = Offered(taker.request)'
      BY DEF fillable_quantity, Offered, QuantityOf
    <3> QED  BY <1>2, <3>1, OfferShrinks
  <2> QED  BY <1>1, <1>3, <1>4, <1>5, <2>1
<1>7. SumFunction(QuantitiesOf(fills')) = taker'.request.quantity - taker'.remaining
  <2>1. SumFunction(QuantitiesOf(fills')) = SumFunction(QuantitiesOf(fills)) + Traded(m)
    BY <1>1, <1>3, FilledSum
  <2> QED  BY <1>1, <1>3, <1>4, <2>1
<1>8. SumFunction([i \in DOMAIN fills' |-> fills'[i].quantity])
        = taker'.request.quantity - taker'.remaining
  BY <1>7 DEF QuantitiesOf
<1> QED  BY <1>6, <1>8 DEF FillOrKill, Filled

(* Every step keeps FillOrKill. *)
LEMMA FillOrKillNext == Inv /\ Inv' /\ FillOrKill /\ [Next]_vars => FillOrKill'
<1> SUFFICES ASSUME Inv, Inv', FillOrKill, [Next]_vars PROVE FillOrKill'
  OBVIOUS
<1>1. ASSUME result' # "matching" PROVE FillOrKill'
  BY <1>1 DEF FillOrKill, Matching
<1>2. CASE ApplyNext
  <2>1. result' \in ProcessResult
    BY <1>2 DEF ApplyNext, Add, Modify, Cancel, Trade, Replace, Refuse,
                rest_order, RestOutcome, ProcessResult
  <2> QED  BY <1>1, <2>1 DEF ProcessResult
<1>3. CASE SubmitEnd \/ \E id \in OrderId : SubmitCancel(id)
  BY <1>1, <1>3 DEF SubmitEnd, SubmitCancel
<1>4. CASE SubmitFill \/ \E request \in Requests : SubmitBegin(request)
  BY <1>4, PrescanHolds, FillKeepsReach
<1>5. CASE UNCHANGED vars
  BY <1>5 DEF vars, FillOrKill, Matching, fillable_quantity, Makers, Filled
<1> QED  BY <1>2, <1>3, <1>4, <1>5 DEF Next, MatchNext

(* A fill-or-kill order that has begun to trade can always be filled, and  *)
(* the fills of any order sum to what it has lost.                         *)
THEOREM FilledOrKilled == Spec => []FillOrKill
<1>1. Init => FillOrKill
  BY DEF Init, FillOrKill, Matching
<1> QED  BY <1>1, FillOrKillNext, Invariant, PTL DEF Spec
=============================================================================
