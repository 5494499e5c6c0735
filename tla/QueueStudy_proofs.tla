------------------------- MODULE QueueStudy_proofs -------------------------
(***************************************************************************)
(* For every feed, every book size, every order size, timeout and set of   *)
(* multipliers, the displayed queue model follows the visible book, and    *)
(* the runs of different multipliers bound each other.                     *)
(*                                                                         *)
(* Neither property is inductive.  ahead_ is kept by a set of ids, the     *)
(* truth is a sum over what rests in front of us, so the invariant ties    *)
(* the two: what is in front of us is in the cohort, and, as long as the   *)
(* feed is in order, nothing else of the cohort rests (CohortOK).  Two     *)
(* runs are comparable because orders posted after the same event have the *)
(* same price and cohort, and less ahead for the smaller multiplier        *)
(* (BandOK).                                                               *)
(***************************************************************************)
EXTENDS QueueStudy, Sums_proofs

Entry == [side : {"Buy", "Sell"}, price : Int, quantity : Nat, priority : Nat]

GoodBook(b) ==
  /\ b = [resting |-> b.resting, next_priority_ |-> b.next_priority_,
            used_slots |-> b.used_slots]
  /\ b.next_priority_ \in Nat
  /\ IsFiniteSet(Ids(b)) /\ b.resting \in [Ids(b) -> Entry]
  /\ \A i \in Ids(b) : b.resting[i].priority < b.next_priority_

(* The orders of the level that came before the arrival. *)
Front(b, price, arrival) ==
  {i \in level_order_ids(b, side, price) : b.resting[i].priority < arrival}

(* The models whose price and cohort are given. *)
Models(price, cohort) ==
  [active : {TRUE}, price_ : {price}, ahead_ : Nat, filled_ : 0 .. size,
   cohort_ : {cohort}, arrival : Nat, orderly : BOOLEAN, reached : Nat]

GoodModel(model) == \E price, cohort : model \in Models(price, cohort)

RunsWith(model) ==
  [model : {model}, events_since_post : Nat, posted : Nat, full : Nat, any : Nat]

GoodRun(run) == \E model : /\ run \in RunsWith(model)
                           /\ model = NoModel \/ GoodModel(model)

-----------------------------------------------------------------------------
(* The rounding of the overflow. *)

Filled(filled, overflow) ==
  filled + (Smaller(overflow, Scale * (size - filled)) \div Scale)

(* Division rounds down. *)
LEMMA DivFloor ==
  ASSUME NEW x \in Nat
  PROVE  /\ x \div Scale \in Nat
         /\ Scale * (x \div Scale) <= x /\ x < Scale * (x \div Scale) + Scale
<1>1. Scale \in Nat /\ Scale > 0
  BY StudyAssumption
<1> QED  BY <1>1, SMT

(* A product with a smaller factor is smaller, and only then. *)
LEMMA ScaleOrder ==
  ASSUME NEW x \in Int, NEW y \in Int
  PROVE  /\ Scale * x \in Int
         /\ x < y => Scale * x + Scale <= Scale * y
         /\ x <= y => Scale * x <= Scale * y
<1>1. Scale \in Nat /\ Scale > 0
  BY StudyAssumption
<1>2. x < y => Scale * x + Scale <= Scale * y
  <2> SUFFICES ASSUME x < y PROVE Scale * x + Scale <= Scale * y
    OBVIOUS
  <2>1. y - x - 1 \in Nat /\ y = x + 1 + (y - x - 1)
    OBVIOUS
  <2>2. Scale * y = Scale * x + Scale + Scale * (y - x - 1)
    BY <1>1, SMT
  <2>3. Scale * (y - x - 1) \in Nat
    BY <1>1, <2>1, SMT
  <2> QED  BY <1>1, <2>2, <2>3, SMT
<1>3. Scale * x \in Int /\ Scale * y \in Int
  BY <1>1, SMT
<1> QED  BY <1>1, <1>2, <1>3, SMT

(* Division keeps the order, and undoes a multiplication. *)
LEMMA DivMono ==
  ASSUME NEW x \in Nat, NEW y \in Nat, x <= y
  PROVE  x \div Scale <= y \div Scale
<1> DEFINE a == x \div Scale
           b == y \div Scale
<1>1. Scale \in Nat /\ Scale > 0
  BY StudyAssumption
<1>2. a \in Nat /\ Scale * a <= x /\ b \in Nat /\ y < Scale * b + Scale
  BY DivFloor
<1> HIDE DEF a, b
<1>3. Scale * b \in Int /\ Scale * a \in Int /\ (b < a => Scale * b + Scale <= Scale * a)
  BY <1>2, ScaleOrder
<1>4. a <= b
  BY <1>1, <1>2, <1>3
<1> QED  BY <1>4 DEF a, b

(* A product with the scale divides back without a rest. *)
LEMMA DivScale ==
  ASSUME NEW r \in Nat
  PROVE  (Scale * r) \div Scale = r /\ Scale * r \in Nat
<1> DEFINE s == Scale * r
           d == s \div Scale
<1>1. Scale \in Nat /\ Scale > 0
  BY StudyAssumption
<1>2. s \in Nat
  BY <1>1, SMT
<1>3. d \in Nat /\ Scale * d <= s /\ s < Scale * d + Scale
  <2> HIDE DEF s
  <2> QED  BY <1>2, DivFloor
<1> HIDE DEF d
<1>4. /\ Scale * d \in Int /\ Scale * r \in Int
      /\ d < r => Scale * d + Scale <= Scale * r
      /\ r < d => Scale * r + Scale <= Scale * d
  BY <1>3, ScaleOrder
<1>5. d = r
  <2> DEFINE e == Scale * d
  <2>1. e \in Int /\ s \in Int /\ e <= s /\ s < e + Scale /\ (d < r => e + Scale <= s) /\ (r < d => s + Scale <= e)
    BY <1>3, <1>4
  <2> HIDE DEF e, s
  <2> QED  BY <1>1, <1>3, <2>1
<1> QED  BY <1>2, <1>5 DEF d

(* Whatever the overflow, an order is filled up to its size at most. *)
LEMMA FilledBounds ==
  ASSUME NEW filled \in 0 .. size, NEW overflow \in Nat
  PROVE  Filled(filled, overflow) \in filled .. size
<1> DEFINE room == size - filled
           s == Scale * room
           x == Smaller(overflow, s)
<1>1. room \in Nat /\ size \in Nat
  BY StudyAssumption
<1>2. s \in Nat /\ s \div Scale = room
  <2> HIDE DEF room
  <2> QED  BY <1>1, DivScale
<1>3. x \in Nat /\ x <= s
  <2> HIDE DEF s
  <2> QED  BY <1>2 DEF Smaller
<1>4. x \div Scale \in Nat /\ x \div Scale <= room
  <2> HIDE DEF x, s
  <2> QED  BY <1>2, <1>3, DivFloor, DivMono
<1>5. Filled(filled, overflow) = filled + (x \div Scale)
  BY DEF Filled
<1> DEFINE d == x \div Scale
<1>6. d \in Nat /\ d <= size - filled /\ Filled(filled, overflow) = filled + d
  BY <1>4, <1>5
<1> HIDE DEF d
<1> QED  BY <1>1, <1>6

(* More filled and more overflow make more filled. *)
LEMMA FilledMono ==
  ASSUME NEW f \in 0 .. size, NEW g \in 0 .. size, g <= f,
         NEW o \in Nat, NEW w \in Nat, w <= o
  PROVE  Filled(g, w) <= Filled(f, o)
<1> DEFINE s == Scale * (size - f)
           t == Scale * (size - g)
<1>1. size \in Nat /\ size - f \in Nat /\ size - g \in Nat
  BY StudyAssumption
<1>2. s \in Nat /\ s \div Scale = size - f /\ t \in Nat
  <2> DEFINE p == size - f
             q == size - g
  <2>1. p \in Nat /\ q \in Nat
    BY <1>1
  <2> HIDE DEF p, q
  <2>2. Scale * p \in Nat /\ (Scale * p) \div Scale = p /\ Scale * q \in Nat
    BY <2>1, DivScale
  <2> QED  BY <2>2 DEF p, q
<1>3. Filled(g, w) \in g .. size
  BY FilledBounds
<1>4. Filled(f, o) = f + (Smaller(o, s) \div Scale)
  BY DEF Filled
<1>5. Filled(g, w) = g + (Smaller(w, t) \div Scale)
  BY DEF Filled
<1> HIDE DEF s, t
<1>6. CASE ~(o < s)
  <2>1. Filled(f, o) = f + (size - f)
    BY <1>2, <1>4, <1>6 DEF Smaller
  <2> QED  BY <1>1, <1>3, <2>1
<1>7. CASE o < s
  <2>1. Smaller(o, s) = o /\ Smaller(w, t) \in Nat /\ Smaller(w, t) <= o
    BY <1>2, <1>7 DEF Smaller
  <2> DEFINE x == Smaller(w, t)
  <2> HIDE DEF x
  <2>2. x \in Nat /\ x <= o
    BY <2>1 DEF x
  <2>3. x \div Scale <= o \div Scale /\ x \div Scale \in Nat /\ o \div Scale \in Nat
    BY <2>2, DivMono, DivFloor
  <2> DEFINE c == x \div Scale
             d == o \div Scale
  <2>4. c <= d /\ c \in Nat /\ d \in Nat /\ Filled(f, o) = f + d /\ Filled(g, w) = g + c
    BY <1>4, <1>5, <2>1, <2>3 DEF x
  <2> HIDE DEF c, d
  <2> QED  BY <2>4
<1> QED  BY <1>6, <1>7

(* An overflow in whole units fills exactly that much, up to the size. *)
LEMMA FilledExact ==
  ASSUME NEW f \in 0 .. size, NEW q \in Nat
  PROVE  Filled(f, Scale * q) = Smaller(f + q, size)
<1> DEFINE r == size - f
<1>1. size \in Nat /\ r \in Nat
  BY StudyAssumption
<1>2. Filled(f, Scale * q) = f + (Smaller(Scale * q, Scale * r) \div Scale)
  BY DEF Filled
<1>3. Smaller(f + q, size) = f + Smaller(q, r)
  BY <1>1 DEF Smaller
<1> HIDE DEF r
<1>4. Smaller(Scale * q, Scale * r) = Scale * Smaller(q, r)
  <2>1. Scale * q \in Nat /\ Scale * r \in Nat /\ Scale \in Nat \ {0}
    BY <1>1, DivScale, StudyAssumption
  <2>2. q < r => Scale * q + Scale <= Scale * r
    BY <1>1, ScaleOrder
  <2>3. r <= q => Scale * r <= Scale * q
    BY <1>1, ScaleOrder
  <2> DEFINE x == Scale * q
             y == Scale * r
  <2> HIDE DEF x, y
  <2>4. Smaller(x, y) = IF q < r THEN x ELSE y
    <3>1. x \in Nat /\ y \in Nat /\ Scale \in Nat \ {0} /\ (q < r => x + Scale <= y) /\ (r <= q => y <= x)
      BY <2>1, <2>2, <2>3 DEF x, y
    <3> QED  BY <1>1, <3>1 DEF Smaller
  <2> QED  BY <2>4 DEF x, y, Smaller
<1>5. Smaller(q, r) \in Nat
  BY <1>1 DEF Smaller
<1>6. (Scale * Smaller(q, r)) \div Scale = Smaller(q, r)
  BY <1>5, DivScale
<1> QED  BY <1>2, <1>3, <1>4, <1>6

-----------------------------------------------------------------------------
(* What an event does to the book. *)

HasFields(event) ==
  /\ event.type \in {"Add", "Trade", "Reduce", "Cancel", "Replace"}
  /\ event.order_id \in OrderId /\ event.new_order_id \in OrderId
  /\ event.side \in {"Buy", "Sell"} /\ event.price_ticks \in Int
  /\ event.quantity \in Nat

(* The fields of an event. *)
LEMMA EventTypes ==
  ASSUME NEW event \in Events
  PROVE  /\ event.type \in {"Add", "Trade", "Reduce", "Cancel", "Replace"}
         /\ event.order_id \in OrderId /\ event.new_order_id \in OrderId
         /\ event.side \in {"Buy", "Sell"} /\ event.price_ticks \in Int
         /\ event.quantity \in Nat
<1> SUFFICES HasFields(event)
  BY DEF HasFields
<1> DEFINE Adds == {Fields("Add", i, i, s, p, q) :
                    i \in OrderId, s \in Sides, p \in Price, q \in Quantity}
           Trades == {Fields(t, i, i, side, 0, q) :
                    t \in {"Trade", "Reduce"}, i \in OrderId, q \in Quantity}
           Cancels == {Fields("Cancel", i, i, side, 0, 0) :
                    i \in OrderId}
           Replaces == {Fields("Replace", i, j, side, p, q) :
                    i, j \in OrderId, p \in Price, q \in Quantity}
<1>0. event \in Adds \cup Trades \cup Cancels \cup Replaces
  BY DEF Events
<1>1. ASSUME NEW type \in {"Add", "Trade", "Reduce", "Cancel", "Replace"},
             NEW i \in OrderId, NEW j \in OrderId, NEW s \in {"Buy", "Sell"},
             NEW p \in Int, NEW q \in Nat, event = Fields(type, i, j, s, p, q)
      PROVE  HasFields(event)
  BY <1>1 DEF Fields, HasFields
<1> HIDE DEF Adds, Trades, Cancels, Replaces
<1>2. CASE event \in Adds
  <2>1. PICK i \in OrderId, s \in Sides, p \in Price, q \in Quantity :
               event = Fields("Add", i, i, s, p, q)
    BY <1>2 DEF Adds
  <2> QED  BY <1>1, <2>1, StudyAssumption
<1>3. CASE event \in Trades
  <2>1. PICK t \in {"Trade", "Reduce"}, i \in OrderId, q \in Quantity :
               event = Fields(t, i, i, side, 0, q)
    BY <1>3 DEF Trades
  <2> QED  BY <1>1, <2>1, StudyAssumption
<1>4. CASE event \in Cancels
  <2>1. PICK i \in OrderId : event = Fields("Cancel", i, i, side, 0, 0)
    BY <1>4 DEF Cancels
  <2> QED  BY <1>1, <2>1, StudyAssumption
<1>5. CASE event \in Replaces
  <2>1. PICK i, j \in OrderId, p \in Price, q \in Quantity :
               event = Fields("Replace", i, j, side, p, q)
    BY <1>5 DEF Replaces
  <2> QED  BY <1>1, <2>1, StudyAssumption
<1> QED  BY <1>0, <1>2, <1>3, <1>4, <1>5

(* a is b with an order at the tail of its level. *)
Rested(b, id, a) ==
  /\ GoodBook(a)
  /\ Ids(a) = Ids(b) \cup {id}
  /\ a.next_priority_ = b.next_priority_ + 1
  /\ a.resting[id].priority = b.next_priority_
  /\ \A i \in Ids(b) \ {id} : a.resting[i] = b.resting[i]

(* rest_order puts an order behind all the others. *)
LEMMA RestOK ==
  ASSUME NEW b, GoodBook(b), NEW id, NEW s \in {"Buy", "Sell"}, NEW price \in Int,
         NEW quantity \in Nat, NEW a \in Rest(b, id, s, price, quantity)
  PROVE  Rested(b, id, a)
<1>0. PICK used : a = WithOrder(b, id, s, price, quantity, used)
  BY DEF Rest
<1>1. /\ a = [resting |-> a.resting, next_priority_ |-> a.next_priority_,
              used_slots |-> a.used_slots]
      /\ a.next_priority_ = b.next_priority_ + 1
  BY <1>0 DEF WithOrder
<1>2. Ids(a) = Ids(b) \cup {id}
  BY <1>0 DEF WithOrder, Ids
<1>3. /\ \A i \in Ids(b) \ {id} : a.resting[i] = b.resting[i]
      /\ a.resting[id] = [side |-> s, price |-> price, quantity |-> quantity,
                          priority |-> b.next_priority_]
      /\ a.resting = [i \in Ids(a) |-> a.resting[i]]
  BY <1>0, <1>2 DEF WithOrder
<1>4. b.next_priority_ \in Nat
  BY DEF GoodBook
<1>5. a.resting[id] \in Entry /\ a.resting[id].priority = b.next_priority_
  BY <1>3, <1>4 DEF Entry
<1>6. \A i \in Ids(b) : b.resting[i] \in Entry /\ b.resting[i].priority < b.next_priority_
  BY DEF GoodBook
<1>7. \A i \in Ids(a) : a.resting[i] \in Entry /\ a.resting[i].priority < a.next_priority_
  <2> SUFFICES ASSUME NEW i \in Ids(a)
               PROVE  a.resting[i] \in Entry /\ a.resting[i].priority < a.next_priority_
    OBVIOUS
  <2>1. CASE i = id
    BY <1>1, <1>4, <1>5, <2>1
  <2>2. CASE i # id
    <3>1. i \in Ids(b) /\ a.resting[i] = b.resting[i]
      BY <1>2, <1>3, <2>2
    <3>2. b.resting[i].priority \in Nat
      BY <1>6, <3>1 DEF Entry
    <3> QED  BY <1>1, <1>4, <1>6, <3>1, <3>2
  <2> QED  BY <2>1, <2>2
<1>8. IsFiniteSet(Ids(a))
  BY <1>2, FS_AddElement DEF GoodBook
<1>9. a.resting \in [Ids(a) -> Entry]
  BY <1>3, <1>7
<1>10. GoodBook(a)
  BY <1>1, <1>4, <1>7, <1>8, <1>9 DEF GoodBook
<1> QED  BY <1>1, <1>2, <1>3, <1>5, <1>10 DEF Rested

(* An order taken out. *)
LEMMA DropOK ==
  ASSUME NEW b, GoodBook(b), NEW id
  PROVE  LET a == Drop(b, id) IN
         /\ GoodBook(a)
         /\ Ids(a) = Ids(b) \ {id}
         /\ a.next_priority_ = b.next_priority_
         /\ \A i \in Ids(a) : a.resting[i] = b.resting[i]
<1> DEFINE a == Drop(b, id)
<1>0. b = [resting |-> b.resting, next_priority_ |-> b.next_priority_,
            used_slots |-> b.used_slots]
  BY DEF GoodBook
<1>1. a = [resting |-> [i \in Ids(b) \ {id} |-> b.resting[i]],
           next_priority_ |-> b.next_priority_, used_slots |-> b.used_slots]
  BY <1>0 DEF Drop, Ids
<1> HIDE DEF a
<1>2. /\ a = [resting |-> a.resting, next_priority_ |-> a.next_priority_,
            used_slots |-> a.used_slots]
      /\ a.next_priority_ = b.next_priority_
      /\ a.resting = [i \in Ids(b) \ {id} |-> b.resting[i]]
  BY <1>1
<1>3. Ids(a) = Ids(b) \ {id}
  BY <1>2 DEF Ids
<1>4. \A i \in Ids(a) : a.resting[i] = b.resting[i]
  BY <1>2, <1>3
<1>5. IsFiniteSet(Ids(a))
  BY <1>3, FS_RemoveElement DEF GoodBook
<1>6. a.resting \in [Ids(a) -> Entry]
  BY <1>2, <1>3 DEF GoodBook
<1>7. GoodBook(a)
  BY <1>2, <1>3, <1>4, <1>5, <1>6 DEF GoodBook
<1> QED  BY <1>2, <1>3, <1>4, <1>7 DEF a

(* An order reduced in place. *)
LEMMA ReduceOK ==
  ASSUME NEW b, GoodBook(b), NEW id \in Ids(b), NEW quantity \in Nat,
         quantity <= b.resting[id].quantity
  PROVE  LET a == [b EXCEPT !.resting[id].quantity = @ - quantity] IN
         /\ GoodBook(a)
         /\ Ids(a) = Ids(b)
         /\ a.next_priority_ = b.next_priority_
         /\ \A i \in Ids(a) \ {id} : a.resting[i] = b.resting[i]
         /\ a.resting[id].side = b.resting[id].side
         /\ a.resting[id].price = b.resting[id].price
         /\ a.resting[id].priority = b.resting[id].priority
         /\ a.resting[id].quantity = b.resting[id].quantity - quantity
<1> DEFINE a == [b EXCEPT !.resting[id].quantity = @ - quantity]
           e == [b.resting[id] EXCEPT !.quantity = @ - quantity]
<1>0. b = [resting |-> b.resting, next_priority_ |-> b.next_priority_,
            used_slots |-> b.used_slots]
  BY DEF GoodBook
<1>1. /\ a = [resting |-> a.resting, next_priority_ |-> a.next_priority_,
            used_slots |-> a.used_slots]
      /\ a.next_priority_ = b.next_priority_
      /\ a.resting = [b.resting EXCEPT ![id] = e]
  BY <1>0
<1>2. b.resting[id] \in Entry /\ b.resting \in [Ids(b) -> Entry]
  BY DEF GoodBook
<1>3. /\ e \in Entry /\ e.side = b.resting[id].side /\ e.price = b.resting[id].price
      /\ e.priority = b.resting[id].priority /\ e.quantity = b.resting[id].quantity - quantity
  BY <1>2 DEF Entry
<1> HIDE DEF a, e
<1>4. /\ Ids(a) = Ids(b) /\ a.resting \in [Ids(a) -> Entry] /\ a.resting[id] = e
      /\ \A i \in Ids(a) \ {id} : a.resting[i] = b.resting[i]
  BY <1>1, <1>2, <1>3 DEF Ids
<1>5. \A i \in Ids(a) : a.resting[i].priority < a.next_priority_
  BY <1>1, <1>3, <1>4 DEF GoodBook
<1>6. GoodBook(a)
  BY <1>1, <1>4, <1>5 DEF GoodBook
<1> QED  BY <1>1, <1>3, <1>4, <1>6 DEF a

(* What an event takes from the order it names. *)
Taken(b, event) ==
  IF event.type \in {"Trade", "Reduce"} THEN event.quantity
                                        ELSE b.resting[event.order_id].quantity

(* The event takes effect: it is applied, or it is a Replace that finds    *)
(* the level table saturated and has only cancelled.                       *)
Applies(b, event) ==
  \/ Outcome(b, event, max_orders) = "Applied"
  \/ /\ Outcome(b, event, max_orders) = "CapacityExhausted"
     /\ event.type = "Replace"

(* The orders an event does not name stay; what it brings is behind them;  *)
(* of the order it names it takes Taken, all of it or a part.              *)
Moved(b, event, a) ==
  LET id == event.order_id IN
  /\ a.next_priority_ >= b.next_priority_
  /\ \A i \in Ids(b) \ {id} : i \in Ids(a) /\ a.resting[i] = b.resting[i]
  /\ \A i \in Ids(a) :
       \/ i \in Ids(b) \ {id}
       \/ /\ a.resting[i].priority >= b.next_priority_
          /\ \/ event.type = "Add" /\ i = id
             \/ event.type = "Replace" /\ i = event.new_order_id
       \/ /\ i = id /\ id \in Ids(b)
          /\ a.resting[i].side = b.resting[i].side
          /\ a.resting[i].price = b.resting[i].price
          /\ a.resting[i].priority = b.resting[i].priority
  /\ ~Applies(b, event) => a = b
  /\ Applies(b, event) => (event.type = "Add" <=> id \notin Ids(b))
  /\ Applies(b, event) /\ id \in Ids(b) =>
       /\ Taken(b, event) <= b.resting[id].quantity
       /\ \/ /\ id \in Ids(a)
             /\ a.resting[id].side = b.resting[id].side
             /\ a.resting[id].price = b.resting[id].price
             /\ a.resting[id].priority = b.resting[id].priority
             /\ a.resting[id].quantity = b.resting[id].quantity - Taken(b, event)
          \/ /\ id \notin Ids(a) \/ a.resting[id].priority >= b.next_priority_
             /\ Taken(b, event) = b.resting[id].quantity

(* When an event takes effect. *)
LEMMA AppliedWhen ==
  ASSUME NEW b, NEW event \in Events, Applies(b, event)
  PROVE  /\ event.type = "Add" => event.order_id \notin Ids(b)
         /\ event.type # "Add" => event.order_id \in Ids(b)
         /\ event.type \in {"Trade", "Reduce"} =>
              ~(event.quantity > b.resting[event.order_id].quantity)
         /\ event.type = "Replace" => event.new_order_id \notin Ids(b) \ {event.order_id}
<1>1. event.type \in {"Add", "Trade", "Reduce", "Cancel", "Replace"}
  BY EventTypes
<1> QED  BY <1>1 DEF Applies, Outcome

(* process_event does what Moved says. *)
LEMMA BookStep ==
  ASSUME NEW b, GoodBook(b), NEW event \in Events,
         NEW a \in process_event(b, event, max_orders)
  PROVE  GoodBook(a) /\ Moved(b, event, a)
<1> DEFINE id == event.order_id
           outcome == Outcome(b, event, max_orders)
<1>0. /\ event.type \in {"Add", "Trade", "Reduce", "Cancel", "Replace"}
      /\ event.side \in {"Buy", "Sell"} /\ event.price_ticks \in Int /\ event.quantity \in Nat
  BY EventTypes
<1>1. /\ b.next_priority_ \in Nat
      /\ \A i \in Ids(b) : /\ b.resting[i] \in Entry /\ b.resting[i].quantity \in Nat
                            /\ b.resting[i].side \in {"Buy", "Sell"}
                            /\ b.resting[i].priority \in Nat
  BY DEF GoodBook, Entry
<1>2. CASE ~Applies(b, event)
  <2>1. a = b
    BY <1>2 DEF process_event, Applies
  <2>2. Moved(b, event, a)
    BY <1>1, <1>2, <2>1 DEF Moved
  <2> QED  BY <2>1, <2>2
<1>3. CASE Applies(b, event) /\ event.type = "Add"
  <2>1. a \in Rest(b, id, event.side, event.price_ticks, event.quantity)
    BY <1>3 DEF process_event, Applies
  <2>2. id \notin Ids(b)
    BY <1>3, AppliedWhen
  <2>3. /\ GoodBook(a) /\ Ids(a) = Ids(b) \cup {id} /\ a.next_priority_ = b.next_priority_ + 1
        /\ a.resting[id].priority = b.next_priority_
        /\ \A i \in Ids(b) \ {id} : a.resting[i] = b.resting[i]
    <3>1. Rested(b, id, a)
      BY <1>0, <2>1, RestOK
    <3> QED  BY <3>1 DEF Rested
  <2>4. Moved(b, event, a)
    BY <1>1, <1>3, <2>2, <2>3 DEF Moved
  <2> QED  BY <2>3, <2>4
<1>4. CASE outcome = "Applied" /\ event.type = "Replace"
  <2> DEFINE c == Drop(b, id)
             new == event.new_order_id
  <2>1. a \in Rest(c, new, b.resting[id].side, event.price_ticks, event.quantity)
    BY <1>4 DEF process_event, Applies
  <2>2. id \in Ids(b) /\ new \notin Ids(b) \ {id} /\ Applies(b, event)
    BY <1>4, AppliedWhen DEF Applies
  <2>3. /\ GoodBook(c) /\ Ids(c) = Ids(b) \ {id} /\ c.next_priority_ = b.next_priority_
        /\ \A i \in Ids(c) : c.resting[i] = b.resting[i]
    BY DropOK
  <2> HIDE DEF c, new
  <2>4. b.resting[id].side \in {"Buy", "Sell"}
    BY <1>1, <2>2
  <2>5. /\ GoodBook(a) /\ Ids(a) = Ids(c) \cup {new} /\ a.next_priority_ = c.next_priority_ + 1
        /\ a.resting[new].priority = c.next_priority_
        /\ \A i \in Ids(c) \ {new} : a.resting[i] = c.resting[i]
    <3>1. Rested(c, new, a)
      BY <1>0, <2>1, <2>3, <2>4, RestOK
    <3> QED  BY <3>1 DEF Rested
  <2>6. \A i \in Ids(b) \ {id} : i \in Ids(a) /\ a.resting[i] = b.resting[i]
    BY <2>2, <2>3, <2>5
  <2>7. \A i \in Ids(a) : i \in Ids(b) \ {id} \/ (i = new /\ a.resting[i].priority = b.next_priority_)
    BY <2>3, <2>5
  <2>8. Taken(b, event) = b.resting[id].quantity
    BY <1>4 DEF Taken
  <2>9. Moved(b, event, a)
    BY <1>1, <1>4, <2>2, <2>3, <2>5, <2>6, <2>7, <2>8 DEF Moved, new
  <2> QED  BY <2>5, <2>9
<1>5. CASE /\ Applies(b, event) /\ event.type \in {"Trade", "Reduce"}
           /\ event.quantity < b.resting[id].quantity
  <2>1. a = [b EXCEPT !.resting[id].quantity = @ - event.quantity]
    BY <1>5 DEF process_event, Applies
  <2>2. id \in Ids(b) /\ event.quantity <= b.resting[id].quantity /\ event.type # "Add"
    BY <1>0, <1>1, <1>5, AppliedWhen
  <2>3. /\ GoodBook(a) /\ Ids(a) = Ids(b) /\ a.next_priority_ = b.next_priority_
        /\ \A i \in Ids(a) \ {id} : a.resting[i] = b.resting[i]
        /\ a.resting[id].side = b.resting[id].side
        /\ a.resting[id].price = b.resting[id].price
        /\ a.resting[id].priority = b.resting[id].priority
        /\ a.resting[id].quantity = b.resting[id].quantity - event.quantity
    BY <1>0, <2>1, <2>2, ReduceOK
  <2>4. Taken(b, event) = event.quantity
    BY <1>5 DEF Taken
  <2>5. Moved(b, event, a)
    BY <1>1, <1>5, <2>2, <2>3, <2>4 DEF Moved
  <2> QED  BY <2>3, <2>5
<1>6. ASSUME a = Drop(b, id), Applies(b, event), id \in Ids(b), event.type # "Add",
             Taken(b, event) = b.resting[id].quantity
      PROVE  GoodBook(a) /\ Moved(b, event, a)
  <2>1. /\ GoodBook(a) /\ Ids(a) = Ids(b) \ {id} /\ a.next_priority_ = b.next_priority_
        /\ \A i \in Ids(a) : a.resting[i] = b.resting[i]
    BY <1>6, DropOK
  <2>2. Moved(b, event, a)
    BY <1>1, <1>6, <2>1 DEF Moved
  <2> QED  BY <2>1, <2>2
<1>7. CASE /\ outcome = "Applied" /\ event.type \in {"Trade", "Reduce", "Cancel"}
           /\ event.type = "Cancel" \/ ~(event.quantity < b.resting[id].quantity)
  <2>1. a = Drop(b, id)
    BY <1>7 DEF process_event
  <2>2. Applies(b, event) /\ id \in Ids(b) /\ event.type # "Add"
    BY <1>7, AppliedWhen DEF Applies
  <2>3. Taken(b, event) = b.resting[id].quantity
    BY <1>0, <1>1, <1>7, <2>2, AppliedWhen DEF Taken
  <2> QED  BY <1>6, <2>1, <2>2, <2>3
<1>8. CASE outcome = "CapacityExhausted" /\ event.type = "Replace"
  <2>1. a = Drop(b, id)
    BY <1>8 DEF process_event
  <2>2. Applies(b, event) /\ id \in Ids(b) /\ event.type # "Add"
    BY <1>8, AppliedWhen DEF Applies
  <2>3. Taken(b, event) = b.resting[id].quantity
    BY <1>8 DEF Taken
  <2> QED  BY <1>6, <2>1, <2>2, <2>3
<1> QED  BY <1>0, <1>2, <1>3, <1>4, <1>5, <1>7, <1>8 DEF Applies

(* Every order in front after an event was there before, and of those only *)
(* the one it names can be smaller or gone.                                *)
LEMMA FrontStep ==
  ASSUME NEW b, GoodBook(b), NEW a, NEW event \in Events, Moved(b, event, a),
         NEW price, NEW arrival \in Nat, arrival <= b.next_priority_, GoodBook(a)
  PROVE  /\ Front(a, price, arrival) \subseteq Front(b, price, arrival)
         /\ \A i \in Front(b, price, arrival) \ {event.order_id} :
              i \in Front(a, price, arrival) /\ a.resting[i] = b.resting[i]
         /\ Applies(b, event) /\ event.order_id \in Front(b, price, arrival) =>
              IF event.order_id \in Front(a, price, arrival)
                THEN a.resting[event.order_id].quantity =
                       b.resting[event.order_id].quantity - Taken(b, event)
                ELSE Taken(b, event) = b.resting[event.order_id].quantity
<1> DEFINE id == event.order_id
           F == Front(b, price, arrival)
           G == Front(a, price, arrival)
<1>1. b.next_priority_ \in Nat /\ \A i \in Ids(a) : a.resting[i].priority \in Nat
  BY DEF GoodBook, Entry
<1>2. \A i : i \in F <=> /\ i \in Ids(b) /\ b.resting[i].side = side
                          /\ b.resting[i].price = price /\ b.resting[i].priority < arrival
  BY DEF Front, level_order_ids
<1>3. \A i : i \in G <=> /\ i \in Ids(a) /\ a.resting[i].side = side
                          /\ a.resting[i].price = price /\ a.resting[i].priority < arrival
  BY DEF Front, level_order_ids
<1>4. \A i \in Ids(a) : ~(a.resting[i].priority < arrival /\ a.resting[i].priority >= b.next_priority_)
  BY <1>1
<1> HIDE DEF F, G
<1>5. \A i \in F \ {id} : i \in G /\ a.resting[i] = b.resting[i]
  BY <1>2, <1>3 DEF Moved
<1>6. G \subseteq F
  <2> SUFFICES ASSUME NEW i \in G PROVE i \in F
    OBVIOUS
  <2>1. i \in Ids(a) /\ ~(a.resting[i].priority >= b.next_priority_)
    BY <1>3, <1>4
  <2>2. \/ i \in Ids(b) \ {id}
        \/ /\ i = id /\ id \in Ids(b)
           /\ a.resting[i].side = b.resting[i].side
           /\ a.resting[i].price = b.resting[i].price
           /\ a.resting[i].priority = b.resting[i].priority
    BY <2>1 DEF Moved
  <2> QED  BY <1>2, <1>3, <2>2 DEF Moved
<1>7. ASSUME Applies(b, event), id \in F
      PROVE  IF id \in G THEN a.resting[id].quantity = b.resting[id].quantity - Taken(b, event)
                         ELSE Taken(b, event) = b.resting[id].quantity
  <2>1. id \in Ids(b)
    BY <1>2, <1>7
  <2> QED  BY <1>2, <1>3, <1>4, <1>7, <2>1 DEF Moved
<1> QED  BY <1>5, <1>6, <1>7 DEF F, G

(* What rests in front. *)
Ahead(b, price, arrival) == TotalQuantity(b, Front(b, price, arrival))

(* It is a finite sum of naturals, and nothing when nobody is in front. *)
LEMMA AheadNat ==
  ASSUME NEW b, GoodBook(b), NEW price, NEW arrival
  PROVE  /\ IsFiniteSet(Front(b, price, arrival)) /\ Front(b, price, arrival) \subseteq Ids(b)
         /\ Ahead(b, price, arrival) \in Nat
         /\ Front(b, price, arrival) = {} => Ahead(b, price, arrival) = 0
<1> DEFINE F == Front(b, price, arrival)
           f == [i \in Ids(b) |-> b.resting[i].quantity]
<1>1. F \subseteq Ids(b)
  BY DEF Front, level_order_ids
<1>2. IsFiniteSet(F)
  BY <1>1, FS_Subset DEF GoodBook
<1>3. \A i \in F : f[i] \in Nat
  BY <1>1 DEF GoodBook, Entry
<1>4. Ahead(b, price, arrival) = SumFunctionOnSet(f, F)
  BY DEF Ahead, TotalQuantity
<1> HIDE DEF f, F
<1>5. SumFunctionOnSet(f, F) \in Nat
  BY <1>2, <1>3, SumNat
<1>6. F = {} => SumFunctionOnSet(f, F) = 0
  BY SumEmpty
<1> QED  BY <1>1, <1>2, <1>4, <1>5, <1>6 DEF F

(* Two books that agree on what is in front have the same ahead. *)
LEMMA AheadSame ==
  ASSUME NEW b, GoodBook(b), NEW a, GoodBook(a), NEW price, NEW arrival,
         Front(a, price, arrival) = Front(b, price, arrival),
         \A i \in Front(b, price, arrival) : a.resting[i] = b.resting[i]
  PROVE  Ahead(a, price, arrival) = Ahead(b, price, arrival)
<1> DEFINE F == Front(b, price, arrival)
           f == [i \in Ids(b) |-> b.resting[i].quantity]
           g == [i \in Ids(a) |-> a.resting[i].quantity]
<1>1. IsFiniteSet(F) /\ F \subseteq Ids(b) /\ F \subseteq Ids(a)
  BY AheadNat
<1>2. \A i \in F : f[i] = g[i]
  BY <1>1
<1>3. Ahead(b, price, arrival) = SumFunctionOnSet(f, F)
  BY DEF Ahead, TotalQuantity
<1>4. Ahead(a, price, arrival) = SumFunctionOnSet(g, F)
  BY DEF Ahead, TotalQuantity
<1> HIDE DEF f, g, F
<1>5. SumFunctionOnSet(f, F) = SumFunctionOnSet(g, F)
  BY <1>1, <1>2, SumCong
<1> QED  BY <1>3, <1>4, <1>5

(* An event takes from what is in front exactly what it takes from an      *)
(* order that is in front.                                                 *)
LEMMA AheadStep ==
  ASSUME NEW b, GoodBook(b), NEW a, NEW event \in Events, Moved(b, event, a),
         NEW price, NEW arrival \in Nat, arrival <= b.next_priority_, GoodBook(a)
  PROVE  /\ ~Applies(b, event) \/ event.order_id \notin Front(b, price, arrival) =>
              Ahead(a, price, arrival) = Ahead(b, price, arrival)
         /\ Applies(b, event) /\ event.order_id \in Front(b, price, arrival) =>
              /\ Ahead(a, price, arrival) = Ahead(b, price, arrival) - Taken(b, event)
              /\ Taken(b, event) \in Nat
              /\ Taken(b, event) <= Ahead(b, price, arrival)
<1> DEFINE id == event.order_id
           F == Front(b, price, arrival)
           G == Front(a, price, arrival)
           f == [i \in Ids(b) |-> b.resting[i].quantity]
           g == [i \in Ids(a) |-> a.resting[i].quantity]
           t == Taken(b, event)
<1>1. G \subseteq F /\ \A i \in F \ {id} : i \in G /\ a.resting[i] = b.resting[i]
  BY FrontStep
<1>2. /\ Applies(b, event) /\ id \in F /\ id \in G =>
           a.resting[id].quantity = b.resting[id].quantity - t
      /\ Applies(b, event) /\ id \in F /\ id \notin G => t = b.resting[id].quantity
  BY FrontStep
<1>3. IsFiniteSet(F) /\ F \subseteq Ids(b) /\ G \subseteq Ids(a)
  BY AheadNat
<1>4. \A i \in F : f[i] = b.resting[i].quantity /\ f[i] \in Nat
  BY <1>3 DEF GoodBook, Entry
<1>5. \A i \in G : g[i] = a.resting[i].quantity /\ g[i] \in Nat
  BY <1>3 DEF GoodBook, Entry
<1>6. Ahead(b, price, arrival) = SumFunctionOnSet(f, F)
  BY DEF Ahead, TotalQuantity
<1>7. Ahead(a, price, arrival) = SumFunctionOnSet(g, G)
  BY DEF Ahead, TotalQuantity
<1>8. CASE ~Applies(b, event)
  <2>1. a = b
    BY <1>8 DEF Moved
  <2> QED  BY <1>8, <2>1
<1>9. CASE id \notin F
  <2>1. G = F /\ \A i \in F : a.resting[i] = b.resting[i]
    BY <1>1, <1>9
  <2>2. Ahead(a, price, arrival) = Ahead(b, price, arrival)
    BY <2>1, AheadSame
  <2> QED  BY <1>9, <2>2
<1>10. CASE Applies(b, event) /\ id \in F
  <2>1. t \in Nat /\ t <= f[id]
    <3>1. event.quantity \in Nat /\ id \in Ids(b)
      BY <1>3, <1>10, EventTypes
    <3>2. t \in Nat
      BY <1>4, <1>10, <3>1 DEF Taken
    <3>3. t <= b.resting[id].quantity
      BY <1>10, <3>1 DEF Moved
    <3> QED  BY <1>4, <1>10, <3>2, <3>3
  <2> HIDE DEF f, g, F, G, t, id
  <2> DEFINE R == F \ {id}
  <2>2. IsFiniteSet(R)
    BY <1>3, FS_RemoveElement
  <2>3. SumFunctionOnSet(f, F) = f[id] + SumFunctionOnSet(f, R)
    <3>1. \A i \in F : f[i] \in Int
      BY <1>4
    <3> QED  BY <1>3, <1>10, <3>1, SumSplit
  <2>4. \A i \in R : f[i] = g[i] /\ f[i] \in Nat /\ g[i] \in Nat
    BY <1>1, <1>4, <1>5
  <2> HIDE DEF R
  <2>5. SumFunctionOnSet(f, R) = SumFunctionOnSet(g, R)
    BY <2>2, <2>4, SumCong
  <2>6. SumFunctionOnSet(f, R) \in Nat
    BY <2>2, <2>4, SumNat
  <2>7. SumFunctionOnSet(g, G) = SumFunctionOnSet(f, F) - t
    <3>1. CASE id \in G
      <4>1. G = F /\ g[id] = f[id] - t /\ f[id] \in Nat /\ g[id] \in Nat
        BY <1>1, <1>2, <1>4, <1>5, <1>10, <3>1
      <4>2. SumFunctionOnSet(g, G) = g[id] + SumFunctionOnSet(g, R)
        <5>1. \A i \in G : g[i] \in Int
          BY <1>5
        <5>2. SumFunctionOnSet(g, G) = g[id] + SumFunctionOnSet(g, G \ {id})
          BY <1>3, <3>1, <4>1, <5>1, SumSplit
        <5> QED  BY <4>1, <5>2 DEF R
      <4> DEFINE x == SumFunctionOnSet(f, R)
                 y == SumFunctionOnSet(g, G)
                 z == SumFunctionOnSet(f, F)
      <4>3. x \in Nat /\ y = g[id] + x /\ z = f[id] + x
        BY <2>3, <2>5, <2>6, <4>2
      <4>4. y = z - t
        <5> HIDE DEF x, y, z
        <5> QED  BY <2>1, <4>1, <4>3
      <4> QED  BY <4>4
    <3>2. CASE id \notin G
      <4>1. G = R /\ t = f[id]
        BY <1>1, <1>2, <1>4, <1>10, <3>2 DEF R
      <4> DEFINE x == SumFunctionOnSet(f, R)
                 y == SumFunctionOnSet(g, G)
                 z == SumFunctionOnSet(f, F)
      <4>2. x \in Nat /\ y = x /\ z = f[id] + x
        BY <2>3, <2>5, <2>6, <4>1
      <4>3. y = z - t
        <5> HIDE DEF x, y, z
        <5> QED  BY <2>1, <4>1, <4>2
      <4> QED  BY <4>3
    <3> QED  BY <3>1, <3>2
  <2>8. t <= SumFunctionOnSet(f, F)
    <3> DEFINE x == SumFunctionOnSet(f, R)
               z == SumFunctionOnSet(f, F)
    <3>1. x \in Nat /\ z = f[id] + x /\ f[id] \in Nat
      BY <1>4, <1>10, <2>3, <2>6
    <3>2. t <= z
      <4> HIDE DEF x, z
      <4> QED  BY <2>1, <3>1
    <3> QED  BY <3>2
  <2> QED  BY <1>6, <1>7, <1>10, <2>1, <2>7, <2>8 DEF t, F, id
<1> QED  BY <1>8, <1>9, <1>10

-----------------------------------------------------------------------------
(* What the model makes of an event. *)

Reacted(model, event) == on_event(Observed(model, event), event)

(* The event is about our level, and the order is not filled. *)
Hit(model, event) == model.filled_ < size /\ order_at_our_level(model, event.order_id)

Counted(model, event) == event.type = "Trade" \/ event.order_id \in model.cohort_

(* r is the model after the event: a trade consumes the queue from the     *)
(* front and then fills us, any other event counts when its order was      *)
(* there at the post.                                                      *)
Reacts(model, event, r) ==
  LET x == Scale * Taken(book, event) IN
  /\ r.price_ = model.price_ /\ r.cohort_ = model.cohort_ /\ r.arrival = model.arrival
  /\ r.orderly = (model.orderly /\ Orderly(model, event))
  /\ r.reached = IF /\ event.type = "Trade"
                    /\ order_at_our_level(model, event.order_id)
                    /\ book.resting[event.order_id].priority >= model.arrival
                   THEN model.reached + event.quantity ELSE model.reached
  /\ r.ahead_ = IF Hit(model, event) /\ event.type # "Add" /\ Counted(model, event)
                  THEN Larger(0, model.ahead_ - x) ELSE model.ahead_
  /\ r.filled_ = IF Hit(model, event) /\ event.type = "Trade"
                   THEN Filled(model.filled_, Larger(0, x - model.ahead_))
                   ELSE model.filled_

(* The fields of a model. *)
LEMMA ModelFields ==
  ASSUME NEW model, GoodModel(model)
  PROVE  /\ model.active /\ model.ahead_ \in Nat /\ model.filled_ \in 0 .. size
         /\ model.arrival \in Nat /\ model.orderly \in BOOLEAN /\ model.reached \in Nat
  BY DEF GoodModel, Models

(* A model with another history. *)
WithHistory(model, o, u, v) ==
  /\ GoodModel(o)
  /\ o.price_ = model.price_ /\ o.cohort_ = model.cohort_ /\ o.arrival = model.arrival
  /\ o.ahead_ = model.ahead_ /\ o.filled_ = model.filled_
  /\ o.orderly = u /\ o.reached = v

(* Recording an event in the history changes nothing else. *)
LEMMA HistoryChange ==
  ASSUME NEW model, GoodModel(model), NEW u \in BOOLEAN, NEW v \in Nat
  PROVE  WithHistory(model, [model EXCEPT !.orderly = u, !.reached = v], u, v)
<1> PICK p, c : model \in Models(p, c)
  BY DEF GoodModel
<1> DEFINE o == [model EXCEPT !.orderly = u, !.reached = v]
<1>1. o \in Models(p, c)
  BY DEF Models
<1>2. /\ o.price_ = model.price_ /\ o.cohort_ = model.cohort_ /\ o.arrival = model.arrival
      /\ o.ahead_ = model.ahead_ /\ o.filled_ = model.filled_
      /\ o.orderly = u /\ o.reached = v
  BY DEF Models
<1> QED  BY <1>1, <1>2 DEF GoodModel, WithHistory

(* A model with another ahead_ and filled_. *)
WithQueue(o, r, y, z) ==
  /\ GoodModel(r) /\ r.ahead_ = y /\ r.filled_ = z
  /\ r.price_ = o.price_ /\ r.cohort_ = o.cohort_ /\ r.arrival = o.arrival
  /\ r.orderly = o.orderly /\ r.reached = o.reached

(* A step of the queue changes ahead_ and filled_ and nothing else. *)
LEMMA QueueChange ==
  ASSUME NEW o, GoodModel(o), NEW y \in Nat, NEW z \in 0 .. size
  PROVE  /\ WithQueue(o, [o EXCEPT !.ahead_ = y, !.filled_ = z], y, z)
         /\ WithQueue(o, [o EXCEPT !.ahead_ = y], y, o.filled_)
<1> PICK p, c : o \in Models(p, c)
  BY DEF GoodModel
<1> DEFINE r == [o EXCEPT !.ahead_ = y, !.filled_ = z]
           t == [o EXCEPT !.ahead_ = y]
<1>1. r \in Models(p, c) /\ t \in Models(p, c)
  BY DEF Models
<1>2. /\ r.ahead_ = y /\ r.filled_ = z
      /\ r.price_ = o.price_ /\ r.cohort_ = o.cohort_ /\ r.arrival = o.arrival
      /\ r.orderly = o.orderly /\ r.reached = o.reached
  BY DEF Models
<1>3. /\ t.ahead_ = y /\ t.filled_ = o.filled_
      /\ t.price_ = o.price_ /\ t.cohort_ = o.cohort_ /\ t.arrival = o.arrival
      /\ t.orderly = o.orderly /\ t.reached = o.reached
  BY DEF Models
<1> QED  BY <1>1, <1>2, <1>3 DEF GoodModel, WithQueue

(* What an event takes is a quantity. *)
LEMMA TakenNat ==
  ASSUME GoodBook(book), NEW event \in Events,
         event.type \in {"Trade", "Reduce"} \/ event.order_id \in Ids(book)
  PROVE  Taken(book, event) \in Nat /\ Scale * Taken(book, event) \in Nat
<1>1. Taken(book, event) \in Nat
  BY EventTypes DEF Taken, GoodBook, Entry
<1> QED  BY <1>1, DivScale

(* on_event does what Reacts says. *)
LEMMA ReactedFields ==
  ASSUME GoodBook(book), NEW model, GoodModel(model), NEW event \in Events
  PROVE  GoodModel(Reacted(model, event)) /\ Reacts(model, event, Reacted(model, event))
<1> DEFINE o == Observed(model, event)
           r == Reacted(model, event)
           id == event.order_id
           q == Taken(book, event)
           x == Scale * q
<1>0. /\ event.type \in {"Add", "Trade", "Reduce", "Cancel", "Replace"}
      /\ event.quantity \in Nat
  BY EventTypes
<1>1. /\ GoodModel(o)
      /\ o.price_ = model.price_ /\ o.cohort_ = model.cohort_ /\ o.arrival = model.arrival
      /\ o.ahead_ = model.ahead_ /\ o.filled_ = model.filled_
      /\ o.orderly = (model.orderly /\ Orderly(model, event))
      /\ o.reached = IF /\ event.type = "Trade"
                        /\ order_at_our_level(model, event.order_id)
                        /\ book.resting[event.order_id].priority >= model.arrival
                       THEN model.reached + event.quantity ELSE model.reached
  <2> DEFINE d == /\ event.type = "Trade"
                  /\ order_at_our_level(model, event.order_id)
                  /\ book.resting[event.order_id].priority >= model.arrival
             u == model.orderly /\ Orderly(model, event)
             v == IF d THEN model.reached + event.quantity ELSE model.reached
  <2>1. o = [model EXCEPT !.orderly = u, !.reached = v]
    BY DEF Observed
  <2>2. u \in BOOLEAN
    OBVIOUS
  <2>3. v \in Nat
    BY <1>0, ModelFields
  <2>4. WithHistory(model, o, u, v)
    <3> HIDE DEF u, v, d, o
    <3>1. WithHistory(model, [model EXCEPT !.orderly = u, !.reached = v], u, v)
      BY <2>2, <2>3, HistoryChange, Zenon
    <3> QED  BY <2>1, <3>1, Zenon
  <2> HIDE DEF u, v, o
  <2> QED  BY <2>4 DEF WithHistory, u, v
<1>2. order_at_our_level(o, id) = order_at_our_level(model, id)
  BY <1>1 DEF order_at_our_level
<1>3. r = on_event(o, event)
  BY DEF Reacted
<1>4. size \in Nat /\ model.filled_ \in 0 .. size /\ model.ahead_ \in Nat
  BY StudyAssumption, ModelFields
<1> HIDE DEF o, r
<1>5. CASE ~Hit(model, event) \/ event.type = "Add"
  <2>1. r = o
    BY <1>0, <1>1, <1>2, <1>3, <1>4, <1>5 DEF on_event, Hit
  <2> QED  BY <1>1, <1>5, <2>1 DEF Reacts, r
<1>6. CASE Hit(model, event) /\ event.type # "Add"
  <2>1. id \in Ids(book)
    BY <1>6 DEF Hit, order_at_our_level, level_order_ids
  <2>2. q \in Nat /\ x \in Nat
    BY <2>1, TakenNat
  <2>3. ~(o.filled_ >= size) /\ order_at_our_level(o, id)
    BY <1>1, <1>2, <1>4, <1>6 DEF Hit
  <2>4. CASE event.type = "Trade"
    <3>1. q = event.quantity
      BY <2>4 DEF Taken
    <3>2. r = Execute(o, q)
      BY <1>3, <2>3, <2>4, <3>1 DEF on_event
    <3> DEFINE consumed == Smaller(x, o.ahead_)
               overflow == x - consumed
    <3>3. /\ o.ahead_ - consumed = Larger(0, model.ahead_ - x)
          /\ overflow = Larger(0, x - model.ahead_)
          /\ Larger(0, model.ahead_ - x) \in Nat /\ Larger(0, x - model.ahead_) \in Nat
      <4> HIDE DEF x
      <4> QED  BY <1>1, <1>4, <2>2 DEF Smaller, Larger
    <3> DEFINE y == Larger(0, model.ahead_ - x)
               w == Larger(0, x - model.ahead_)
               z == Filled(model.filled_, w)
    <3>4. z \in 0 .. size
      <4> HIDE DEF w
      <4>1. w \in Nat
        BY <3>3 DEF w
      <4>2. Filled(model.filled_, w) \in model.filled_ .. size
        BY <1>4, <4>1, FilledBounds
      <4> QED  BY <1>4, <4>2
    <3>5. r = [o EXCEPT !.ahead_ = y, !.filled_ = z]
      <4>1. r = [o EXCEPT !.ahead_ = @ - consumed,
                          !.filled_ = @ + Smaller(overflow, Scale * (size - o.filled_)) \div Scale]
        BY <3>2 DEF Execute
      <4>2. o.ahead_ - consumed = y
        BY <3>3
      <4>3. o.filled_ + Smaller(overflow, Scale * (size - o.filled_)) \div Scale = z
        <5>1. overflow = w
          BY <3>3
        <5> QED  BY <1>1, <5>1 DEF Filled
      <4> QED  BY <4>1, <4>2, <4>3, Zenon
    <3> HIDE DEF y, z
    <3>6. y \in Nat
      BY <3>3 DEF y
    <3>7. /\ GoodModel(r) /\ r.ahead_ = y /\ r.filled_ = z
          /\ r.price_ = o.price_ /\ r.cohort_ = o.cohort_ /\ r.arrival = o.arrival
          /\ r.orderly = o.orderly /\ r.reached = o.reached
      <4>1. WithQueue(o, r, y, z)
        BY <1>1, <3>4, <3>5, <3>6, QueueChange
      <4> QED  BY <4>1 DEF WithQueue
    <3>8. Counted(model, event)
      BY <2>4 DEF Counted
    <3> QED  BY <1>1, <1>6, <2>4, <3>7, <3>8 DEF Reacts, r, y, z
  <2>5. CASE event.type # "Trade"
    <3>1. q = IF event.type = "Reduce" THEN event.quantity ELSE book.resting[id].quantity
      BY <2>5 DEF Taken
    <3>2. r = Advance(o, id, q)
      BY <1>0, <1>3, <1>6, <2>3, <2>5, <3>1 DEF on_event
    <3>3. AheadOfUs(o, id) = Counted(model, event)
      BY <1>1, <2>5 DEF AheadOfUs, Counted
    <3>4. CASE ~Counted(model, event)
      <4>1. r = o
        BY <3>2, <3>3, <3>4 DEF Advance
      <4> QED  BY <1>1, <2>5, <3>4, <4>1 DEF Reacts, r
    <3>5. CASE Counted(model, event)
      <4> DEFINE y == Larger(0, model.ahead_ - x)
      <4>1. r = [o EXCEPT !.ahead_ = Larger(0, @ - x)]
        BY <3>2, <3>3, <3>5 DEF Advance
      <4>2. y \in Nat
        <5> HIDE DEF x
        <5> QED  BY <1>4, <2>2 DEF Larger
      <4>3. r = [o EXCEPT !.ahead_ = y]
        BY <1>1, <4>1
      <4> HIDE DEF y
      <4>4. o.filled_ \in 0 .. size
        BY <1>1, ModelFields
      <4>5. /\ GoodModel(r) /\ r.ahead_ = y /\ r.filled_ = o.filled_
            /\ r.price_ = o.price_ /\ r.cohort_ = o.cohort_ /\ r.arrival = o.arrival
            /\ r.orderly = o.orderly /\ r.reached = o.reached
        <5>1. WithQueue(o, r, y, o.filled_)
          BY <1>1, <4>2, <4>3, <4>4, QueueChange
        <5> QED  BY <5>1 DEF WithQueue
      <4> QED  BY <1>1, <1>6, <2>5, <3>5, <4>5 DEF Reacts, r, y
    <3> QED  BY <3>4, <3>5
  <2> QED  BY <2>4, <2>5
<1> QED  BY <1>5, <1>6

-----------------------------------------------------------------------------
(* The displayed model and the book. *)

(* What is in front of us is in the cohort; while the feed is in order     *)
(* what is left of the cohort is in front of us.                           *)
CohortOK(b, model) ==
  /\ model.arrival <= b.next_priority_
  /\ Front(b, model.price_, model.arrival) \subseteq model.cohort_
  /\ model.orderly =>
       \A i \in Ids(b) : i \in model.cohort_ => b.resting[i].priority < model.arrival

Follows(b, model) ==
  LET truth == Scale * Ahead(b, model.price_, model.arrival) IN
  /\ model.ahead_ <= truth
  /\ model.orderly => model.ahead_ = truth /\ model.filled_ = model.reached

(* The cohort keeps its meaning: an order that comes back comes back       *)
(* behind us, and in an orderly feed under an id we have not seen.         *)
LEMMA CohortStep ==
  ASSUME GoodBook(book), NEW model, GoodModel(model), NEW event \in Events,
         CohortOK(book, model), NEW a, GoodBook(a), Moved(book, event, a),
         NEW r, Reacts(model, event, r)
  PROVE  CohortOK(a, r)
<1>1. r.price_ = model.price_ /\ r.cohort_ = model.cohort_ /\ r.arrival = model.arrival
  BY DEF Reacts
<1>2. model.arrival \in Nat /\ book.next_priority_ \in Nat /\ a.next_priority_ \in Nat
  BY ModelFields DEF GoodBook
<1>3. model.arrival <= a.next_priority_
  BY <1>2 DEF Moved, CohortOK
<1>4. Front(a, model.price_, model.arrival) \subseteq model.cohort_
  <2>1. Front(a, model.price_, model.arrival) \subseteq Front(book, model.price_, model.arrival)
    BY <1>2, FrontStep DEF CohortOK
  <2> QED  BY <2>1 DEF CohortOK
<1>5. ASSUME r.orderly, NEW i \in Ids(a), i \in model.cohort_
      PROVE  a.resting[i].priority < model.arrival
  <2>1. model.orderly /\ Orderly(model, event)
    BY <1>5 DEF Reacts
  <2>2. \A j \in Ids(book) : j \in model.cohort_ => book.resting[j].priority < model.arrival
    BY <2>1 DEF CohortOK
  <2>3. ~(event.type = "Add" /\ i = event.order_id)
    BY <1>5, <2>1 DEF Orderly
  <2>4. ~(event.type = "Replace" /\ i = event.new_order_id)
    BY <1>5, <2>1 DEF Orderly
  <2>5. \/ i \in Ids(book) \ {event.order_id}
        \/ i \in Ids(book) /\ a.resting[i].priority = book.resting[i].priority
    BY <2>3, <2>4 DEF Moved
  <2> QED  BY <1>5, <2>2, <2>5 DEF Moved
<1> QED  BY <1>1, <1>3, <1>4, <1>5 DEF CohortOK

(* Taking a part of a product. *)
LEMMA ScaleMinus ==
  ASSUME NEW t \in Nat, NEW q \in Nat, q <= t
  PROVE  /\ Scale * (t - q) = Scale * t - Scale * q /\ Scale * (t - q) \in Nat
         /\ Scale * t \in Nat /\ Scale * q \in Nat
<1>1. Scale \in Nat
  BY StudyAssumption
<1>2. Scale * (t - q) = Scale * t - Scale * q
  BY <1>1, SMT
<1>3. t - q \in Nat
  OBVIOUS
<1> QED  BY <1>2, <1>3, DivScale

(* An order that is not filled by an event was not filled before it. *)
LEMMA NotFilled ==
  ASSUME GoodBook(book), NEW model, GoodModel(model), NEW event \in Events,
         NEW r, Reacts(model, event, r), r.filled_ < size
  PROVE  model.filled_ < size
<1>1. model.filled_ \in 0 .. size /\ size \in Nat /\ model.ahead_ \in Nat
  BY ModelFields, StudyAssumption
<1>2. CASE ~(Hit(model, event) /\ event.type = "Trade")
  BY <1>2 DEF Reacts
<1>3. CASE Hit(model, event) /\ event.type = "Trade"
  BY <1>3 DEF Hit
<1> QED  BY <1>2, <1>3

(* Nothing fills an order without an overflow. *)
LEMMA FilledNothing ==
  ASSUME NEW f \in 0 .. size
  PROVE  Filled(f, 0) = f
<1>1. Scale * 0 = 0 /\ size \in Nat
  BY StudyAssumption
<1>2. Filled(f, Scale * 0) = Smaller(f + 0, size)
  BY FilledExact
<1> QED  BY <1>1, <1>2 DEF Smaller

(* ahead_ and the truth move together as long as the order is not filled.  *)
LEMMA FollowsStep ==
  ASSUME GoodBook(book), NEW model, GoodModel(model), NEW event \in Events,
         CohortOK(book, model), Follows(book, model),
         NEW a, GoodBook(a), Moved(book, event, a),
         NEW r, GoodModel(r), Reacts(model, event, r), r.filled_ < size
  PROVE  Follows(a, r)
<1> DEFINE id == event.order_id
           p == model.price_
           arr == model.arrival
           F == Front(book, p, arr)
           T == Ahead(book, p, arr)
           U == Ahead(a, p, arr)
           q == Taken(book, event)
           x == Scale * q
<1>1. r.price_ = p /\ r.cohort_ = model.cohort_ /\ r.arrival = arr
  BY DEF Reacts
<1>2. /\ arr \in Nat /\ arr <= book.next_priority_ /\ model.ahead_ \in Nat
      /\ model.filled_ \in 0 .. size /\ size \in Nat /\ r.filled_ \in 0 .. size
      /\ r.ahead_ \in Nat
  BY ModelFields, StudyAssumption DEF CohortOK
<1>3. model.filled_ < size
  BY NotFilled
<1>4. T \in Nat /\ U \in Nat /\ Scale * T \in Nat /\ Scale * U \in Nat
  <2>1. T \in Nat /\ U \in Nat
    BY AheadNat
  <2> HIDE DEF T, U
  <2> QED  BY <2>1, DivScale
<1>5. /\ model.ahead_ <= Scale * T
      /\ model.orderly => model.ahead_ = Scale * T /\ model.filled_ = model.reached
  BY DEF Follows
<1>6. /\ ~Applies(book, event) \/ id \notin F => U = T
      /\ Applies(book, event) /\ id \in F => U = T - q /\ q \in Nat /\ q <= T
  BY <1>2, AheadStep
<1>7. \A i : i \in F <=> /\ i \in Ids(book) /\ book.resting[i].side = side
                          /\ book.resting[i].price = p /\ book.resting[i].priority < arr
  BY DEF Front, level_order_ids
<1>8. order_at_our_level(model, id) <=>
        id \in Ids(book) /\ book.resting[id].side = side /\ book.resting[id].price = p
  BY DEF order_at_our_level, level_order_ids
<1>9. Hit(model, event) <=> order_at_our_level(model, id)
  BY <1>3 DEF Hit
<1>10. Hit(model, event) => q \in Nat /\ x \in Nat
  BY <1>8, <1>9, TakenNat
<1>11. r.orderly => model.orderly /\ Orderly(model, event) /\ Applies(book, event)
  BY DEF Reacts, Orderly, Applies
<1>12. \A i \in Ids(book) : book.resting[i].priority \in Nat
  BY DEF GoodBook, Entry
<1>13. F \subseteq model.cohort_
  BY DEF CohortOK
<1>14. r.ahead_ <= model.ahead_
  <2>1. CASE Hit(model, event) /\ event.type # "Add" /\ Counted(model, event)
    <3>1. r.ahead_ = Larger(0, model.ahead_ - x) /\ x \in Nat
      BY <1>10, <2>1 DEF Reacts
    <3> HIDE DEF x
    <3> QED  BY <1>2, <3>1 DEF Larger
  <2>2. CASE ~(Hit(model, event) /\ event.type # "Add" /\ Counted(model, event))
    BY <1>2, <2>2 DEF Reacts
  <2> QED  BY <2>1, <2>2
<1>15. CASE ~Applies(book, event)
  <2>1. U = T /\ ~r.orderly
    BY <1>6, <1>11, <1>15
  <2>2. r.ahead_ <= Scale * U
    <3> DEFINE y == Scale * T
    <3>1. y \in Nat /\ model.ahead_ <= y /\ y = Scale * U
      BY <1>4, <1>5, <2>1
    <3> HIDE DEF y
    <3> QED  BY <1>2, <1>14, <3>1
  <2> QED  BY <1>1, <2>1, <2>2 DEF Follows
<1>16. CASE Applies(book, event) /\ id \in F
  <2>1. order_at_our_level(model, id) /\ id \in model.cohort_ /\ book.resting[id].priority < arr
    BY <1>7, <1>8, <1>13, <1>16
  <2>2. event.type # "Add"
    BY <1>7, <1>16 DEF Moved
  <2>3. r.ahead_ = Larger(0, model.ahead_ - x)
    BY <1>9, <2>1, <2>2 DEF Reacts, Counted
  <2>4. Scale * U = Scale * T - x /\ x \in Nat
    <3>1. U = T - q /\ q \in Nat /\ q <= T
      BY <1>6, <1>16
    <3> HIDE DEF T, U, q
    <3> QED  BY <1>4, <3>1, ScaleMinus
  <2> DEFINE y == Scale * T
             z == Scale * U
  <2>5. y \in Nat /\ z \in Nat /\ x \in Nat /\ z = y - x /\ model.ahead_ <= y
    BY <1>4, <1>5, <2>4
  <2>6. r.ahead_ <= z /\ (model.ahead_ = y => r.ahead_ = z /\ Larger(0, x - model.ahead_) = 0)
    <3> HIDE DEF x, y, z
    <3> QED  BY <1>2, <2>3, <2>5 DEF Larger
  <2>7. ASSUME r.orderly PROVE r.ahead_ = z /\ r.filled_ = r.reached
    <3>1. model.ahead_ = y /\ model.filled_ = model.reached
      BY <1>5, <1>11, <2>7
    <3>2. r.reached = model.reached
      BY <1>2, <1>12, <1>7, <1>16, <2>1 DEF Reacts
    <3>3. r.filled_ = model.filled_
      <4>1. Larger(0, x - model.ahead_) = 0
        BY <2>6, <3>1
      <4>2. Filled(model.filled_, Larger(0, x - model.ahead_)) = model.filled_
        BY <1>2, <4>1, FilledNothing
      <4> QED  BY <4>2 DEF Reacts
    <3> QED  BY <2>6, <3>1, <3>2, <3>3
  <2> QED  BY <1>1, <2>6, <2>7 DEF Follows
<1>17. CASE Applies(book, event) /\ id \notin F
  <2>1. U = T
    BY <1>6, <1>17
  <2>2. r.ahead_ <= Scale * U
    <3> DEFINE y == Scale * T
    <3>1. y \in Nat /\ model.ahead_ <= y /\ y = Scale * U
      BY <1>4, <1>5, <2>1
    <3> HIDE DEF y
    <3> QED  BY <1>2, <1>14, <3>1
  <2>3. ASSUME r.orderly PROVE r.ahead_ = Scale * U /\ r.filled_ = r.reached
    <3>1. model.orderly /\ Orderly(model, event) /\ model.ahead_ = Scale * T
          /\ model.filled_ = model.reached
      BY <1>5, <1>11, <2>3
    <3>2. CASE event.type = "Trade" /\ order_at_our_level(model, id)
      <4>1. id \in Ids(book) /\ book.resting[id].priority >= arr
        BY <1>2, <1>7, <1>8, <1>12, <1>17, <3>2
      <4>2. F = {}
        <5> SUFFICES ASSUME NEW i \in F PROVE FALSE
          OBVIOUS
        <5>1. i \in level_order_ids(book, book.resting[id].side, book.resting[id].price)
          BY <1>7, <1>8, <3>2 DEF level_order_ids
        <5>2. book.resting[id].priority <= book.resting[i].priority
          BY <3>1, <3>2, <5>1 DEF Orderly
        <5> QED  BY <1>2, <1>7, <1>12, <4>1, <5>2
      <4>3. T = 0
        BY <4>2, AheadNat
      <4>4. model.ahead_ = 0 /\ Scale * U = 0
        <5>1. Scale * 0 = 0
          BY StudyAssumption
        <5> QED  BY <2>1, <3>1, <4>3, <5>1
      <4>5. q = event.quantity /\ q \in Nat /\ x \in Nat
        BY <1>9, <1>10, <3>2 DEF Taken
      <4>6. r.ahead_ = Larger(0, model.ahead_ - x)
        BY <1>9, <3>2 DEF Reacts, Counted
      <4>7. r.ahead_ = 0
        <5> HIDE DEF x
        <5> QED  BY <4>4, <4>5, <4>6 DEF Larger
      <4>8. r.filled_ = Filled(model.filled_, Larger(0, x - model.ahead_))
        BY <1>9, <3>2 DEF Reacts
      <4>9. Larger(0, x - model.ahead_) = x
        <5> HIDE DEF x
        <5> QED  BY <4>4, <4>5 DEF Larger
      <4>10. r.filled_ = Smaller(model.filled_ + q, size)
        BY <1>2, <4>5, <4>8, <4>9, FilledExact
      <4>11. r.filled_ = model.filled_ + q
        <5> HIDE DEF q
        <5> QED  BY <1>2, <4>5, <4>10 DEF Smaller
      <4>12. r.reached = model.reached + event.quantity
        BY <3>2, <4>1 DEF Reacts
      <4> QED  BY <3>1, <4>4, <4>5, <4>7, <4>11, <4>12
    <3>3. CASE ~(event.type = "Trade" /\ order_at_our_level(model, id))
      <4>1. r.filled_ = model.filled_ /\ r.reached = model.reached
        BY <1>9, <3>3 DEF Reacts
      <4>2. ~(Hit(model, event) /\ event.type # "Add" /\ Counted(model, event))
        <5> SUFFICES ASSUME Hit(model, event), Counted(model, event) PROVE FALSE
          OBVIOUS
        <5>1. id \in model.cohort_ /\ order_at_our_level(model, id)
          BY <1>9, <3>3 DEF Counted
        <5>2. book.resting[id].priority < arr
          BY <1>8, <3>1, <5>1 DEF CohortOK
        <5> QED  BY <1>7, <1>8, <1>17, <5>1, <5>2
      <4>3. r.ahead_ = model.ahead_
        BY <4>2 DEF Reacts
      <4> QED  BY <2>1, <3>1, <4>1, <4>3
    <3> QED  BY <3>2, <3>3
  <2> QED  BY <1>1, <2>2, <2>3 DEF Follows
<1> QED  BY <1>15, <1>16, <1>17

(* A new order is at the tail of its level: everything there is in front   *)
(* of it and in its cohort.                                                *)
LEMMA PostedOK ==
  ASSUME NEW b, GoodBook(b), NEW price, NEW m \in Multipliers
  PROVE  LET model == QueueModel(b, price, m) IN
         /\ GoodModel(model)
         /\ model.price_ = price /\ model.cohort_ = level_order_ids(b, side, price)
         /\ model.filled_ = 0
         /\ model.ahead_ = Ahead(b, price, b.next_priority_) * m
         /\ m = Scale => CohortOK(b, model) /\ Follows(b, model)
<1> DEFINE model == QueueModel(b, price, m)
           level == level_order_ids(b, side, price)
           T == Ahead(b, price, b.next_priority_)
<1>0. m \in Nat /\ size \in Nat /\ Scale \in Nat
  BY StudyAssumption
<1>1. Front(b, price, b.next_priority_) = level
  BY DEF Front, level_order_ids, GoodBook
<1>2. T = TotalQuantity(b, level) /\ T \in Nat
  BY <1>1, AheadNat DEF Ahead
<1>3. T * m \in Nat
  <2> HIDE DEF T
  <2> QED  BY <1>0, <1>2, SMT
<1>4. model = [active |-> TRUE, price_ |-> price, ahead_ |-> T * m,
               filled_ |-> 0, cohort_ |-> level,
               arrival |-> b.next_priority_, orderly |-> TRUE, reached |-> 0]
  BY <1>2 DEF QueueModel
<1> DEFINE x == T * m
<1> HIDE DEF x, model
<1>5. /\ model.price_ = price /\ model.ahead_ = x /\ model.filled_ = 0
      /\ model.cohort_ = level /\ model.arrival = b.next_priority_
      /\ model.orderly = TRUE /\ model.reached = 0
  BY <1>4 DEF x
<1>6. model \in Models(price, level)
  BY <1>0, <1>3, <1>4 DEF Models, GoodBook, x
<1>7. ASSUME m = Scale PROVE CohortOK(b, model) /\ Follows(b, model)
  <2>1. CohortOK(b, model)
    BY <1>1, <1>5 DEF CohortOK, GoodBook
  <2>2. x = Scale * T /\ Scale * T \in Nat
    <3> HIDE DEF T
    <3> QED  BY <1>0, <1>2, <1>7, DivScale DEF x
  <2>3. Follows(b, model)
    BY <1>5, <2>2 DEF Follows
  <2> QED  BY <2>1, <2>3
<1> QED  BY <1>5, <1>6, <1>7 DEF GoodModel, model, x

-----------------------------------------------------------------------------
(* Two models of orders posted after the same event. *)

Comparable(m, n) ==
  /\ m.price_ = n.price_ /\ m.cohort_ = n.cohort_
  /\ m.ahead_ <= n.ahead_ /\ m.filled_ >= n.filled_

(* An event fills the order with less ahead of it no less than the other,  *)
(* and keeps them comparable until it is filled.                           *)
LEMMA CompareStep ==
  ASSUME GoodBook(book), NEW m, GoodModel(m), NEW n, GoodModel(n), NEW event \in Events,
         Comparable(m, n), NEW r, NEW t, GoodModel(r), GoodModel(t),
         Reacts(m, event, r), Reacts(n, event, t)
  PROVE  r.filled_ >= t.filled_ /\ (r.filled_ < size => Comparable(r, t))
<1> DEFINE x == Scale * Taken(book, event)
<1>1. /\ size \in Nat /\ m.filled_ \in 0 .. size /\ n.filled_ \in 0 .. size
      /\ m.ahead_ \in Nat /\ n.ahead_ \in Nat
      /\ r.filled_ \in 0 .. size /\ t.filled_ \in 0 .. size
  BY ModelFields, StudyAssumption
<1>2. /\ m.price_ = n.price_ /\ m.cohort_ = n.cohort_
      /\ m.ahead_ <= n.ahead_ /\ m.filled_ >= n.filled_
  BY DEF Comparable
<1>3. CASE ~(m.filled_ < size)
  <2>1. ~Hit(m, event)
    BY <1>3 DEF Hit
  <2>2. r.filled_ = m.filled_
    BY <2>1 DEF Reacts
  <2> QED  BY <1>1, <1>3, <2>2
<1>4. CASE m.filled_ < size
  <2>1. Hit(m, event) <=> Hit(n, event)
    BY <1>1, <1>2, <1>4 DEF Hit, order_at_our_level
  <2>2. Counted(m, event) <=> Counted(n, event)
    BY <1>2 DEF Counted
  <2>3. Hit(m, event) => x \in Nat
    <3>1. Hit(m, event) => event.order_id \in Ids(book)
      BY DEF Hit, order_at_our_level, level_order_ids
    <3> QED  BY <3>1, TakenNat
  <2>4. r.filled_ >= t.filled_
    <3>1. CASE Hit(m, event) /\ event.type = "Trade"
      <4> DEFINE o == Larger(0, x - m.ahead_)
                 w == Larger(0, x - n.ahead_)
      <4>1. r.filled_ = Filled(m.filled_, o) /\ t.filled_ = Filled(n.filled_, w)
        BY <2>1, <3>1 DEF Reacts
      <4>2. o \in Nat /\ w \in Nat /\ w <= o
        <5>1. x \in Nat
          BY <2>3, <3>1
        <5> HIDE DEF x
        <5> QED  BY <1>1, <1>2, <5>1 DEF Larger
      <4> HIDE DEF o, w
      <4>3. n.filled_ <= m.filled_
        BY <1>1, <1>2
      <4>4. Filled(n.filled_, w) <= Filled(m.filled_, o)
        BY <1>1, <4>2, <4>3, FilledMono
      <4> QED  BY <1>1, <4>1, <4>4
    <3>2. CASE ~(Hit(m, event) /\ event.type = "Trade")
      BY <1>2, <2>1, <3>2 DEF Reacts
    <3> QED  BY <3>1, <3>2
  <2>5. r.ahead_ <= t.ahead_
    <3>1. CASE Hit(m, event) /\ event.type # "Add" /\ Counted(m, event)
      <4>1. r.ahead_ = Larger(0, m.ahead_ - x) /\ t.ahead_ = Larger(0, n.ahead_ - x)
        BY <2>1, <2>2, <3>1 DEF Reacts
      <4>2. x \in Nat
        BY <2>3, <3>1
      <4> HIDE DEF x
      <4> QED  BY <1>1, <1>2, <4>1, <4>2 DEF Larger
    <3>2. CASE ~(Hit(m, event) /\ event.type # "Add" /\ Counted(m, event))
      BY <1>2, <2>1, <2>2, <3>2 DEF Reacts
    <3> QED  BY <3>1, <3>2
  <2>6. r.price_ = t.price_ /\ r.cohort_ = t.cohort_
    BY <1>2 DEF Reacts
  <2> QED  BY <2>4, <2>5, <2>6 DEF Comparable
<1> QED  BY <1>3, <1>4

(* At the same post the order with the larger multiplier has no less ahead. *)
LEMMA ComparePosts ==
  ASSUME NEW b, GoodBook(b), NEW price, NEW m \in Multipliers, NEW n \in Multipliers, m < n
  PROVE  Comparable(QueueModel(b, price, m), QueueModel(b, price, n))
<1> DEFINE T == Ahead(b, price, b.next_priority_)
           u == QueueModel(b, price, m)
           v == QueueModel(b, price, n)
<1>1. T \in Nat /\ m \in Nat /\ n \in Nat
  BY AheadNat, StudyAssumption
<1>2. /\ u.price_ = price /\ u.cohort_ = level_order_ids(b, side, price)
      /\ u.filled_ = 0 /\ u.ahead_ = T * m
  BY PostedOK
<1>3. /\ v.price_ = price /\ v.cohort_ = level_order_ids(b, side, price)
      /\ v.filled_ = 0 /\ v.ahead_ = T * n
  BY PostedOK
<1>4. T * m <= T * n
  <2> HIDE DEF T
  <2>1. T * n = T * m + T * (n - m)
    BY <1>1, SMT
  <2>2. T * (n - m) \in Nat /\ T * m \in Nat
    <3>1. n - m \in Nat
      BY <1>1
    <3> QED  BY <1>1, <3>1, SMT
  <2> QED  BY <2>1, <2>2, SMT
<1> HIDE DEF u, v, T
<1>5. Comparable(u, v)
  BY <1>2, <1>3, <1>4 DEF Comparable
<1> QED  BY <1>5 DEF u, v

-----------------------------------------------------------------------------
(* The runs. *)

(* The fields of a run. *)
LEMMA RunFields ==
  ASSUME NEW run, GoodRun(run)
  PROVE  /\ run.model = NoModel \/ GoodModel(run.model)
         /\ run.events_since_post \in Nat /\ run.full \in Nat
         /\ run.model.active <=> run.model # NoModel
         /\ run.model = NoModel => ~run.model.active
         /\ run.model # NoModel => GoodModel(run.model)
<1>1. PICK model : run \in RunsWith(model) /\ (model = NoModel \/ GoodModel(model))
  BY DEF GoodRun
<1>2. run.model = model /\ run.events_since_post \in Nat /\ run.full \in Nat
  BY <1>1 DEF RunsWith
<1>3. ~NoModel.active
  BY DEF NoModel
<1> QED  BY <1>1, <1>2, <1>3, ModelFields

(* How a run may go on after an event. *)
Stepped(run, event, after, m, n) ==
  LET filled == run.model # NoModel /\ ~(Reacted(run.model, event).filled_ < size) IN
  /\ GoodRun(n)
  /\ n.full = IF filled THEN run.full + 1 ELSE run.full
  /\ \/ n.model = NoModel
     \/ n.model = QueueModel(after, Best(after, side).price, m) /\ n.events_since_post = 0
     \/ /\ run.model # NoModel /\ n.model = Reacted(run.model, event)
        /\ n.model.filled_ < size /\ n.events_since_post = run.events_since_post + 1

(* The records the loop makes of a run. *)
RunIs(n, model, events, full) ==
  /\ n \in RunsWith(model) /\ n.model = model
  /\ n.events_since_post = events /\ n.full = full

(* Counting an event. *)
LEMMA RunCounted ==
  ASSUME NEW run, NEW model, run \in RunsWith(model), NEW r
  PROVE  RunIs([run EXCEPT !.model = r, !.events_since_post = @ + 1],
               r, run.events_since_post + 1, run.full)
<1>1. run.events_since_post + 1 \in Nat
  BY DEF RunsWith
<1>2. ASSUME NEW e \in Nat
      PROVE  RunIs([run EXCEPT !.model = r, !.events_since_post = e], r, e, run.full)
  BY DEF RunIs, RunsWith
<1> QED  BY <1>1, <1>2

(* Posting an order. *)
LEMMA RunPosted ==
  ASSUME NEW run, NEW model, run \in RunsWith(model), NEW r
  PROVE  RunIs([run EXCEPT !.model = r, !.events_since_post = 0, !.posted = @ + 1],
               r, 0, run.full)
<1>1. run.posted + 1 \in Nat
  BY DEF RunsWith
<1>2. ASSUME NEW p \in Nat
      PROVE  RunIs([run EXCEPT !.model = r, !.events_since_post = 0, !.posted = p], r, 0, run.full)
  BY DEF RunIs, RunsWith
<1> QED  BY <1>1, <1>2

(* Giving an order up, filled or not. *)
LEMMA RunResolved ==
  ASSUME NEW run, NEW model, run \in RunsWith(model)
  PROVE  /\ RunIs(Resolve(run, TRUE), NoModel, run.events_since_post, run.full + 1)
         /\ RunIs(Resolve(run, FALSE), NoModel, run.events_since_post, run.full)
<1>1. ASSUME NEW f \in Nat, NEW a \in Nat
      PROVE  RunIs([run EXCEPT !.model = NoModel, !.full = f, !.any = a],
                   NoModel, run.events_since_post, f)
  <2> DEFINE c == [run EXCEPT !.model = NoModel, !.full = f, !.any = a]
  <2>1. c \in RunsWith(NoModel)
    BY DEF RunsWith
  <2>2. c.model = NoModel /\ c.events_since_post = run.events_since_post /\ c.full = f
    BY DEF RunsWith
  <2> QED  BY <2>1, <2>2 DEF RunIs
<1>2. run.full \in Nat /\ run.any \in Nat
  BY DEF RunsWith
<1> DEFINE a == IF run.model.filled_ > 0 THEN run.any + 1 ELSE run.any
<1>3. a \in Nat /\ run.full + 1 \in Nat
  BY <1>2
<1>4. Resolve(run, TRUE) = [run EXCEPT !.model = NoModel, !.full = run.full + 1, !.any = a]
  BY DEF Resolve
<1>5. Resolve(run, FALSE) = [run EXCEPT !.model = NoModel, !.full = run.full, !.any = a]
  BY DEF Resolve
<1> HIDE DEF a
<1> QED  BY <1>1, <1>2, <1>3, <1>4, <1>5

(* The part of the loop before the book takes the event. *)
LEMMA ReactRun ==
  ASSUME GoodBook(book), NEW run, GoodRun(run), NEW event \in Events
  PROVE  LET n == React(run, event)
             r == Reacted(run.model, event)
             filled == run.model # NoModel /\ ~(r.filled_ < size)
         IN  /\ GoodRun(n)
             /\ n.full = IF filled THEN run.full + 1 ELSE run.full
             /\ \/ n.model = NoModel
                \/ /\ run.model # NoModel /\ n.model = r /\ r.filled_ < size
                   /\ n.events_since_post = run.events_since_post + 1
<1> DEFINE n == React(run, event)
           r == Reacted(run.model, event)
           c == [run EXCEPT !.model = r, !.events_since_post = @ + 1]
<1>1. PICK model : run \in RunsWith(model) /\ (model = NoModel \/ GoodModel(model))
  BY DEF GoodRun
<1>2. run.model = model
  BY <1>1 DEF RunsWith
<1>3. CASE model = NoModel
  <2>1. ~run.model.active
    BY <1>2, <1>3 DEF NoModel
  <2>2. n = run
    BY <2>1 DEF React
  <2> QED  BY <1>2, <1>3, <2>2
<1>4. CASE model # NoModel
  <2>1. GoodModel(model) /\ run.model.active
    BY <1>1, <1>2, <1>4, ModelFields
  <2>2. GoodModel(r)
    BY <1>2, <2>1, ReactedFields
  <2>3. r.filled_ \in 0 .. size /\ size \in Nat
    BY <2>2, ModelFields, StudyAssumption
  <2>4. n = IF c.model.filled_ >= size THEN Resolve(c, TRUE)
            ELSE IF c.events_since_post >= timeout THEN Resolve(c, FALSE)
            ELSE c
    BY <2>1, Zenon DEF React, Reacted
  <2> HIDE DEF r, n
  <2>5. RunIs(c, r, run.events_since_post + 1, run.full)
    BY <1>1, RunCounted
  <2> HIDE DEF c
  <2>6. /\ c \in RunsWith(r) /\ c.model = r /\ c.full = run.full
        /\ c.events_since_post = run.events_since_post + 1
    BY <2>5 DEF RunIs
  <2>7. /\ RunIs(Resolve(c, TRUE), NoModel, c.events_since_post, c.full + 1)
        /\ RunIs(Resolve(c, FALSE), NoModel, c.events_since_post, c.full)
    BY <2>6, RunResolved, Zenon
  <2>8. GoodRun(c)
    BY <2>2, <2>6 DEF GoodRun
  <2>9. CASE ~(r.filled_ < size)
    <3>1. c.model.filled_ >= size
      BY <2>3, <2>6, <2>9
    <3>2. n = Resolve(c, TRUE)
      BY <2>4, <3>1, Zenon
    <3>3. RunIs(n, NoModel, c.events_since_post, run.full + 1)
      BY <2>6, <2>7, <3>2, Zenon
    <3> QED  BY <1>2, <1>4, <2>9, <3>3 DEF n, r, RunIs, GoodRun
  <2>10. CASE r.filled_ < size /\ c.events_since_post >= timeout
    <3>1. ~(c.model.filled_ >= size)
      BY <2>3, <2>6, <2>10
    <3>2. n = Resolve(c, FALSE)
      BY <2>4, <2>10, <3>1, Zenon
    <3>3. RunIs(n, NoModel, c.events_since_post, run.full)
      BY <2>6, <2>7, <3>2, Zenon
    <3> QED  BY <2>10, <3>3 DEF n, r, RunIs, GoodRun
  <2>11. CASE r.filled_ < size /\ ~(c.events_since_post >= timeout)
    <3>1. ~(c.model.filled_ >= size)
      BY <2>3, <2>6, <2>11
    <3>2. n = c
      BY <2>4, <2>11, <3>1, Zenon
    <3> QED  BY <1>2, <1>4, <2>6, <2>8, <2>11, <3>2 DEF n, r
  <2> QED  BY <2>9, <2>10, <2>11
<1> QED  BY <1>3, <1>4

(* The whole of it. *)
LEMMA RunStep ==
  ASSUME GoodBook(book), NEW run, GoodRun(run), NEW event \in Events,
         NEW after, GoodBook(after), NEW m \in Multipliers
  PROVE  Stepped(run, event, after, m, Repost(React(run, event), after, m))
<1> DEFINE c == React(run, event)
           r == Reacted(run.model, event)
           filled == run.model # NoModel /\ ~(r.filled_ < size)
           n == Repost(c, after, m)
           price == Best(after, side).price
           q == QueueModel(after, price, m)
<1>1. /\ GoodRun(c) /\ c.full = IF filled THEN run.full + 1 ELSE run.full
      /\ \/ c.model = NoModel
         \/ /\ run.model # NoModel /\ c.model = r /\ r.filled_ < size
            /\ c.events_since_post = run.events_since_post + 1
  BY ReactRun
<1> HIDE DEF c, r
<1>2. CASE c.model.active \/ Prices(after, side) = {}
  <2>1. n = c
    BY <1>2 DEF Repost
  <2>2. Stepped(run, event, after, m, c)
    BY <1>1 DEF Stepped, r
  <2> QED  BY <2>1, <2>2 DEF c
<1>3. CASE ~(c.model.active \/ Prices(after, side) = {})
  <2>1. n = [c EXCEPT !.model = q, !.events_since_post = 0, !.posted = @ + 1]
    BY <1>3 DEF Repost
  <2>2. GoodModel(q)
    <3> HIDE DEF price
    <3> QED  BY PostedOK
  <2>3. PICK model : c \in RunsWith(model)
    BY <1>1 DEF GoodRun
  <2> HIDE DEF n, q
  <2>4. n \in RunsWith(q) /\ n.model = q /\ n.events_since_post = 0 /\ n.full = c.full
    <3>1. RunIs(n, q, 0, c.full)
      BY <2>1, <2>3, RunPosted, Zenon
    <3> QED  BY <3>1 DEF RunIs
  <2>5. GoodRun(n)
    BY <2>2, <2>4 DEF GoodRun
  <2>6. Stepped(run, event, after, m, n)
    BY <1>1, <2>4, <2>5 DEF Stepped, r, q
  <2> QED  BY <2>6 DEF n, c
<1> QED  BY <1>2, <1>3

-----------------------------------------------------------------------------
(* The invariant. *)

Displayed == runs[Scale].model

StudyType ==
  /\ GoodBook(book)
  /\ runs = [m \in Multipliers |-> runs[m]] /\ \A m \in Multipliers : GoodRun(runs[m])

DisplayedOK == Displayed # NoModel => CohortOK(book, Displayed) /\ Follows(book, Displayed)

BandOK ==
  \A a, b \in Multipliers :
    a < b /\ SamePost(a, b) => Comparable(runs[a].model, runs[b].model)

StudyInv == StudyType /\ DisplayedOK /\ BandOK

(* Before the first event nothing is posted. *)
LEMMA StudyInit == Init => StudyInv
<1> SUFFICES ASSUME Init PROVE StudyInv
  OBVIOUS
<1>1. Scale \in Multipliers
  BY StudyAssumption
<1>2. runs = [m \in Multipliers |-> NoRun] /\ book = EmptyBook
  BY DEF Init
<1>3. \A m \in Multipliers : runs[m] = NoRun /\ runs[m].model = NoModel
  BY <1>2 DEF NoRun
<1>4. GoodRun(NoRun)
  BY DEF NoRun, GoodRun, RunsWith
<1>5. GoodBook(book)
  <2>1. /\ book = [resting |-> book.resting, next_priority_ |-> book.next_priority_,
                   used_slots |-> book.used_slots]
        /\ book.next_priority_ = 0 /\ Ids(book) = {} /\ book.resting = <<>>
    BY <1>2 DEF EmptyBook, Ids
  <2>2. IsFiniteSet({})
    BY FS_EmptySet
  <2>3. book.resting \in [Ids(book) -> Entry]
    BY <2>1
  <2> QED  BY <2>1, <2>2, <2>3 DEF GoodBook
<1>6. ~NoModel.active
  BY DEF NoModel
<1> QED  BY <1>1, <1>2, <1>3, <1>4, <1>5, <1>6
         DEF StudyInv, StudyType, DisplayedOK, BandOK, SamePost, Displayed

(* What an event does to every run. *)
LEMMA EventStep ==
  ASSUME StudyInv, NEW event \in Events, OnEvent(event)
  PROVE  /\ GoodBook(book) /\ GoodBook(book') /\ Moved(book, event, book')
         /\ runs' = [m \in Multipliers |-> runs'[m]]
         /\ \A m \in Multipliers : /\ GoodRun(runs[m])
                                    /\ Stepped(runs[m], event, book', m, runs'[m])
<1>1. GoodBook(book) /\ \A m \in Multipliers : GoodRun(runs[m])
  BY DEF StudyInv, StudyType
<1>2. GoodBook(book') /\ Moved(book, event, book')
  BY <1>1, BookStep DEF OnEvent
<1>3. runs' = [m \in Multipliers |-> Repost(React(runs[m], event), book', m)]
  BY DEF OnEvent
<1>4. \A m \in Multipliers : runs'[m] = Repost(React(runs[m], event), book', m)
  BY <1>3
<1>5. \A m \in Multipliers : Stepped(runs[m], event, book', m, runs'[m])
  BY <1>1, <1>2, <1>4, RunStep
<1>6. runs' = [m \in Multipliers |-> runs'[m]]
  BY <1>3
<1> QED  BY <1>1, <1>2, <1>5, <1>6

(* An event keeps the displayed model in step with the book. *)
LEMMA DisplayedStep ==
  ASSUME StudyInv, NEW event \in Events, OnEvent(event)
  PROVE  DisplayedOK'
<1> DEFINE m == runs[Scale]
           n == runs'[Scale]
<1>1. Scale \in Multipliers
  BY StudyAssumption
<1>2. /\ GoodBook(book) /\ GoodBook(book') /\ Moved(book, event, book')
      /\ GoodRun(m) /\ Stepped(m, event, book', Scale, n)
  BY <1>1, EventStep
<1>3. Displayed # NoModel => CohortOK(book, Displayed) /\ Follows(book, Displayed)
  BY DEF StudyInv, DisplayedOK
<1> SUFFICES ASSUME n.model # NoModel
             PROVE  CohortOK(book', n.model) /\ Follows(book', n.model)
  BY DEF DisplayedOK, Displayed, CohortOK, Follows
<1>4. CASE n.model = QueueModel(book', Best(book', side).price, Scale)
  BY <1>1, <1>2, <1>4, PostedOK
<1>5. CASE /\ m.model # NoModel /\ n.model = Reacted(m.model, event)
           /\ n.model.filled_ < size
  <2>1. GoodModel(m.model)
    BY <1>2, <1>5, RunFields
  <2>2. GoodModel(n.model) /\ Reacts(m.model, event, n.model)
    BY <1>2, <1>5, <2>1, ReactedFields
  <2>3. CohortOK(book, m.model) /\ Follows(book, m.model)
    BY <1>3, <1>5 DEF Displayed
  <2>4. CohortOK(book', n.model)
    BY <1>2, <2>1, <2>2, <2>3, CohortStep
  <2>5. Follows(book', n.model)
    BY <1>2, <1>5, <2>1, <2>2, <2>3, FollowsStep
  <2> QED  BY <2>4, <2>5
<1> QED  BY <1>2, <1>4, <1>5 DEF Stepped

(* The event fills the order of run a completely. *)
Fills(a, event) == runs[a].model # NoModel /\ ~(Reacted(runs[a].model, event).filled_ < size)

(* If an event fills the order with more ahead of it, it fills the other;  *)
(* and if it does not fill the other, it leaves the two comparable.        *)
LEMMA BandFills ==
  ASSUME StudyInv, NEW event \in Events, OnEvent(event),
         NEW a \in Multipliers, NEW b \in Multipliers, a < b, SamePost(a, b)
  PROVE  /\ Fills(b, event) => Fills(a, event)
         /\ ~Fills(a, event) =>
              Comparable(Reacted(runs[a].model, event), Reacted(runs[b].model, event))
<1> DEFINE m == runs[a].model
           n == runs[b].model
           r == Reacted(m, event)
           t == Reacted(n, event)
<1>1. GoodBook(book) /\ GoodRun(runs[a]) /\ GoodRun(runs[b])
  BY DEF StudyInv, StudyType
<1>2. m # NoModel /\ n # NoModel /\ GoodModel(m) /\ GoodModel(n)
  BY <1>1, RunFields DEF SamePost
<1>3. Comparable(m, n)
  BY DEF StudyInv, BandOK
<1>4. GoodModel(r) /\ GoodModel(t) /\ Reacts(m, event, r) /\ Reacts(n, event, t)
  BY <1>1, <1>2, ReactedFields
<1> HIDE DEF m, n, r, t
<1>5. r.filled_ >= t.filled_ /\ (r.filled_ < size => Comparable(r, t))
  BY <1>1, <1>2, <1>3, <1>4, CompareStep
<1>6. r.filled_ \in 0 .. size /\ t.filled_ \in 0 .. size /\ size \in Nat
  BY <1>4, ModelFields, StudyAssumption
<1>7. ~(t.filled_ < size) => ~(r.filled_ < size)
  BY <1>5, <1>6
<1> QED  BY <1>2, <1>5, <1>7 DEF Fills, m, n, r, t

(* An event keeps the runs comparable. *)
LEMMA BandStep ==
  ASSUME StudyInv, NEW event \in Events, OnEvent(event)
  PROVE  BandOK'
<1> SUFFICES ASSUME NEW a \in Multipliers, NEW b \in Multipliers, a < b, SamePost(a, b)'
             PROVE  Comparable(runs'[a].model, runs'[b].model)
  BY DEF BandOK, Comparable
<1>1. /\ GoodBook(book) /\ GoodBook(book')
      /\ GoodRun(runs[a]) /\ Stepped(runs[a], event, book', a, runs'[a])
      /\ GoodRun(runs[b]) /\ Stepped(runs[b], event, book', b, runs'[b])
  BY EventStep
<1>2. /\ runs'[a].model.active /\ runs'[b].model.active
      /\ runs'[a].events_since_post = runs'[b].events_since_post
  BY DEF SamePost
<1>3. runs'[a].model # NoModel /\ runs'[b].model # NoModel
  BY <1>2 DEF NoModel
<1>4. runs[a].events_since_post \in Nat /\ runs[b].events_since_post \in Nat
  BY <1>1, RunFields
<1>5. CASE runs'[a].events_since_post = 0
  <2>1. /\ runs'[a].model = QueueModel(book', Best(book', side).price, a)
        /\ runs'[b].model = QueueModel(book', Best(book', side).price, b)
    BY <1>1, <1>2, <1>3, <1>4, <1>5 DEF Stepped
  <2> QED  BY <1>1, <2>1, ComparePosts
<1>6. CASE runs'[a].events_since_post # 0
  <2>1. /\ runs[a].model # NoModel /\ runs'[a].model = Reacted(runs[a].model, event)
        /\ runs'[a].model.filled_ < size
        /\ runs'[a].events_since_post = runs[a].events_since_post + 1
    BY <1>1, <1>3, <1>6 DEF Stepped
  <2>2. /\ runs[b].model # NoModel /\ runs'[b].model = Reacted(runs[b].model, event)
        /\ runs'[b].events_since_post = runs[b].events_since_post + 1
    BY <1>1, <1>2, <1>3, <1>6 DEF Stepped
  <2>3. SamePost(a, b)
    <3>1. runs[a].model.active /\ runs[b].model.active
      BY <1>1, <2>1, <2>2, RunFields
    <3>2. runs[a].events_since_post = runs[b].events_since_post
      <4>1. runs[a].events_since_post + 1 = runs[b].events_since_post + 1
        BY <1>2, <2>1, <2>2
      <4> QED  BY <1>4, <4>1
    <3> QED  BY <3>1, <3>2 DEF SamePost
  <2>4. ~Fills(a, event)
    BY <2>1 DEF Fills
  <2> QED  BY <2>1, <2>2, <2>3, <2>4, BandFills
<1> QED  BY <1>5, <1>6

(* The end of the feed counts what the last order has and leaves it as it  *)
(* is.                                                                     *)
LEMMA FinishRuns ==
  ASSUME StudyInv, Finish
  PROVE  /\ book' = book /\ runs' = [m \in Multipliers |-> runs'[m]]
         /\ \A m \in Multipliers :
              /\ GoodRun(runs'[m]) /\ runs'[m].model = runs[m].model
              /\ runs'[m].events_since_post = runs[m].events_since_post
              /\ runs'[m].full = runs[m].full
<1>1. book' = book /\ runs' = [m \in Multipliers |->
                IF runs[m].model.active /\ runs[m].model.filled_ > 0
                  THEN [runs[m] EXCEPT !.any = @ + 1] ELSE runs[m]]
  BY DEF Finish
<1>2. runs' = [m \in Multipliers |-> runs'[m]]
  BY <1>1
<1>3. ASSUME NEW m \in Multipliers
      PROVE  /\ GoodRun(runs'[m]) /\ runs'[m].model = runs[m].model
             /\ runs'[m].events_since_post = runs[m].events_since_post
             /\ runs'[m].full = runs[m].full
  <2>1. GoodRun(runs[m])
    BY DEF StudyInv, StudyType
  <2>2. PICK model : runs[m] \in RunsWith(model) /\ (model = NoModel \/ GoodModel(model))
    BY <2>1 DEF GoodRun
  <2>3. runs'[m] = runs[m] \/ runs'[m] = [runs[m] EXCEPT !.any = @ + 1]
    BY <1>1
  <2> DEFINE run == runs[m]
             n == runs'[m]
  <2>4. n = run \/ n = [run EXCEPT !.any = @ + 1]
    BY <2>3
  <2> HIDE DEF run, n
  <2>5. run \in RunsWith(model)
    BY <2>2 DEF run
  <2>6. /\ n \in RunsWith(model) /\ n.model = run.model
        /\ n.events_since_post = run.events_since_post /\ n.full = run.full
    BY <2>4, <2>5 DEF RunsWith
  <2>7. GoodRun(n)
    BY <2>2, <2>6 DEF GoodRun
  <2> QED  BY <2>6, <2>7 DEF run, n
<1> QED  BY <1>1, <1>2, <1>3

(* Every step keeps the invariant. *)
LEMMA StudyNext == StudyInv /\ [Next]_vars => StudyInv'
<1> SUFFICES ASSUME StudyInv, [Next]_vars PROVE StudyInv'
  OBVIOUS
<1>0. Scale \in Multipliers
  BY StudyAssumption
<1>1. ASSUME NEW event \in Events, OnEvent(event) PROVE StudyInv'
  <2>1. StudyType'
    BY <1>1, EventStep DEF StudyType, Stepped
  <2>2. DisplayedOK'
    BY <1>1, DisplayedStep
  <2>3. BandOK'
    BY <1>1, BandStep
  <2> QED  BY <2>1, <2>2, <2>3 DEF StudyInv
<1>2. CASE Finish
  <2>1. /\ book' = book /\ runs' = [m \in Multipliers |-> runs'[m]]
        /\ \A m \in Multipliers :
              /\ GoodRun(runs'[m]) /\ runs'[m].model = runs[m].model
              /\ runs'[m].events_since_post = runs[m].events_since_post
    BY <1>2, FinishRuns
  <2>2. StudyType'
    BY <2>1 DEF StudyInv, StudyType
  <2>3. DisplayedOK'
    BY <1>0, <2>1 DEF StudyInv, DisplayedOK, Displayed
  <2>4. BandOK'
    BY <2>1 DEF StudyInv, BandOK, SamePost
  <2> QED  BY <2>2, <2>3, <2>4 DEF StudyInv
<1>3. CASE UNCHANGED vars
  BY <1>3 DEF vars, StudyInv, StudyType, DisplayedOK, Displayed, BandOK, SamePost
<1> QED  BY <1>1, <1>2, <1>3 DEF Next

(* The invariant holds for every feed and every set of multipliers. *)
THEOREM StudyInvariant == Spec => []StudyInv
BY StudyInit, StudyNext, PTL DEF Spec

(* The displayed model of QueueModel.hpp follows the visible book: ahead_  *)
(* is never more than what rests in front of us, and as long as the feed   *)
(* is in order it is exactly that, and we are filled by exactly what is    *)
(* executed behind our place.                                              *)
THEOREM DisplayedFollows == Spec => []DisplayedFollowsBook
<1>1. StudyInv => DisplayedFollowsBook
  <2> SUFFICES ASSUME StudyInv, runs[Scale].model.active
               PROVE  LET model == runs[Scale].model IN
                      /\ model.ahead_ <= Scale * TrueAhead(model)
                      /\ model.orderly => /\ model.ahead_ = Scale * TrueAhead(model)
                                          /\ model.filled_ = model.reached
    BY DEF DisplayedFollowsBook
  <2>1. GoodRun(runs[Scale])
    BY StudyAssumption DEF StudyInv, StudyType
  <2>2. runs[Scale].model # NoModel
    BY <2>1, RunFields
  <2>3. Follows(book, runs[Scale].model)
    BY <2>2 DEF StudyInv, DisplayedOK, Displayed
  <2>4. TrueAhead(runs[Scale].model) =
          Ahead(book, runs[Scale].model.price_, runs[Scale].model.arrival)
    BY Zenon DEF TrueAhead, Ahead, Front
  <2> QED  BY <2>3, <2>4 DEF Follows
<1> QED  BY <1>1, StudyInvariant, PTL

(* Of two runs of ItchQueue whose orders were posted after the same event, *)
(* the one with the larger multiplier never has less ahead or more filled, *)
(* and its order is not filled completely before the other's, for any      *)
(* rounding of the overflow.                                               *)
THEOREM BandOrdered == Spec => BandIsOrdered
<1> DEFINE Band(a, b) ==
      /\ SamePost(a, b)' =>
           LET displayed == runs'[a].model
               conservative == runs'[b].model
           IN  /\ displayed.ahead_ <= conservative.ahead_
               /\ displayed.filled_ >= conservative.filled_
      /\ SamePost(a, b) /\ runs'[b].full > runs[b].full => runs'[a].full > runs[a].full
<1>1. ASSUME StudyInv, StudyInv', [Next]_vars, NEW a \in Multipliers, NEW b \in Multipliers, a < b
      PROVE  Band(a, b)
  <2>1. SamePost(a, b)' => Comparable(runs'[a].model, runs'[b].model)
    BY <1>1 DEF StudyInv, BandOK, Comparable
  <2>2. runs[a].full \in Nat /\ runs[b].full \in Nat
    BY <1>1, RunFields DEF StudyInv, StudyType
  <2>3. ASSUME SamePost(a, b), runs'[b].full > runs[b].full PROVE runs'[a].full > runs[a].full
    <3>1. ASSUME NEW event \in Events, OnEvent(event) PROVE runs'[a].full > runs[a].full
      <4>1. /\ Stepped(runs[a], event, book', a, runs'[a])
            /\ Stepped(runs[b], event, book', b, runs'[b])
        BY <1>1, <3>1, EventStep
      <4>2. /\ runs'[a].full = IF Fills(a, event) THEN runs[a].full + 1 ELSE runs[a].full
            /\ runs'[b].full = IF Fills(b, event) THEN runs[b].full + 1 ELSE runs[b].full
        BY <4>1 DEF Stepped, Fills
      <4>3. Fills(b, event)
        BY <2>2, <2>3, <4>2
      <4>4. Fills(a, event)
        BY <1>1, <2>3, <3>1, <4>3, BandFills
      <4> QED  BY <2>2, <4>2, <4>4
    <3>2. CASE Finish
      <4>1. runs'[b].full = runs[b].full
        BY <1>1, <3>2, FinishRuns
      <4> QED  BY <2>2, <2>3, <4>1
    <3>3. CASE UNCHANGED vars
      BY <2>2, <2>3, <3>3 DEF vars
    <3> QED  BY <1>1, <3>1, <3>2, <3>3 DEF Next
  <2> QED  BY <2>1, <2>3 DEF Comparable
<1>2. StudyInv /\ StudyInv' /\ [Next]_vars =>
        [\A a, b \in Multipliers : a < b => Band(a, b)]_vars
  BY <1>1
<1> QED  BY <1>2, StudyInvariant, PTL DEF Spec, BandIsOrdered
=============================================================================
