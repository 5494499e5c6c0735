--------------------------- MODULE Backtest_proofs ---------------------------
(***************************************************************************)
(* The backtest is leak-free for every latency, order size, pair of        *)
(* thresholds and feed whose time does not go back.                        *)
(*                                                                         *)
(* release_arrived() looks at the front of pending_ only, and the event is *)
(* applied as soon as the front has not arrived.  That no order behind the *)
(* front has arrived either is what OnTheWay adds: the arrivals are in     *)
(* order, and none is further away than the latency, so that the next      *)
(* order goes to the back by right.                                        *)
(*                                                                         *)
(* Position, cash and commitment are running totals of pending_, fills_    *)
(* and dropped: the ledger proof follows each sum as an order is appended, *)
(* released from the front, filled or dropped.                             *)
(***************************************************************************)
EXTENDS Backtest, Sums_proofs, TLAPS

OnTheWay ==
  /\ \A i \in DOMAIN pending_ :
       /\ pending_[i].arrival_ns > last_ts_
       /\ pending_[i].arrival_ns <= last_ts_ + latency_ns
  /\ \A i, j \in DOMAIN pending_ :
       i < j => pending_[i].arrival_ns <= pending_[j].arrival_ns

Inv == /\ BacktestTypeOK
       /\ OnTheWay
       /\ pc = "release" => event.timestamp >= last_ts_

-----------------------------------------------------------------------------
(* The backtest starts with Inv: nothing is in flight. *)
LEMMA InvInit == Init => Inv
<1> SUFFICES ASSUME Init PROVE Inv
  OBVIOUS
<1>1. NoLevel \in Level
  BY DEF NoLevel, Level
<1>2. OnTheWay
  BY DEF Init, OnTheWay
<1>3. /\ event \in Event /\ prev_l1_ \in [bid : Level, ask : Level]
      /\ bid \in Level /\ ask \in Level
  BY <1>1 DEF Init, Event
<1>4. /\ pending_ \in Seq(Order)
      /\ fills_ \in Seq([timestamp : Nat, side : {"Buy", "Sell"}, price : Int,
                         quantity : Nat \ {0}])
  BY DEF Init
<1>5. /\ last_ts_ \in Nat /\ committed_units_ \in {-order_size, 0, order_size}
      /\ position_ \in Int /\ cash_ticks_ \in Int
      /\ unfilled_ \in Nat /\ dropped \in Int /\ events \in 0 .. MaxEvents
  BY BacktestAssumption DEF Init
<1>6. latency_ns \in Latencies /\ have_l1_ \in BOOLEAN /\ pc = "idle"
  BY Zenon DEF Init
<1> QED
  BY <1>2, <1>3, <1>4, <1>5, <1>6 DEF Inv, BacktestTypeOK

(* The ledger part of the type invariant. *)
LedgerType ==
  /\ fills_ \in Seq([timestamp : Nat, side : {"Buy", "Sell"}, price : Int,
                     quantity : Nat \ {0}])
  /\ position_ \in Int /\ cash_ticks_ \in Int
  /\ unfilled_ \in Nat /\ dropped \in Int

(* execute_crossing keeps the types of the ledger. *)
LEMMA CrossingType ==
  ASSUME LedgerType, NEW side \in {"Buy", "Sell"}, NEW quantity \in Nat \ {0},
         NEW now_ns \in Nat, NEW touch \in Level,
         execute_crossing(side, quantity, now_ns, touch)
  PROVE  LedgerType'
<1>1. Signed(side, quantity) \in Int /\ touch.px \in Int
  BY DEF Signed, Level
<1>2. touch.px * Signed(side, quantity) \in Int
  BY <1>1
<1>3. CASE touch.sz = 0
  BY <1>1, <1>3 DEF execute_crossing, LedgerType
<1>4. CASE touch.sz # 0
  <2>1. Fill(side, quantity, now_ns, touch.px)
    BY <1>4 DEF execute_crossing
  <2> QED
    BY <1>1, <1>2, <2>1 DEF Fill, LedgerType
<1> QED
  BY <1>3, <1>4

(* execute_crossing adds one fill at the touch, or none. *)
LEMMA CrossingFills ==
  ASSUME LedgerType, NEW side, NEW quantity, NEW now_ns, NEW touch,
         execute_crossing(side, quantity, now_ns, touch)
  PROVE  \A i \in Len(fills_) + 1 .. Len(fills_') :
           /\ fills_'[i].timestamp = now_ns
           /\ fills_'[i].side = side
           /\ fills_'[i].price = touch.px
<1>1. CASE touch.sz = 0
  BY <1>1 DEF execute_crossing, LedgerType
<1>2. CASE touch.sz # 0
  <2>1. fills_' = Append(fills_, [timestamp |-> now_ns, side |-> side,
                                  price |-> touch.px, quantity |-> quantity])
    BY <1>2 DEF execute_crossing, Fill
  <2> QED
    BY <2>1 DEF LedgerType
<1> QED
  BY <1>1, <1>2

(* The front order leaves: the others are still on their way. *)
LEMMA ReleaseFrontInv ==
  ASSUME Inv, ReleaseFront, pending_ # <<>>
  PROVE  Inv'
<1>1. /\ Head(pending_) \in Order
      /\ Tail(pending_) \in Seq(Order)
      /\ Len(Tail(pending_)) = Len(pending_) - 1
      /\ \A i \in DOMAIN Tail(pending_) : /\ i + 1 \in DOMAIN pending_
                                          /\ Tail(pending_)[i] = pending_[i + 1]
  BY DEF Inv, BacktestTypeOK
<1>2. LedgerType'
  <2>1. LedgerType
    BY DEF Inv, BacktestTypeOK, LedgerType
  <2>2. Touch(Head(pending_).side, bid, ask) \in Level
    BY DEF Inv, BacktestTypeOK, Touch
  <2> QED
    BY <1>1, <2>1, <2>2, CrossingType DEF ReleaseFront, Order
<1>3. OnTheWay'
  <2>1. pending_' = Tail(pending_) /\ UNCHANGED <<last_ts_, latency_ns>>
    BY DEF ReleaseFront
  <2>2. \A i \in DOMAIN pending_' : i \in Int
    BY <1>1, <2>1
  <2> QED
    BY <1>1, <2>1, <2>2 DEF Inv, OnTheWay
<1> QED
  BY <1>1, <1>2, <1>3 DEF ReleaseFront, Inv, BacktestTypeOK, LedgerType, strategy

(* Nothing in flight has arrived when the event is applied. *)
LEMMA ApplyFacts ==
  ASSUME Inv, Apply
  PROVE  /\ \A i \in DOMAIN pending_ :
              /\ pending_[i].arrival_ns > last_ts_'
              /\ pending_[i].arrival_ns <= last_ts_' + latency_ns
         /\ last_ts_' = event.timestamp /\ last_ts_' \in Nat /\ latency_ns \in Nat
         /\ bid' \in Level /\ ask' \in Level
         /\ bid' = event.bid /\ ask' = event.ask
         /\ pc' = "idle" /\ UNCHANGED <<latency_ns, event, events>>
<1>1. /\ last_ts_' = event.timestamp /\ last_ts_' \in Nat /\ last_ts_ \in Nat
      /\ latency_ns \in Nat /\ last_ts_' >= last_ts_
      /\ bid' \in Level /\ ask' \in Level
      /\ bid' = event.bid /\ ask' = event.ask
      /\ pc' = "idle" /\ UNCHANGED <<latency_ns, event, events>>
  BY BacktestAssumption DEF Apply, Inv, BacktestTypeOK, Event
<1>2. ASSUME NEW i \in DOMAIN pending_
      PROVE  /\ pending_[i].arrival_ns > last_ts_'
             /\ pending_[i].arrival_ns <= last_ts_' + latency_ns
  <2>1. /\ pending_ \in Seq(Order) /\ i \in 1 .. Len(pending_)
        /\ 1 \in DOMAIN pending_ /\ Head(pending_) = pending_[1]
        /\ pending_[i] \in Order /\ pending_[1] \in Order
    BY <1>2 DEF Inv, BacktestTypeOK
  <2>2. pending_[1].arrival_ns > event.timestamp
    BY <1>1, <2>1 DEF Apply, Arrived, Order
  <2>3. pending_[1].arrival_ns <= pending_[i].arrival_ns
    <3>1. CASE i = 1
      BY <2>1, <3>1 DEF Order
    <3>2. CASE i # 1
      <4>1. 1 < i /\ i \in DOMAIN pending_
        BY <1>2, <2>1, <3>2
      <4> QED
        BY <2>1, <4>1 DEF Inv, OnTheWay
    <3> QED
      BY <3>1, <3>2
  <2> QED
    BY <1>1, <1>2, <2>1, <2>2, <2>3 DEF Inv, OnTheWay, Order
<1> QED
  BY <1>1, <1>2

(* The strategy's target is one order long, one short, or flat. *)
LEMMA TargetType ==
  target_units \in {-order_size, 0, order_size}
<1>1. current_signal \in {-1, 0, 1}
  BY DEF current_signal
<1>2. target(l1_row, current_signal) \in {-1, 0, 1}
  BY <1>1 DEF target
<1> QED
  BY <1>2, BacktestAssumption DEF target_units

(* A decision keeps Inv: the new order arrives last. *)
LEMMA ApplyDecideInv == Inv /\ ApplyDecide => Inv'
<1> SUFFICES ASSUME Inv, ApplyDecide PROVE Inv'
  OBVIOUS
<1> DEFINE side == IF Delta > 0 THEN "Buy" ELSE "Sell"
           quantity == IF Delta > 0 THEN Delta ELSE -Delta
           order == [arrival_ns |-> event.timestamp + latency_ns,
                     side |-> side, quantity |-> quantity]
<1>1. Apply /\ Sample /\ committed_units_' = target_units
  BY DEF ApplyDecide
<1>2. /\ \A i \in DOMAIN pending_ :
           /\ pending_[i].arrival_ns > last_ts_'
           /\ pending_[i].arrival_ns <= last_ts_' + latency_ns
      /\ last_ts_' = event.timestamp /\ last_ts_' \in Nat /\ latency_ns \in Nat
      /\ bid' \in Level /\ ask' \in Level
      /\ bid' = event.bid /\ ask' = event.ask
      /\ pc' = "idle" /\ UNCHANGED <<latency_ns, event, events>>
  BY <1>1, ApplyFacts
<1>3. side \in {"Buy", "Sell"} /\ quantity \in Nat \ {0}
  BY TargetType, BacktestAssumption
     DEF ApplyDecide, Delta, Inv, BacktestTypeOK
<1>4. LedgerType
  BY DEF Inv, BacktestTypeOK, LedgerType
<1>5. pending_ \in Seq(Order)
  BY DEF Inv, BacktestTypeOK
<1>6. /\ prev_l1_' \in [bid : Level, ask : Level] /\ have_l1_' \in BOOLEAN
      /\ committed_units_' \in {-order_size, 0, order_size}
  BY <1>1, <1>2, TargetType DEF Sample, l1_row
<1>7. CASE latency_ns = 0
  <2>1. /\ execute_crossing(side, quantity, event.timestamp,
                            Touch(side, event.bid, event.ask))
        /\ pending_' = pending_
    BY <1>7 DEF ApplyDecide
  <2>2. Touch(side, event.bid, event.ask) \in Level
    BY <1>2 DEF Touch
  <2>3. LedgerType'
    BY <1>2, <1>3, <1>4, <2>1, <2>2, CrossingType
  <2>4. OnTheWay'
    BY <1>2, <2>1 DEF Inv, OnTheWay
  <2> QED
    BY <1>2, <1>6, <2>1, <2>3, <2>4 DEF Inv, BacktestTypeOK, LedgerType
<1>8. CASE latency_ns # 0
  <2>1. pending_' = Append(pending_, order) /\ UNCHANGED ledger
    BY <1>8 DEF ApplyDecide
  <2>2. order \in Order
    BY <1>2, <1>3 DEF Order
  <2>3. /\ pending_' \in Seq(Order)
        /\ DOMAIN pending_' = 1 .. Len(pending_) + 1
        /\ \A i \in DOMAIN pending_ : pending_'[i] = pending_[i]
        /\ pending_'[Len(pending_) + 1] = order
        /\ DOMAIN pending_ = 1 .. Len(pending_) /\ Len(pending_) \in Nat
    BY <1>5, <2>1, <2>2
  <2>4. /\ order.arrival_ns > last_ts_'
        /\ order.arrival_ns = last_ts_' + latency_ns
    BY <1>2, <1>8
  <2>5. \A i \in DOMAIN pending_' :
          /\ pending_'[i].arrival_ns > last_ts_'
          /\ pending_'[i].arrival_ns <= last_ts_' + latency_ns
    BY <1>2, <2>3, <2>4
  <2>6. \A i, j \in DOMAIN pending_' :
          i < j => pending_'[i].arrival_ns <= pending_'[j].arrival_ns
    BY <1>2, <2>3, <2>4 DEF Inv, OnTheWay
  <2>7. OnTheWay'
    BY <1>2, <2>5, <2>6 DEF OnTheWay
  <2>8. LedgerType'
    BY <1>4, <2>1 DEF LedgerType, ledger
  <2> QED
    BY <1>2, <1>6, <2>3, <2>7, <2>8 DEF Inv, BacktestTypeOK, LedgerType
<1> QED
  BY <1>7, <1>8

(* Every step keeps Inv. *)
LEMMA InvNext == Inv /\ [Next]_vars => Inv'
<1> SUFFICES ASSUME Inv, [Next]_vars PROVE Inv'
  OBVIOUS
<1>1. ASSUME NEW e \in NextEvents, OnEvent(e) PROVE Inv'
  <2>1. e \in Event
    BY <1>1, BacktestAssumption DEF NextEvents, Event, Inv, BacktestTypeOK
  <2>2. /\ UNCHANGED <<latency_ns, bid, ask, last_ts_, pending_, prev_l1_,
                       have_l1_, committed_units_, position_, cash_ticks_,
                       fills_, unfilled_, dropped>>
        /\ event' = e /\ e.timestamp >= last_ts_ /\ pc' = "release"
        /\ events' = events + 1 /\ events < MaxEvents
    BY <1>1 DEF OnEvent, strategy, ledger
  <2>3. events' \in 0 .. MaxEvents
    BY <2>2, BacktestAssumption DEF Inv, BacktestTypeOK
  <2>4. OnTheWay'
    BY <2>2 DEF Inv, OnTheWay
  <2> QED
    BY <2>1, <2>2, <2>3, <2>4 DEF Inv, BacktestTypeOK
<1>2. CASE Release
  BY <1>2, ReleaseFrontInv DEF Release, Arrived
<1>3. CASE ApplyUnsampled \/ ApplyHold
  <2>1. Apply /\ UNCHANGED <<pending_, committed_units_, ledger>>
    BY <1>3 DEF ApplyUnsampled, ApplyHold, strategy
  <2>2. /\ \A i \in DOMAIN pending_ :
             /\ pending_[i].arrival_ns > last_ts_'
             /\ pending_[i].arrival_ns <= last_ts_' + latency_ns
        /\ last_ts_' \in Nat /\ bid' \in Level /\ ask' \in Level
        /\ bid' = event.bid /\ ask' = event.ask
        /\ pc' = "idle" /\ UNCHANGED <<latency_ns, event, events>>
    BY <2>1, ApplyFacts
  <2>3. OnTheWay'
    BY <2>1, <2>2 DEF Inv, OnTheWay
  <2>4. prev_l1_' \in [bid : Level, ask : Level] /\ have_l1_' \in BOOLEAN
    <3>1. CASE ApplyUnsampled
      BY <3>1 DEF ApplyUnsampled, strategy, Inv, BacktestTypeOK
    <3>2. CASE ApplyHold
      <4>1. event.bid \in Level /\ event.ask \in Level
        BY <2>2
      <4> QED
        BY <3>2, <4>1 DEF ApplyHold, Sample, l1_row
    <3> QED
      BY <1>3, <3>1, <3>2
  <2> QED
    BY <2>1, <2>2, <2>3, <2>4 DEF Inv, BacktestTypeOK, ledger
<1>4. CASE ApplyDecide
  BY <1>4, ApplyDecideInv
<1>5. CASE Finish
  BY <1>5 DEF Finish, Inv, BacktestTypeOK, OnTheWay, strategy, ledger
<1>6. CASE FinishRelease
  BY <1>6, ReleaseFrontInv DEF FinishRelease
<1>7. CASE Flatten
  <2>1. /\ UNCHANGED <<latency_ns, bid, ask, last_ts_, pending_, strategy,
                       event, events>>
        /\ pc' = "ended"
    BY <1>7 DEF Flatten
  <2>2. LedgerType
    BY DEF Inv, BacktestTypeOK, LedgerType
  <2>3. LedgerType'
    <3>1. CASE position_ = 0
      BY <1>7, <2>2, <3>1 DEF Flatten, LedgerType, ledger
    <3>2. CASE position_ # 0
      <4> DEFINE side == IF position_ > 0 THEN "Sell" ELSE "Buy"
                 quantity == IF position_ > 0 THEN position_ ELSE -position_
      <4>1. execute_crossing(side, quantity, last_ts_, Touch(side, bid, ask))
        BY <1>7, <3>2 DEF Flatten
      <4>2. /\ side \in {"Buy", "Sell"} /\ quantity \in Nat \ {0}
            /\ last_ts_ \in Nat /\ Touch(side, bid, ask) \in Level
        BY <3>2 DEF Inv, BacktestTypeOK, Touch
      <4> QED
        BY <2>2, <4>1, <4>2, CrossingType
    <3> QED
      BY <3>1, <3>2
  <2> QED
    BY <2>1, <2>3 DEF Inv, BacktestTypeOK, OnTheWay, LedgerType, strategy
<1>8. CASE Ended \/ UNCHANGED vars
  BY <1>8 DEF Ended, vars, Inv, BacktestTypeOK, OnTheWay, strategy, ledger
<1> QED
  BY <1>1, <1>2, <1>3, <1>4, <1>5, <1>6, <1>7, <1>8 DEF Next

(* The invariant holds throughout every backtest. *)
THEOREM Invariant == Spec => []Inv
BY InvInit, InvNext, PTL DEF Spec

(* Type correctness: the target is one order long, one short or flat, and  *)
(* no order is for nothing.                                                *)
THEOREM TypeCorrect == Spec => []BacktestTypeOK
<1>1. Inv => BacktestTypeOK
  BY DEF Inv
<1> QED
  BY <1>1, Invariant, PTL

-----------------------------------------------------------------------------
(* No fill of a backtest looks ahead: each is at the touch that stood at   *)
(* its time stamp.                                                         *)
THEOREM LeakFree == Spec => NoLookAhead
<1> DEFINE Fair == \A i \in Len(fills_) + 1 .. Len(fills_') :
       LET f == fills_'[i] IN
       /\ f.price = Touch(f.side, bid', ask').px
       /\ IF pending_' = pending_
            THEN f.timestamp = last_ts_'
            ELSE /\ f.timestamp > last_ts_ /\ last_ts_' = last_ts_
                 /\ pc = "release" => f.timestamp <= event.timestamp
<1>1. ASSUME Inv, [Next]_vars PROVE [Fair]_vars
  <2>1. LedgerType
    BY <1>1 DEF Inv, BacktestTypeOK, LedgerType
  <2>2. ASSUME UNCHANGED fills_ PROVE Fair
    BY <2>1, <2>2 DEF LedgerType
  <2>3. ASSUME ReleaseFront, pending_ # <<>>,
               pc = "release" => Head(pending_).arrival_ns <= event.timestamp
        PROVE  Fair
    <3> DEFINE order == Head(pending_)
    <3>1. /\ execute_crossing(order.side, order.quantity, order.arrival_ns,
                              Touch(order.side, bid, ask))
          /\ pending_' = Tail(pending_) /\ UNCHANGED <<bid, ask, last_ts_>>
      BY <2>3 DEF ReleaseFront
    <3>2. pending_ \in Seq(Order) /\ Len(pending_) > 0 /\ order = pending_[1]
      BY <1>1, <2>3 DEF Inv, BacktestTypeOK
    <3>3. pending_' # pending_
      BY <3>1, <3>2
    <3>4. order.arrival_ns > last_ts_
      BY <1>1, <3>2 DEF Inv, OnTheWay
    <3>5. \A i \in Len(fills_) + 1 .. Len(fills_') :
            /\ fills_'[i].timestamp = order.arrival_ns
            /\ fills_'[i].side = order.side
            /\ fills_'[i].price = Touch(order.side, bid, ask).px
      BY <2>1, <3>1, CrossingFills
    <3> QED
      BY <2>3, <3>1, <3>3, <3>4, <3>5
  <2>4. CASE Release
    BY <2>3, <2>4 DEF Release, Arrived
  <2>5. CASE FinishRelease
    BY <2>3, <2>5 DEF FinishRelease
  <2>6. CASE ApplyDecide
    <3> DEFINE side == IF Delta > 0 THEN "Buy" ELSE "Sell"
               quantity == IF Delta > 0 THEN Delta ELSE -Delta
    <3>1. /\ bid' = event.bid /\ ask' = event.ask
          /\ last_ts_' = event.timestamp
      BY <2>6 DEF ApplyDecide, Apply
    <3>2. CASE latency_ns = 0
      <4>1. /\ execute_crossing(side, quantity, event.timestamp,
                                Touch(side, event.bid, event.ask))
            /\ pending_' = pending_
        BY <2>6, <3>2 DEF ApplyDecide
      <4>2. \A i \in Len(fills_) + 1 .. Len(fills_') :
              /\ fills_'[i].timestamp = event.timestamp
              /\ fills_'[i].side = side
              /\ fills_'[i].price = Touch(side, event.bid, event.ask).px
        BY <2>1, <4>1, CrossingFills
      <4> QED
        BY <3>1, <4>1, <4>2
    <3>3. CASE latency_ns # 0
      BY <2>2, <2>6, <3>3 DEF ApplyDecide, ledger
    <3> QED
      BY <3>2, <3>3
  <2>7. CASE Flatten
    <3> DEFINE side == IF position_ > 0 THEN "Sell" ELSE "Buy"
               quantity == IF position_ > 0 THEN position_ ELSE -position_
    <3>1. UNCHANGED <<bid, ask, last_ts_, pending_>>
      BY <2>7 DEF Flatten
    <3>2. CASE position_ = 0
      BY <2>2, <2>7, <3>2 DEF Flatten, ledger
    <3>3. CASE position_ # 0
      <4>1. execute_crossing(side, quantity, last_ts_, Touch(side, bid, ask))
        BY <2>7, <3>3 DEF Flatten
      <4>2. \A i \in Len(fills_) + 1 .. Len(fills_') :
              /\ fills_'[i].timestamp = last_ts_
              /\ fills_'[i].side = side
              /\ fills_'[i].price = Touch(side, bid, ask).px
        BY <2>1, <4>1, CrossingFills
      <4> QED
        BY <3>1, <4>2
    <3> QED
      BY <3>2, <3>3
  <2>8. CASE \/ \E e \in NextEvents : OnEvent(e)
             \/ ApplyUnsampled \/ ApplyHold \/ Finish \/ Ended \/ UNCHANGED vars
    BY <2>2, <2>8 DEF OnEvent, ApplyUnsampled, ApplyHold, Finish, Ended, vars,
                      ledger
  <2> QED
    BY <1>1, <2>4, <2>5, <2>6, <2>7, <2>8 DEF Next
<1> QED
  BY <1>1, Invariant, PTL DEF Spec, NoLookAhead

-----------------------------------------------------------------------------
(* The sums over the queue and over the fills, step by step. *)

FillRecord == [timestamp : Nat, side : {"Buy", "Sell"}, price : Int,
               quantity : Nat \ {0}]

UnitsOf(s) == [i \in DOMAIN s |-> Units(s[i])]
CostOf(s) == [i \in DOMAIN s |-> s[i].price * Units(s[i])]

(* The units of the orders in flight are integers; one more order adds     *)
(* its own, and the front order takes its own away.                        *)
LEMMA PendingUnits ==
  ASSUME NEW s \in Seq(Order)
  PROVE  /\ SumFunction(UnitsOf(s)) \in Int
         /\ \A e \in Order : SumFunction(UnitsOf(Append(s, e)))
                               = SumFunction(UnitsOf(s)) + Units(e)
         /\ s # <<>> => SumFunction(UnitsOf(s))
                          = Units(Head(s)) + SumFunction(UnitsOf(Tail(s)))
<1>1. \A e \in Order : Units(e) \in Int
  BY DEF Order, Units, Signed
<1>2. /\ UnitsOf(s) \in Seq(Int) /\ DOMAIN UnitsOf(s) = 1 .. Len(s)
      /\ Len(UnitsOf(s)) = Len(s)
  BY <1>1 DEF UnitsOf
<1>3. SumFunction(UnitsOf(s)) \in Int
  <2>1. IsFiniteSet(1 .. Len(s)) /\ \A i \in 1 .. Len(s) : UnitsOf(s)[i] \in Int
    BY <1>2, FS_Interval
  <2> QED  BY <1>2, <2>1, SumInt DEF SumFunction
<1>4. ASSUME NEW e \in Order
      PROVE  SumFunction(UnitsOf(Append(s, e))) = SumFunction(UnitsOf(s)) + Units(e)
  <2>1. UnitsOf(Append(s, e)) = Append(UnitsOf(s), Units(e))
    BY <1>1, <1>2 DEF UnitsOf
  <2> QED  BY <1>1, <1>2, <2>1, SumAppend
<1>5. ASSUME s # <<>>
      PROVE  SumFunction(UnitsOf(s))
               = Units(Head(s)) + SumFunction(UnitsOf(Tail(s)))
  <2>1. UnitsOf(Tail(s)) = Tail(UnitsOf(s)) /\ Units(Head(s)) = Head(UnitsOf(s))
        /\ UnitsOf(s) # <<>>
    BY <1>2, <1>5 DEF UnitsOf
  <2> QED  BY <1>2, <2>1, SumTail
<1> QED  BY <1>3, <1>4, <1>5

(* A fill adds its units and its cost to the ledger's sums. *)
LEMMA FillSums ==
  ASSUME NEW s \in Seq(FillRecord), NEW e \in FillRecord
  PROVE  /\ SumFunction(UnitsOf(s)) \in Int /\ SumFunction(CostOf(s)) \in Int
         /\ SumFunction(UnitsOf(Append(s, e)))
              = SumFunction(UnitsOf(s)) + Units(e)
         /\ SumFunction(CostOf(Append(s, e)))
              = SumFunction(CostOf(s)) + e.price * Units(e)
<1>1. \A f \in FillRecord : Units(f) \in Int /\ f.price * Units(f) \in Int
  BY DEF FillRecord, Units, Signed
<1>2. /\ UnitsOf(s) \in Seq(Int) /\ DOMAIN UnitsOf(s) = 1 .. Len(s)
      /\ CostOf(s) \in Seq(Int) /\ DOMAIN CostOf(s) = 1 .. Len(s)
  BY <1>1 DEF UnitsOf, CostOf
<1>3. IsFiniteSet(1 .. Len(s))
  BY FS_Interval
<1>4. SumFunction(UnitsOf(s)) \in Int
  <2>1. \A i \in 1 .. Len(s) : UnitsOf(s)[i] \in Int
    BY <1>2
  <2> QED  BY <1>2, <1>3, <2>1, SumInt DEF SumFunction
<1>5. SumFunction(CostOf(s)) \in Int
  <2>1. \A i \in 1 .. Len(s) : CostOf(s)[i] \in Int
    BY <1>2
  <2> QED  BY <1>2, <1>3, <2>1, SumInt DEF SumFunction
<1>6. UnitsOf(Append(s, e)) = Append(UnitsOf(s), Units(e))
  BY <1>1, <1>2 DEF UnitsOf
<1>7. CostOf(Append(s, e)) = Append(CostOf(s), e.price * Units(e))
  BY <1>1, <1>2 DEF CostOf
<1> QED  BY <1>1, <1>2, <1>4, <1>5, <1>6, <1>7, SumAppend

(* The two sums of LedgerBalances, named. *)
LEMMA BalanceSums ==
  LedgerBalances <=> /\ position_ = SumFunction(UnitsOf(fills_))
                     /\ cash_ticks_ = -SumFunction(CostOf(fills_))
  BY DEF LedgerBalances, SumOf, UnitsOf, CostOf

(* Crossing the book, filled or not, keeps the ledger balanced and moves   *)
(* the units of the order to the position or to what was dropped.          *)
LEMMA CrossingBalances ==
  ASSUME LedgerType, LedgerBalances,
         NEW side \in {"Buy", "Sell"}, NEW quantity \in Nat \ {0},
         NEW now_ns \in Nat, NEW touch \in Level,
         execute_crossing(side, quantity, now_ns, touch)
  PROVE  /\ LedgerBalances'
         /\ position_' + dropped' = position_ + dropped + Signed(side, quantity)
<1>1. /\ Signed(side, quantity) \in Int /\ touch.px \in Int
      /\ position_ \in Int /\ dropped \in Int /\ cash_ticks_ \in Int
  BY DEF Signed, Level, LedgerType
<1>2. CASE touch.sz = 0
  BY <1>1, <1>2 DEF execute_crossing, LedgerBalances, SumOf
<1>3. CASE touch.sz # 0
  <2> DEFINE fill == [timestamp |-> now_ns, side |-> side,
                      price |-> touch.px, quantity |-> quantity]
  <2>1. /\ position_' = position_ + Signed(side, quantity)
        /\ cash_ticks_' = cash_ticks_ - touch.px * Signed(side, quantity)
        /\ fills_' = Append(fills_, fill) /\ dropped' = dropped
    BY <1>3 DEF execute_crossing, Fill
  <2>2. fill \in FillRecord /\ fills_ \in Seq(FillRecord)
    BY <1>1 DEF FillRecord, LedgerType
  <2>3. Units(fill) = Signed(side, quantity) /\ fill.price = touch.px
    BY DEF Units
  <2> HIDE DEF fill
  <2>4. /\ SumFunction(UnitsOf(fills_)) \in Int /\ SumFunction(CostOf(fills_)) \in Int
        /\ SumFunction(UnitsOf(fills_'))
             = SumFunction(UnitsOf(fills_)) + Signed(side, quantity)
        /\ SumFunction(CostOf(fills_'))
             = SumFunction(CostOf(fills_)) + touch.px * Signed(side, quantity)
    BY <2>1, <2>2, <2>3, FillSums
  <2>5. /\ position_ = SumFunction(UnitsOf(fills_))
        /\ cash_ticks_ = -SumFunction(CostOf(fills_))
    BY BalanceSums
  <2>6. touch.px * Signed(side, quantity) \in Int
    BY <1>1
  <2>7. /\ position_' = SumFunction(UnitsOf(fills_'))
        /\ cash_ticks_' = -SumFunction(CostOf(fills_'))
    BY <2>1, <2>4, <2>5, <2>6
  <2>8. LedgerBalances'
    BY <2>7 DEF LedgerBalances, SumOf, UnitsOf, CostOf
  <2> QED  BY <1>1, <2>1, <2>8
<1> QED  BY <1>2, <1>3

(* CommitmentAccounted with its sum named. *)
Committed ==
  pc # "ended" =>
    committed_units_ = position_ + SumFunction(UnitsOf(pending_)) + dropped

BookInv == LedgerBalances /\ Committed /\ RealizedAtEnd

(* Nothing has been traded at the start. *)
LEMMA BookInvInit == Init => BookInv
<1> SUFFICES ASSUME Init PROVE BookInv
  OBVIOUS
<1>1. UnitsOf(<<>>) = <<>> /\ CostOf(<<>>) = <<>> /\ DOMAIN (<<>>) = {}
  BY DEF UnitsOf, CostOf
<1>2. SumFunction(<<>>) = 0
  BY <1>1, SumEmpty DEF SumFunction
<1>3. LedgerBalances /\ Committed
  BY <1>1, <1>2, BalanceSums DEF Init, Committed
<1> QED  BY <1>3 DEF BookInv, Init, RealizedAtEnd

(* The front order moves from the queue to the position, or is dropped. *)
LEMMA ReleaseFrontBooks ==
  ASSUME Inv, BookInv, ReleaseFront, pending_ # <<>>, pc # "ended"
  PROVE  BookInv'
<1> DEFINE order == Head(pending_)
<1>1. pending_ \in Seq(Order) /\ order \in Order /\ pending_' = Tail(pending_)
  BY DEF Inv, BacktestTypeOK, ReleaseFront
<1>2. /\ execute_crossing(order.side, order.quantity, order.arrival_ns,
                          Touch(order.side, bid, ask))
      /\ pc' = pc /\ committed_units_' = committed_units_
  BY DEF ReleaseFront, strategy
<1>3. LedgerType /\ Touch(order.side, bid, ask) \in Level
  BY DEF Inv, BacktestTypeOK, LedgerType, Touch
<1>4. /\ order.side \in {"Buy", "Sell"} /\ order.quantity \in Nat \ {0}
      /\ order.arrival_ns \in Nat
  BY <1>1 DEF Order
<1>5. /\ LedgerBalances'
      /\ position_' + dropped'
           = position_ + dropped + Signed(order.side, order.quantity)
  BY <1>2, <1>3, <1>4, CrossingBalances DEF BookInv
<1>6. SumFunction(UnitsOf(pending_)) = Units(order) + SumFunction(UnitsOf(pending_'))
  BY <1>1, PendingUnits
<1>7. SumFunction(UnitsOf(pending_')) \in Int
  <2>1. pending_' \in Seq(Order)
    BY <1>1
  <2> HIDE DEF order
  <2> QED  BY <2>1, PendingUnits
<1>8. position_' \in Int /\ dropped' \in Int
  BY <1>2, <1>3, <1>4, CrossingType DEF LedgerType
<1>9. Units(order) = Signed(order.side, order.quantity) /\ Units(order) \in Int
  BY <1>4 DEF Units, Signed
<1>10. position_ \in Int /\ dropped \in Int
  BY <1>3 DEF LedgerType
<1> HIDE DEF order
<1>11. Committed'
  <2>1. committed_units_ = position_ + SumFunction(UnitsOf(pending_)) + dropped
    BY DEF BookInv, Committed
  <2>2. committed_units_'
          = position_' + SumFunction(UnitsOf(pending_')) + dropped'
    <3> DEFINE before == SumFunction(UnitsOf(pending_))
               after == SumFunction(UnitsOf(pending_'))
    <3>1. before = Units(order) + after /\ after \in Int
      BY <1>6, <1>7
    <3>2. committed_units_ = position_ + before + dropped
      BY <2>1
    <3> HIDE DEF before, after
    <3>3. /\ position_' + dropped' = position_ + dropped + Units(order)
          /\ committed_units_' = committed_units_ /\ Units(order) \in Int
      BY <1>2, <1>5, <1>9
    <3>4. PICK p \in Int, d \in Int : p = position_' /\ d = dropped'
      BY <1>8
    <3>5. p + d = position_ + dropped + Units(order)
      BY <3>3, <3>4
    <3>6. p + after + d = position_ + before + dropped
      BY <1>10, <3>1, <3>3, <3>5
    <3> QED  BY <3>2, <3>3, <3>4, <3>6 DEF after
  <2> QED  BY <2>2 DEF Committed
<1> QED  BY <1>2, <1>5, <1>11 DEF BookInv, RealizedAtEnd

(* A decision puts what it adds to the target in flight, or trades it. *)
LEMMA ApplyDecideBooks ==
  ASSUME Inv, BookInv, ApplyDecide
  PROVE  BookInv'
<1> DEFINE side == IF Delta > 0 THEN "Buy" ELSE "Sell"
           quantity == IF Delta > 0 THEN Delta ELSE -Delta
           order == [arrival_ns |-> event.timestamp + latency_ns,
                     side |-> side, quantity |-> quantity]
<1>1. /\ committed_units_' = target_units /\ pc = "release" /\ pc' = "idle"
      /\ target_units # committed_units_
  BY DEF ApplyDecide, Apply
<1>2. /\ target_units \in Int /\ committed_units_ \in Int
      /\ Delta = target_units - committed_units_
  BY TargetType, BacktestAssumption DEF Inv, BacktestTypeOK, Delta
<1>3. /\ side \in {"Buy", "Sell"} /\ quantity \in Nat \ {0}
      /\ Signed(side, quantity) = Delta
  BY <1>1, <1>2 DEF Signed
<1>4. LedgerType /\ pending_ \in Seq(Order) /\ event \in Event
      /\ latency_ns \in Nat
  BY BacktestAssumption DEF Inv, BacktestTypeOK, LedgerType
<1>5. position_ \in Int /\ dropped \in Int
  BY <1>4 DEF LedgerType
<1>6. committed_units_ = position_ + SumFunction(UnitsOf(pending_)) + dropped
  BY <1>1 DEF BookInv, Committed
<1>7. SumFunction(UnitsOf(pending_)) \in Int
  BY <1>4, PendingUnits
<1>8. CASE latency_ns = 0
  <2>1. /\ execute_crossing(side, quantity, event.timestamp,
                            Touch(side, event.bid, event.ask))
        /\ pending_' = pending_
    BY <1>8 DEF ApplyDecide
  <2>2. Touch(side, event.bid, event.ask) \in Level /\ event.timestamp \in Nat
    BY <1>4 DEF Touch, Event
  <2> HIDE DEF side, quantity
  <2>3. /\ LedgerBalances'
        /\ position_' + dropped' = position_ + dropped + Delta
    BY <1>3, <1>4, <2>1, <2>2, CrossingBalances DEF BookInv
  <2>4. position_' \in Int /\ dropped' \in Int
    BY <1>3, <1>4, <2>1, <2>2, CrossingType DEF LedgerType
  <2>5. committed_units_'
          = position_' + SumFunction(UnitsOf(pending_')) + dropped'
    <3> DEFINE inflight == SumFunction(UnitsOf(pending_))
    <3>1. committed_units_ = position_ + inflight + dropped /\ inflight \in Int
      BY <1>6, <1>7
    <3>2. SumFunction(UnitsOf(pending_')) = inflight
      BY <2>1
    <3> HIDE DEF inflight
    <3>3. Delta \in Int
      BY <1>2
    <3>4. PICK p \in Int, d \in Int : p = position_' /\ d = dropped'
      BY <2>4
    <3>5. p + d = position_ + dropped + Delta
      BY <2>3, <3>4
    <3>6. p + inflight + d = position_ + inflight + dropped + Delta
      BY <1>5, <3>1, <3>3, <3>5
    <3>7. committed_units_' = committed_units_ + Delta
      BY <1>1, <1>2
    <3>8. committed_units_' = p + inflight + d
      BY <3>1, <3>6, <3>7
    <3> QED  BY <3>2, <3>4, <3>8
  <2> QED  BY <1>1, <2>3, <2>5 DEF BookInv, Committed, RealizedAtEnd
<1>9. CASE latency_ns # 0
  <2>1. pending_' = Append(pending_, order) /\ UNCHANGED ledger
    BY <1>9 DEF ApplyDecide
  <2>2. order \in Order /\ Units(order) = Delta
    BY <1>3, <1>4 DEF Order, Event, Units
  <2> HIDE DEF order
  <2>3. SumFunction(UnitsOf(pending_')) = SumFunction(UnitsOf(pending_)) + Delta
    BY <1>4, <2>1, <2>2, PendingUnits
  <2>4. committed_units_'
          = position_' + SumFunction(UnitsOf(pending_')) + dropped'
    <3> DEFINE before == SumFunction(UnitsOf(pending_))
               after == SumFunction(UnitsOf(pending_'))
    <3>1. /\ after = before + Delta /\ before \in Int
          /\ committed_units_ = position_ + before + dropped
      BY <1>6, <1>7, <2>3
    <3> HIDE DEF before, after
    <3>2. committed_units_' = position_' + after + dropped'
      BY <1>1, <1>2, <1>5, <2>1, <3>1 DEF ledger
    <3> QED  BY <3>2 DEF after
  <2>5. LedgerBalances'
    BY <2>1 DEF BookInv, LedgerBalances, SumOf, ledger
  <2> QED  BY <1>1, <2>4, <2>5 DEF BookInv, Committed, RealizedAtEnd
<1> QED  BY <1>8, <1>9

(* Closing the residual position realizes the PnL if there is a touch. *)
LEMMA FlattenBooks ==
  ASSUME Inv, BookInv, Flatten
  PROVE  BookInv'
<1>1. /\ pc' = "ended" /\ pending_ = <<>>
      /\ pending_' = pending_ /\ bid' = bid /\ ask' = ask
  BY DEF Flatten, InFlightDone
<1>2. LedgerType /\ bid \in Level /\ ask \in Level /\ last_ts_ \in Nat
  BY DEF Inv, BacktestTypeOK, LedgerType
<1>3. CASE position_ = 0
  <2>1. UNCHANGED ledger
    BY <1>3 DEF Flatten
  <2>2. LedgerBalances'
    BY <2>1 DEF BookInv, LedgerBalances, SumOf, ledger
  <2> QED  BY <1>1, <1>3, <2>1, <2>2 DEF BookInv, Committed, RealizedAtEnd, ledger
<1>4. CASE position_ # 0
  <2> DEFINE side == IF position_ > 0 THEN "Sell" ELSE "Buy"
             quantity == IF position_ > 0 THEN position_ ELSE -position_
             touch == Touch(side, bid, ask)
  <2>1. execute_crossing(side, quantity, last_ts_, touch)
    BY <1>4 DEF Flatten
  <2>2. /\ side \in {"Buy", "Sell"} /\ quantity \in Nat \ {0}
        /\ touch \in Level /\ position_ \in Int
        /\ Signed(side, quantity) = -position_
    BY <1>2, <1>4 DEF Touch, LedgerType, Signed
  <2>3. LedgerBalances'
    BY <1>2, <2>1, <2>2, CrossingBalances DEF BookInv
  <2>4. touch.sz # 0 => position_' = 0
    BY <2>1, <2>2 DEF execute_crossing, Fill
  <2>5. touch.sz = 0 => position_' = position_
    BY <2>1 DEF execute_crossing
  <2>6. touch = IF position_ > 0 THEN bid ELSE ask
    BY DEF Touch
  <2>7. /\ position_' > 0 => bid.sz = 0
        /\ position_' < 0 => ask.sz = 0
    BY <2>2, <2>4, <2>5, <2>6
  <2> QED  BY <1>1, <2>3, <2>7 DEF BookInv, Committed, RealizedAtEnd
<1> QED  BY <1>3, <1>4

(* Every step keeps the books. *)
LEMMA BookInvNext == Inv /\ BookInv /\ [Next]_vars => BookInv'
<1> SUFFICES ASSUME Inv, BookInv, [Next]_vars PROVE BookInv'
  OBVIOUS
<1>1. ASSUME UNCHANGED <<ledger, pending_, committed_units_>>,
             (pc' # "ended" /\ pc # "ended") \/ UNCHANGED <<pc, bid, ask>>
      PROVE  BookInv'
  <2>1. LedgerBalances'
    BY <1>1 DEF BookInv, LedgerBalances, SumOf, ledger
  <2>2. Committed' /\ RealizedAtEnd'
    BY <1>1 DEF BookInv, Committed, RealizedAtEnd, ledger, UnitsOf
  <2> QED  BY <2>1, <2>2 DEF BookInv
<1>2. CASE (\E e \in NextEvents : OnEvent(e)) \/ Finish
  BY <1>1, <1>2 DEF OnEvent, Finish, strategy
<1>3. CASE ApplyUnsampled \/ ApplyHold
  BY <1>1, <1>3 DEF ApplyUnsampled, ApplyHold, Apply, strategy
<1>4. CASE Release \/ FinishRelease
  BY <1>4, ReleaseFrontBooks DEF Release, FinishRelease, Arrived
<1>5. CASE ApplyDecide
  BY <1>5, ApplyDecideBooks
<1>6. CASE Flatten
  BY <1>6, FlattenBooks
<1>7. CASE Ended \/ UNCHANGED vars
  BY <1>1, <1>7 DEF Ended, vars, strategy
<1> QED
  BY <1>2, <1>3, <1>4, <1>5, <1>6, <1>7 DEF Next

(* The three accounts below, together and in inductive form. *)
THEOREM BooksKept == Spec => []BookInv
BY BookInvInit, BookInvNext, Invariant, PTL DEF Spec

(* committed_units_ is what is held, plus what is in flight, plus what was *)
(* dropped, for any number of orders in flight.                            *)
THEOREM CommitmentKept == Spec => []CommitmentAccounted
<1>1. BookInv => CommitmentAccounted
  BY DEF BookInv, Committed, CommitmentAccounted, SumOf, UnitsOf
<1> QED  BY <1>1, BooksKept, PTL

(* position_ and cash_ticks_ are the sums of all fills, for any history. *)
THEOREM LedgerKept == Spec => []LedgerBalances
<1>1. BookInv => LedgerBalances
  BY DEF BookInv
<1> QED  BY <1>1, BooksKept, PTL

(* finish() leaves nothing in flight, and no position it could have closed. *)
THEOREM EndsRealized == Spec => []RealizedAtEnd
<1>1. BookInv => RealizedAtEnd
  BY DEF BookInv
<1> QED  BY <1>1, BooksKept, PTL
=============================================================================
