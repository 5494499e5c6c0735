------------------------------ MODULE Backtest ------------------------------
(***************************************************************************)
(* src/Backtest.cpp: the event-driven backtest of one symbol.  A decision  *)
(* taken at an event becomes an order that arrives latency_ns later; an    *)
(* order that has arrived when the next event comes crosses the book as it *)
(* stood before that event.                                                *)
(*                                                                         *)
(* Of the book the backtester reads the best level of each side, so an     *)
(* event is what it leaves there; it changes one side at most, as every    *)
(* ITCH event does.  A side without orders has size 0, as in L1Row.        *)
(* Events of other symbols return at once.  The loops of on_event() and    *)
(* finish() are unfolded: one Release per order.  trades_ is the length of *)
(* fills_; l1_updates_ and the checksum are left out.                      *)
(***************************************************************************)
EXTENDS Integers, Sequences, FiniteSetsExt

CONSTANTS
  Bids, Asks,                        \* the best levels of either side
  Latencies,                         \* the values of latency_ns
  order_size,
  enter_threshold, exit_threshold,   \* in per cent
  MaxStep,                           \* bound on the time between two events
  MaxEvents                          \* bound on the events

Level == [px : Int, sz : Nat]
NoLevel == [px |-> 0, sz |-> 0]

ASSUME BacktestAssumption ==
  /\ Bids \subseteq Level /\ Asks \subseteq Level
  /\ Latencies \subseteq Nat
  /\ order_size \in Nat \ {0}
  /\ enter_threshold \in Nat /\ exit_threshold \in Nat
  /\ MaxStep \in Nat /\ MaxEvents \in Nat

VARIABLES
  latency_ns,
  bid, ask,           \* book_: best_bid() and best_ask()
  last_ts_,           \* the time of the last event applied
  pending_,           \* the orders in flight, oldest first
  fills_,
  prev_l1_, have_l1_,
  committed_units_,   \* the position the strategy has ordered
  position_, cash_ticks_, unfilled_,
  event,              \* the argument of on_event()
  pc,                 \* where the backtest is
  events,             \* how many events it was given
  dropped             \* the units ordered that found nothing to cross

ledger == <<position_, cash_ticks_, fills_, unfilled_, dropped>>
strategy == <<prev_l1_, have_l1_, committed_units_>>
vars == <<latency_ns, bid, ask, last_ts_, pending_, strategy, ledger, event,
          pc, events>>

Event == [timestamp : Nat, bid : Level, ask : Level]

Init ==
  /\ latency_ns \in Latencies
  /\ bid = NoLevel /\ ask = NoLevel /\ last_ts_ = 0
  /\ pending_ = <<>> /\ fills_ = <<>>
  /\ prev_l1_ = [bid |-> NoLevel, ask |-> NoLevel] /\ have_l1_ = FALSE
  /\ committed_units_ = 0 /\ position_ = 0 /\ cash_ticks_ = 0
  /\ unfilled_ = 0 /\ dropped = 0
  /\ event = [timestamp |-> 0, bid |-> NoLevel, ask |-> NoLevel]
  /\ pc = "idle" /\ events = 0

-----------------------------------------------------------------------------
Signed(side, quantity) == IF side = "Buy" THEN quantity ELSE -quantity

(* The touch an order of this side crosses: the opposite one. *)
Touch(side, b, a) == IF side = "Buy" THEN a ELSE b

(* Mutant: selling costs cash. *)
Fill_SellsCost(side, quantity, now_ns, price) ==
  /\ position_' = position_ + Signed(side, quantity)
  /\ cash_ticks_' = cash_ticks_ - price * quantity
  /\ fills_' = Append(fills_, [timestamp |-> now_ns, side |-> side,
                               price |-> price, quantity |-> quantity])
  /\ UNCHANGED <<unfilled_, dropped>>

Fill(side, quantity, now_ns, price) ==
  /\ position_' = position_ + Signed(side, quantity)
  /\ cash_ticks_' = cash_ticks_ - price * Signed(side, quantity)
  /\ fills_' = Append(fills_, [timestamp |-> now_ns, side |-> side,
                               price |-> price, quantity |-> quantity])
  /\ UNCHANGED <<unfilled_, dropped>>

(* The whole order at the touch, or not at all if there is none. *)
execute_crossing(side, quantity, now_ns, touch) ==
  IF touch.sz = 0
    THEN /\ unfilled_' = unfilled_ + 1
         /\ dropped' = dropped + Signed(side, quantity)
         /\ UNCHANGED <<position_, cash_ticks_, fills_>>
    ELSE Fill(side, quantity, now_ns, touch.px)

(* pending_.front() crosses the book as it is and leaves the queue. *)
ReleaseFront ==
  /\ LET order == Head(pending_)
     IN  execute_crossing(order.side, order.quantity, order.arrival_ns,
                          Touch(order.side, bid, ask))
  /\ pending_' = Tail(pending_)
  /\ UNCHANGED <<latency_ns, bid, ask, last_ts_, strategy, event, pc, events>>

-----------------------------------------------------------------------------
(* on_event *)

(* The next event of the symbol; time does not go back in the feed. *)
OnEvent(e) ==
  /\ pc = "idle" /\ events < MaxEvents
  /\ e.timestamp >= last_ts_
  /\ e.bid = bid \/ e.ask = ask
  /\ event' = e /\ pc' = "release" /\ events' = events + 1
  /\ UNCHANGED <<latency_ns, bid, ask, last_ts_, pending_, strategy, ledger>>

(* Mutant: an order that arrives with the event waits for the next. *)
Arrived_Before ==
  pending_ # <<>> /\ Head(pending_).arrival_ns < event.timestamp

Arrived == pending_ # <<>> /\ Head(pending_).arrival_ns <= event.timestamp

(* release_arrived *)
Release == pc = "release" /\ Arrived /\ ReleaseFront

(* book_.process_event(event), after the arrived orders. *)
Apply == /\ pc = "release" /\ ~Arrived
         /\ bid' = event.bid /\ ask' = event.ask
         /\ last_ts_' = event.timestamp
         /\ pc' = "idle"
         /\ UNCHANGED <<latency_ns, event, events>>

l1_row == [bid |-> event.bid, ask |-> event.ask]

(* Both sides present, and another L1 than at the last sample. *)
Sampled == /\ event.bid.sz > 0 /\ event.ask.sz > 0
           /\ have_l1_ => l1_row # prev_l1_

(* The strategy's signal: -1 short, 0 flat, 1 long. *)
target(l1, current) ==
  LET imbalance == 100 * (l1.bid.sz - l1.ask.sz)
      total == l1.bid.sz + l1.ask.sz
  IN  IF imbalance >= enter_threshold * total THEN 1
      ELSE IF imbalance <= -(enter_threshold * total) THEN -1
      ELSE IF /\ imbalance <= exit_threshold * total
              /\ imbalance >= -(exit_threshold * total) THEN 0
      ELSE current

current_signal == IF committed_units_ > 0 THEN 1
                  ELSE IF committed_units_ < 0 THEN -1 ELSE 0

(* Mutant: the signal is added to what was ordered before. *)
target_units_Adds ==
  committed_units_ + target(l1_row, current_signal) * order_size

target_units == target(l1_row, current_signal) * order_size

(* Nothing to sample: the L1 is one-sided or what it was. *)
ApplyUnsampled ==
  /\ Apply /\ ~Sampled
  /\ UNCHANGED <<pending_, strategy, ledger>>

Sample == prev_l1_' = l1_row /\ have_l1_' = TRUE

(* A sample that asks for no trade. *)
ApplyHold ==
  /\ Apply /\ Sampled /\ Sample
  /\ target_units = committed_units_
  /\ UNCHANGED <<pending_, committed_units_, ledger>>

(* Mutant: the order makes up for the position held, not the one ordered. *)
Delta_FromPosition == target_units - position_

Delta == target_units - committed_units_

(* A decision: the order crosses at once, or goes on its way. *)
ApplyDecide ==
  /\ Apply /\ Sampled /\ Sample
  /\ target_units # committed_units_
  /\ committed_units_' = target_units
  /\ LET side == IF Delta > 0 THEN "Buy" ELSE "Sell"
         quantity == IF Delta > 0 THEN Delta ELSE -Delta
     IN
     IF latency_ns = 0
       THEN /\ execute_crossing(side, quantity, event.timestamp,
                                Touch(side, event.bid, event.ask))
            /\ UNCHANGED pending_
       ELSE /\ pending_' = Append(pending_,
                 [arrival_ns |-> event.timestamp + latency_ns,
                  side |-> side, quantity |-> quantity])
            /\ UNCHANGED ledger

-----------------------------------------------------------------------------
(* finish *)

Finish == /\ pc = "idle" /\ pc' = "finish"
          /\ UNCHANGED <<latency_ns, bid, ask, last_ts_, pending_, strategy,
                         ledger, event, events>>

FinishRelease == pc = "finish" /\ pending_ # <<>> /\ ReleaseFront

(* Mutant: orders still in flight are forgotten. *)
InFlightDone_Ignored == TRUE

InFlightDone == pending_ = <<>>

(* The residual position is closed at the last touch. *)
Flatten ==
  /\ pc = "finish" /\ InFlightDone
  /\ IF position_ = 0 THEN UNCHANGED ledger
     ELSE LET side == IF position_ > 0 THEN "Sell" ELSE "Buy"
              quantity == IF position_ > 0 THEN position_ ELSE -position_
          IN  execute_crossing(side, quantity, last_ts_, Touch(side, bid, ask))
  /\ pc' = "ended"
  /\ UNCHANGED <<latency_ns, bid, ask, last_ts_, pending_, strategy, event,
                 events>>

Ended == pc = "ended" /\ UNCHANGED vars

-----------------------------------------------------------------------------
NextEvents ==
  LET times == last_ts_ .. last_ts_ + MaxStep
  IN  [timestamp : times, bid : {bid}, ask : Asks]
        \cup [timestamp : times, bid : Bids, ask : {ask}]

Next == \/ \E e \in NextEvents : OnEvent(e)
        \/ Release \/ ApplyUnsampled \/ ApplyHold \/ ApplyDecide
        \/ Finish \/ FinishRelease \/ Flatten \/ Ended

Spec == Init /\ [][Next]_vars

-----------------------------------------------------------------------------
Order == [arrival_ns : Nat, side : {"Buy", "Sell"}, quantity : Nat \ {0}]

BacktestTypeOK ==
  /\ latency_ns \in Latencies
  /\ bid \in Level /\ ask \in Level /\ last_ts_ \in Nat
  /\ pending_ \in Seq(Order)
  /\ fills_ \in Seq([timestamp : Nat, side : {"Buy", "Sell"}, price : Int,
                     quantity : Nat \ {0}])
  /\ prev_l1_ \in [bid : Level, ask : Level] /\ have_l1_ \in BOOLEAN
  /\ committed_units_ \in {-order_size, 0, order_size}
  /\ position_ \in Int /\ cash_ticks_ \in Int
  /\ unfilled_ \in Nat /\ dropped \in Int
  /\ event \in Event
  /\ pc \in {"idle", "release", "finish", "ended"}
  /\ events \in 0 .. MaxEvents

(* Leak-free: every fill is at the touch that stood at its time stamp.  An *)
(* order in flight is executed after every event before its arrival and    *)
(* before every event at or after it, however many orders are in flight    *)
(* and however events share a time stamp; without latency, and when the    *)
(* residual position is closed, the fill is at the last event's touch.     *)
NoLookAhead ==
  [][\A i \in Len(fills_) + 1 .. Len(fills_') :
       LET f == fills_'[i] IN
       /\ f.price = Touch(f.side, bid', ask').px
       /\ IF pending_' = pending_
            THEN f.timestamp = last_ts_'
            ELSE /\ f.timestamp > last_ts_ /\ last_ts_' = last_ts_
                 /\ pc = "release" => f.timestamp <= event.timestamp
    ]_vars

SumOf(s, f(_)) == SumFunction([i \in DOMAIN s |-> f(s[i])])

Units(order) == Signed(order.side, order.quantity)

(* "filled + in-flight target position" (the comment of committed_units_,  *)
(* Backtest.hpp:96): what the strategy has committed to is what it holds   *)
(* and what is on its way.                                                 *)
FilledPlusInFlight ==
  pc # "ended" => committed_units_ = position_ + SumOf(pending_, Units)

(* The exact account, FilledPlusInFlight being false once an order has     *)
(* found an empty side: execute_crossing returns and nothing takes the     *)
(* order back from committed_units_.  What it is off by is what was        *)
(* dropped, and only that: with several orders in flight none is ordered   *)
(* twice and none is forgotten.                                            *)
CommitmentAccounted ==
  pc # "ended" => committed_units_ = position_ + SumOf(pending_, Units) + dropped

(* The ledger is the sum of the fills, buys and sells alike. *)
LedgerBalances ==
  /\ position_ = SumOf(fills_, Units)
  /\ cash_ticks_ = -SumOf(fills_, LAMBDA f : f.price * Units(f))

(* The PnL is realized at the end: nothing is in flight and the position   *)
(* is flat, unless the side that would close it was empty.                 *)
RealizedAtEnd ==
  pc = "ended" =>
    /\ pending_ = <<>>
    /\ position_ > 0 => bid.sz = 0
    /\ position_ < 0 => ask.sz = 0
=============================================================================
