----------------------------- MODULE OrderTypes -----------------------------
(***************************************************************************)
(* The vocabulary of include/market/MarketDataEvent.hpp and OrderTypes.hpp *)
(* shared by the book of record (PriceTimeBook) and its implementation     *)
(* (OrderBook).                                                            *)
(***************************************************************************)
EXTENDS Integers

CONSTANTS OrderId, Price, Quantity,   \* the values events are made of
          Requests                    \* the orders submitted to match mode

Side == {"Buy", "Sell"}
OrderType == {"Limit", "Market"}
TimeInForce == {"GTC", "IOC", "FOK"}

OrderRequest == [id : OrderId, side : Side, price : Price,
                 quantity : Quantity, order_type : OrderType,
                 tif : TimeInForce]

(* Prices are signed ticks and quantities unsigned. *)
ASSUME InputAssumption ==
  Price \subseteq Int /\ Quantity \subseteq Nat /\ Requests \subseteq OrderRequest

ProcessResult == {"Applied", "InvalidQuantity", "DuplicateOrderId",
                  "OrderNotFound", "CapacityExhausted"}
SubmitResult == {"FilledComplete", "RestedNoFill", "PartialFillRested",
                 "PartialFillKilled", "NoFillKilled", "Canceled",
                 "RejectedFOK", "RejectedDuplicate", "RejectedCapacity",
                 "RejectedInvalid"}

Opposite(side) == IF side = "Buy" THEN "Sell" ELSE "Buy"

(* may_rest *)
MayRest(request) == request.order_type = "Limit" /\ request.tif = "GTC"

(* Mutant: a limit price does not trade with its equal. *)
crosses_Strictly(request, level_price) ==
  \/ request.order_type = "Market"
  \/ IF request.side = "Buy" THEN request.price > level_price
                             ELSE request.price < level_price

crosses(request, level_price) ==
  \/ request.order_type = "Market"
  \/ IF request.side = "Buy" THEN request.price >= level_price
                             ELSE request.price <= level_price
=============================================================================
