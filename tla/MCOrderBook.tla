---------------------------- MODULE MCOrderBook ----------------------------
(* The order book in its two modes, and with a saturated level table.      *)
(*                                                                         *)
(* All ids share one home slot, the last of the table, so that probes      *)
(* collide and wrap, and so that the ids are interchangeable.  The levels  *)
(* have two neighbouring homes.  With these homes a table slot stays empty *)
(* however many levels come and go: a level is at most Capacity slots from *)
(* its home.  (LookupChurn goes through all hash functions.)               *)
EXTENDS OrderBook, TLC

CONSTANTS o1, o2, o3, o4

ThreeIds == {o1, o2, o3}
FourIds == {o1, o2, o3, o4}
Symmetry == Permutations(OrderId)

LastSlot == next_power_of_two(Capacity * 2) - 1

CollidingIds == [id \in OrderId |-> LastSlot]
CollidingLevels == [key \in Side \X Price |->
                      IF key[2] = 1 THEN LastSlot ELSE LastSlot + 1]

(* Homes that reach every slot of a table of two. *)
SpreadLevels == [key \in Side \X Price |-> key[2]]

(* Limit orders that may rest, of every quantity; the others of the        *)
(* largest.  A market order's price is ignored and its GTC is IOC.         *)
MatchRequests ==
  {r \in OrderRequest :
     \/ MayRest(r) /\ (r.quantity = 0 => r.side = "Buy" /\ r.price = 1)
     \/ r.quantity = 2 /\ r.order_type = "Limit"
     \/ r.quantity = 2 /\ r.order_type = "Market" /\ r.tif = "GTC" /\ r.price = 1}
=============================================================================
