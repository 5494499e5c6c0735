-------------------------- MODULE MCPriceTimeBook --------------------------
(* The book of record with two slots and three ids: it fills up, trades    *)
(* through two makers and prices, and rests, kills and refuses.  Its level *)
(* table has four slots, so four levels in turn saturate it.  The ids are  *)
(* interchangeable.                                                        *)
EXTENDS PriceTimeBook, TLC

CONSTANTS o1, o2, o3

MCOrderId == {o1, o2, o3}

Symmetry == Permutations(MCOrderId)
=============================================================================
