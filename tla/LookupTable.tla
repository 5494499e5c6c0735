---------------------------- MODULE LookupTable ----------------------------
(***************************************************************************)
(* The open-addressing tables of src/OrderBook.cpp: order_lookup_ (id to   *)
(* order slot) and level_lookup_ (side and price to level slot).  Linear   *)
(* probing from the key's home slot; erasing leaves a tombstone, so that   *)
(* the probes that went past the slot still do.  The two tables differ in  *)
(* one thing: insert_order_lookup falls back on a tombstone when the whole *)
(* table was probed without meeting an empty slot, insert_level_lookup     *)
(* gives up.                                                               *)
(***************************************************************************)
EXTENDS Integers, FiniteSets, FiniteSetsExt

npos == -1

(* The values of `result`, doubled until it is enough. *)
Doubled(value) ==
  LET result[k \in 0 .. value] == IF k = 0 THEN 1 ELSE 2 * result[k - 1]
  IN  result

next_power_of_two(value) ==
  Doubled(value)[Min({k \in 0 .. value : Doubled(value)[k] >= value})]

Empty == [state |-> "Empty"]
Tombstone == [state |-> "Tombstone"]
Occupied(key, value) == [state |-> "Occupied", key |-> key, value |-> value]

Holds(entry, key) == entry.state = "Occupied" /\ entry.key = key

(* mix(..) & mask, then (slot + 1) & mask: the slot of the n-th probe.     *)
Probe(table, home, n) == (home + n) % Cardinality(DOMAIN table)

(* The probes at which P holds. *)
Probes(table, home, P(_)) ==
  {n \in 0 .. Cardinality(DOMAIN table) - 1 : P(table[Probe(table, home, n)])}

(* The slot where the search for key ends: its own, an empty one, or none. *)
SearchEnd(table, home, key) ==
  LET ends == Probes(table, home, LAMBDA e : e = Empty \/ Holds(e, key))
  IN  IF ends = {} THEN npos ELSE Probe(table, home, Min(ends))

(* find_order_index, find_level_index *)
find(table, home, key) ==
  LET slot == SearchEnd(table, home, key)
  IN  IF slot = npos \/ table[slot] = Empty THEN npos ELSE table[slot].value

(* Mutant: neither table falls back on a tombstone. *)
InsertSlot_NeedsEmpty(table, home, reclaims) ==
  LET empties == Probes(table, home, LAMBDA e : e = Empty)
      usable == Probes(table, home, LAMBDA e : e = Empty \/ e = Tombstone)
  IN  IF empties = {} THEN npos ELSE Probe(table, home, Min(usable))

(* The slot insert writes: the first tombstone before the first empty slot *)
(* or that empty slot.  Without an empty slot the first tombstone of all,  *)
(* in the table that reclaims them.                                        *)
InsertSlot(table, home, reclaims) ==
  LET empties == Probes(table, home, LAMBDA e : e = Empty)
      tombs == Probes(table, home, LAMBDA e : e = Tombstone)
      usable == IF empties = {} THEN (IF reclaims THEN tombs ELSE {})
                                ELSE tombs \cup empties
  IN  IF usable = {} THEN npos ELSE Probe(table, home, Min(usable))

(* insert_order_lookup, insert_level_lookup; CanInsert is what they return *)
CanInsert(table, home, reclaims) == InsertSlot(table, home, reclaims) # npos

insert(table, home, key, value, reclaims) ==
  IF CanInsert(table, home, reclaims)
    THEN [table EXCEPT ![InsertSlot(table, home, reclaims)] =
            Occupied(key, value)]
    ELSE table

(* Mutant: the erased slot becomes empty. *)
erase_ToEmpty(table, home, key) ==
  LET slot == SearchEnd(table, home, key)
  IN  IF slot = npos THEN table ELSE [table EXCEPT ![slot] = Empty]

(* erase_order_lookup, erase_level_lookup *)
erase(table, home, key) ==
  LET slot == SearchEnd(table, home, key)
  IN  IF slot = npos \/ table[slot] = Empty
        THEN table
        ELSE [table EXCEPT ![slot] = Tombstone]

-----------------------------------------------------------------------------
(* level_lookup_ by its counts, whatever the homes of its keys: `used`     *)
(* slots are not empty and `held` of them occupied.  erase makes no slot   *)
(* empty, so `used` never falls.                                           *)

TableSize(max_orders) == next_power_of_two(max_orders * 2)

(* insert_level_lookup gives up: no probe meets an empty slot. *)
Saturated(used, max_orders) == used = TableSize(max_orders)

(* `used` after an insertion, which takes an empty slot or, if there is    *)
(* one in its way, a tombstone.                                            *)
UsedAfter(used, held) == {used + 1} \cup {u \in {used} : held < used}
=============================================================================
