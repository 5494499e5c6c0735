---------------------------- MODULE LookupChurn ----------------------------
(***************************************************************************)
(* Either lookup table of the order book under every order of insertions   *)
(* and erasures and every hash function.  The book inserts a key it has    *)
(* not found, erases a key that is there, and never holds more than        *)
(* max_orders keys, half of the table.                                     *)
(***************************************************************************)
EXTENDS LookupTable

CONSTANTS Key, Value,
          max_orders

ASSUME LookupAssumption == max_orders \in Nat \ {0} /\ Value \subseteq Nat

VARIABLES table,
          home,      \* mix(key) & mask
          reclaims,  \* order_lookup_ (TRUE) or level_lookup_ (FALSE)
          contents   \* the map the table stands for

lookup_vars == <<table, home, reclaims, contents>>

LookupSlots == 0 .. next_power_of_two(max_orders * 2) - 1

LookupInit == /\ table = [s \in LookupSlots |-> Empty]
              /\ home \in [Key -> LookupSlots]
              /\ reclaims \in BOOLEAN
              /\ contents = <<>>

Insert(key, value) ==
  /\ key \notin DOMAIN contents
  /\ Cardinality(DOMAIN contents) < max_orders
  /\ table' = insert(table, home[key], key, value, reclaims)
  /\ contents' = IF CanInsert(table, home[key], reclaims)
                   THEN [k \in DOMAIN contents \cup {key} |->
                           IF k = key THEN value ELSE contents[k]]
                   ELSE contents
  /\ UNCHANGED <<home, reclaims>>

Erase(key) ==
  /\ key \in DOMAIN contents
  /\ table' = erase(table, home[key], key)
  /\ contents' = [k \in DOMAIN contents \ {key} |-> contents[k]]
  /\ UNCHANGED <<home, reclaims>>

LookupNext == \E key \in Key : Erase(key) \/ \E value \in Value : Insert(key, value)

LookupSpec == LookupInit /\ [][LookupNext]_lookup_vars

-----------------------------------------------------------------------------
(* find_order_index and find_level_index return the value last inserted    *)
(* under the key, npos for a key that is not there: no insertion into a    *)
(* tombstone and no erasure hides a key that collided with another, and no *)
(* key is ever held twice.                                                 *)
FindAgrees ==
  \A key \in Key :
    find(table, home[key], key) = IF key \in DOMAIN contents THEN contents[key]
                                                             ELSE npos

(* The order table never refuses: as long as an order slot is free, so is  *)
(* a table slot the probe reaches, however many tombstones have piled up.  *)
(* (rest_order's last CapacityExhausted, after the order is linked, is     *)
(* never taken.)                                                           *)
OrderTableNeverRefuses ==
  reclaims /\ Cardinality(DOMAIN contents) < max_orders
    => \A key \in Key : CanInsert(table, home[key], reclaims)
=============================================================================
