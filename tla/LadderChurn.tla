---------------------------- MODULE LadderChurn ----------------------------
(***************************************************************************)
(* One side's ladder under every order of level births and deaths:         *)
(* acquire_level pushes a level that is not on the ladder, release_level   *)
(* removes any that is.  Two active levels of a side never have the same   *)
(* price, so a slot stands for its price here.                             *)
(***************************************************************************)
EXTENDS PriceLadder, FiniteSetsExt

CONSTANT Levels   \* the prices

ASSUME LevelsAssumption == Levels \subseteq Int /\ IsFiniteSet(Levels)

VARIABLES side, ladder

ladder_vars == <<side, ladder>>

price == [l \in Levels |-> l]

OnLadder == DOMAIN ladder.heap_pos

LadderInit == side \in {"Buy", "Sell"} /\ ladder = EmptyLadder

Push(level) ==
  /\ level \notin OnLadder
  /\ ladder' = ladder_push(side, price, ladder, level)
  /\ UNCHANGED side

Remove(level) ==
  /\ level \in OnLadder
  /\ ladder' = ladder_remove(side, price, ladder, level)
  /\ UNCHANGED side

LadderNext == \E level \in Levels : Push(level) \/ Remove(level)

LadderSpec == LadderInit /\ [][LadderNext]_ladder_vars

-----------------------------------------------------------------------------
(* The heap is an array without holes, heap_pos is its inverse, and        *)
(* nothing is above a better price: removing a level from the middle of    *)
(* the heap keeps the back-pointers of all the others right.               *)
LadderOK ==
  /\ DOMAIN ladder.heap = 0 .. Cardinality(OnLadder) - 1
  /\ \A l \in OnLadder : /\ ladder.heap_pos[l] \in DOMAIN ladder.heap
                         /\ ladder.heap[ladder.heap_pos[l]] = l
  /\ \A p \in DOMAIN ladder.heap \ {0} :
       ladder_before(side, price, ladder.heap[(p - 1) \div 2], ladder.heap[p])

(* best_bid and best_ask read position 0: it holds the best of the levels  *)
(* pushed and not removed, which a step changes by exactly one.            *)
TopIsBest ==
  [][/\ \E l \in Levels : OnLadder' = OnLadder \cup {l} \/ OnLadder' = OnLadder \ {l}
     /\ OnLadder' # {} =>
          ladder'.heap[0] = IF side = "Buy" THEN Max(OnLadder') ELSE Min(OnLadder')
    ]_ladder_vars
=============================================================================
