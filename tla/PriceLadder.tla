---------------------------- MODULE PriceLadder ----------------------------
(***************************************************************************)
(* The price ladder of src/OrderBook.cpp: per side an indexed binary heap  *)
(* of level slots, best price on top.  A ladder is a record of the heap    *)
(* (positions 0 .. size - 1 to level slots) and of the heap_pos field of   *)
(* its levels; `price` gives the price of a level slot.                    *)
(***************************************************************************)
EXTENDS Integers, FiniteSets

EmptyLadder == [heap |-> <<>>, heap_pos |-> <<>>]

Size(ladder) == Cardinality(DOMAIN ladder.heap)

(* Mutant: both ladders have the highest price on top. *)
ladder_before_Highest(side, price, a, b) == price[a] > price[b]

ladder_before(side, price, a, b) ==
  IF side = "Buy" THEN price[a] > price[b] ELSE price[a] < price[b]

(* heap[pos] = level, and levels_[level].heap_pos = pos. *)
Place(ladder, pos, level) ==
  [heap |-> [p \in DOMAIN ladder.heap \cup {pos} |->
               IF p = pos THEN level ELSE ladder.heap[p]],
   heap_pos |-> [l \in DOMAIN ladder.heap_pos \cup {level} |->
                   IF l = level THEN pos ELSE ladder.heap_pos[l]]]

Swap(ladder, p, q) ==
  Place(Place(ladder, p, ladder.heap[q]), q, ladder.heap[p])

(* One turn of the loop of ladder_sift_up: the level at pos changes places *)
(* with its parent, or stays.                                              *)
SiftUpTurn(side, price, s) ==
  LET parent == (s.pos - 1) \div 2 IN
  IF /\ s.pos > 0
     /\ ladder_before(side, price, s.ladder.heap[s.pos], s.ladder.heap[parent])
    THEN [ladder |-> Swap(s.ladder, s.pos, parent), pos |-> parent]
    ELSE s

(* The loop has ended after pos turns: each one but the last lowers pos.   *)
ladder_sift_up(side, price, ladder, pos) ==
  LET after[n \in 0 .. pos] ==
        IF n = 0 THEN [ladder |-> ladder, pos |-> pos]
                 ELSE SiftUpTurn(side, price, after[n - 1])
  IN  after[pos].ladder

(* One turn of the loop of ladder_sift_down: the level at pos changes      *)
(* places with the better of its children, or stays.                       *)
SiftDownTurn(side, price, s) ==
  LET heap == s.ladder.heap
      Better(p, q) ==
        IF p < Size(s.ladder) /\ ladder_before(side, price, heap[p], heap[q])
          THEN p ELSE q
      best == Better(2 * s.pos + 2, Better(2 * s.pos + 1, s.pos))
  IN  IF best = s.pos THEN s
      ELSE [ladder |-> Swap(s.ladder, s.pos, best), pos |-> best]

(* The loop has ended after Size(ladder) turns: each one but the last      *)
(* raises pos.                                                             *)
ladder_sift_down(side, price, ladder, pos) ==
  LET after[n \in 0 .. Size(ladder)] ==
        IF n = 0 THEN [ladder |-> ladder, pos |-> pos]
                 ELSE SiftDownTurn(side, price, after[n - 1])
  IN  after[Size(ladder)].ladder

ladder_push(side, price, ladder, level) ==
  ladder_sift_up(side, price, Place(ladder, Size(ladder), level), Size(ladder))

(* Mutant: the level that fills the hole only moves down. *)
ladder_remove_OnlyDown(side, price, ladder, level) ==
  LET pos == ladder.heap_pos[level]
      last == Size(ladder) - 1
      shrunk == [heap |-> [p \in 0 .. last - 1 |-> ladder.heap[p]],
                 heap_pos |-> [l \in DOMAIN ladder.heap_pos \ {level} |->
                                 ladder.heap_pos[l]]]
  IN  IF pos = last THEN shrunk
      ELSE ladder_sift_down(side, price,
                            Place(shrunk, pos, ladder.heap[last]), pos)

(* The last level fills the hole and moves down or up to where it belongs. *)
ladder_remove(side, price, ladder, level) ==
  LET pos == ladder.heap_pos[level]
      last == Size(ladder) - 1
      shrunk == [heap |-> [p \in 0 .. last - 1 |-> ladder.heap[p]],
                 heap_pos |-> [l \in DOMAIN ladder.heap_pos \ {level} |->
                                 ladder.heap_pos[l]]]
      filled == Place(shrunk, pos, ladder.heap[last])
  IN  IF pos = last THEN shrunk
      ELSE ladder_sift_up(side, price,
                          ladder_sift_down(side, price, filled, pos), pos)
=============================================================================
