---------------------------- MODULE MCQueueStudy ----------------------------
(* Three order ids on one side and two prices, so that the touch moves; a  *)
(* multiplier of 1 and one of 3/2, so that the overflow is rounded; orders *)
(* that take two executions to fill, and time out.  The book has room for  *)
(* two orders, so that it fills up and its four level slots are used up.   *)
EXTENDS QueueStudy, TLC

Symmetry == Permutations(OrderId)
=============================================================================
