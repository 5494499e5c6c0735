----------------------------- MODULE MCBacktest -----------------------------
(* Sizes 1, 2 and 3 give every branch of the strategy with the default     *)
(* thresholds of 30 and 10 per cent: 2 to 1 enters, 3 to 2 holds.          *)
EXTENDS Backtest

MCBids == {NoLevel, [px |-> 1, sz |-> 1], [px |-> 1, sz |-> 2],
           [px |-> 2, sz |-> 3]}
MCAsks == {NoLevel, [px |-> 3, sz |-> 1], [px |-> 4, sz |-> 2]}
=============================================================================
