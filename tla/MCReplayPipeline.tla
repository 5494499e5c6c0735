-------------------------- MODULE MCReplayPipeline --------------------------
(* market_replay with a queue of four slots (three usable): four files,    *)
(* one long enough to fill the queue and go round the ring twice, one with *)
(* skipped lines, one that fails half way and one that fails at once.  The *)
(* ring is read through views up to three operations old.                  *)
EXTENDS ReplayPipeline

MCItem == 1 .. 8

MCFiles == {<<1, 2, 3, 4, 5, 6, 7, 8>>,
            <<Comment, 1, Comment, 2, Comment>>,
            <<1, 2, 3, Malformed, 4>>,
            <<Malformed>>}
=============================================================================
