---------------------------- MODULE BoundedFifo ----------------------------
(***************************************************************************)
(* What SpscQueue promises its two callers: a FIFO of at most Limit items. *)
(* A push or a pop may fail at any time without an effect (in the code a   *)
(* failing call is one that saw the queue full or empty through an index   *)
(* that may be stale), so failing calls are stuttering steps here.         *)
(***************************************************************************)
EXTENDS Naturals, Sequences

CONSTANTS Item,   \* what the queue carries
          Limit   \* usable_capacity: how many items it holds at most

VARIABLES queue,    \* the items pushed and not yet popped, oldest first
          offered,  \* the argument of the push that is under way or last was
          taken     \* the item the last successful pop returned

Init == queue = <<>> /\ offered \in Item /\ taken \in Item

Offer == offered' \in Item /\ UNCHANGED <<queue, taken>>

Push == /\ Len(queue) < Limit
        /\ queue' = Append(queue, offered)
        /\ UNCHANGED <<offered, taken>>

Pop == /\ queue # <<>>
       /\ taken' = Head(queue)
       /\ queue' = Tail(queue)
       /\ UNCHANGED offered

Next == Offer \/ Push \/ Pop

Spec == Init /\ [][Next]_<<queue, offered, taken>>
=============================================================================
