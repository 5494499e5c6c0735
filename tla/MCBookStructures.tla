-------------------------- MODULE MCBookStructures --------------------------
(* The structures of the book under the histories that wear them out.  A   *)
(* ladder alone, under every order of levels that come and go.  A lookup   *)
(* table alone, under every hash function.  And a book of one slot whose   *)
(* level table is used up by its second level, under submits and every     *)
(* event but Modify, the one that a saturated table breaks                 *)
(* (RefusedEventChangesNothing); no ITCH message is one.  A behaviour      *)
(* takes one of the three, and the other two stay as they were made.       *)
EXTENDS MCOrderBook, LadderChurn, LookupChurn

VARIABLE part

WornNext ==
  \/ MatchNext
  \/ \E id \in OrderId :
       \/ Cancel(id)
       \/ \E quantity \in Quantity : Trade(id, quantity)
       \/ \E price_ \in Price, quantity \in Quantity :
            \/ \E side_ \in Side : Add(id, side_, price_, quantity)
            \/ \E new_id \in OrderId : Replace(id, new_id, price_, quantity)

StructuresInit ==
  /\ part \in {"ladder", "lookup", "book"}
  /\ Init /\ LadderInit /\ LookupInit
  /\ part # "ladder" => side = "Buy"
  /\ part # "lookup" => reclaims /\ home = [key \in Key |-> 0]

StructuresNext ==
  /\ UNCHANGED part
  /\ \/ part = "ladder" /\ LadderNext /\ UNCHANGED <<vars, lookup_vars>>
     \/ part = "lookup" /\ LookupNext /\ UNCHANGED <<vars, ladder_vars>>
     \/ part = "book" /\ WornNext /\ UNCHANGED <<ladder_vars, lookup_vars>>

StructuresSpec ==
  StructuresInit /\ [][StructuresNext]_<<vars, ladder_vars, lookup_vars, part>>
=============================================================================
