----------------------------- MODULE ItchReplay -----------------------------
(***************************************************************************)
(* The programs that reconstruct books from an ITCH stream:                *)
(* src/ItchReplay.cpp with one book (apply_all) and with a book per symbol *)
(* (apply_all_symbols), and src/ItchFeatures.cpp, which writes the top of  *)
(* one symbol's book whenever it changes.                                  *)
(*                                                                         *)
(* The three are run side by side on one stream, so that what they report  *)
(* can be compared; one connector (FramedStream) stands for the three they *)
(* have, since what it delivers does not depend on who reads.  A program   *)
(* that has counted max_events events has left its loop.                   *)
(***************************************************************************)
EXTENDS FramedStream, MultiSymbolBook, Functions

CONSTANTS OrderId, Price, Quantity,  \* the values the messages are made of
          max_orders,                \* --capacity
          locate,                    \* --locate of itch_features
          MaxEvents                  \* the values of --max; 0 is no limit

ASSUME ReplayAssumption ==
  max_orders \in Nat \ {0} /\ locate \in Nat /\ MaxEvents \subseteq Nat

VARIABLES
  max_events,
  book, counts,            \* apply_all
  multi, symbol_counts,    \* apply_all_symbols
  result,                  \* what MultiSymbolBook::process_event returned last
  locate_book, rows        \* itch_features: its book and the rows written

program_vars == <<max_events, book, counts, multi, symbol_counts, result,
                  locate_book, rows>>
vars == <<frame_vars, program_vars>>

NoCounts == [decoded |-> 0, applied |-> 0, rejected |-> 0, peak_orders |-> 0]

Init ==
  /\ FrameInit
  /\ max_events \in MaxEvents
  /\ book = EmptyBook /\ multi = NoBooks /\ locate_book = EmptyBook
  /\ counts = NoCounts /\ symbol_counts = NoCounts
  /\ result = "Applied" /\ rows = <<>>

Running(decoded) == max_events = 0 \/ decoded < max_events

Count(c, outcome) ==
  [c EXCEPT !.decoded = @ + 1,
            !.applied = IF outcome = "Applied" THEN @ + 1 ELSE @,
            !.rejected = IF outcome = "Applied" THEN @ ELSE @ + 1]

(* The body of apply_all's loop. *)
Apply(event) ==
  IF Running(counts.decoded)
    THEN /\ book' \in process_event(book, event, max_orders)
         /\ counts' = [Count(counts, Outcome(book, event, max_orders))
                        EXCEPT !.peak_orders = Max({@, order_count(book')})]
    ELSE UNCHANGED <<book, counts>>

(* The body of apply_all_symbols' loop. *)
ApplySymbols(event) ==
  IF Running(symbol_counts.decoded)
    THEN /\ multi' \in Route(multi, event)
         /\ result' = RouteOutcome(multi, event)
         /\ symbol_counts' = Count(symbol_counts, result')
    ELSE UNCHANGED <<multi, result, symbol_counts>>

(* Mutant: only the best prices are compared. *)
l1_changed_PricesOnly(a, b) ==
  a.bid.price # b.bid.price \/ a.ask.price # b.ask.price

l1_changed(a, b) == a.bid # b.bid \/ a.ask # b.ask

l1_row(sequence, b) ==
  [sequence |-> sequence, bid |-> Best(b, "Buy"), ask |-> Best(b, "Sell")]

(* The body of itch_features' loop; it counts the symbol's events, each of *)
(* which has a number of its own.                                          *)
SymbolEvents(events) == SelectSeq(events, LAMBDA d : d.event.symbol = locate)

Sample(sequence, event) ==
  IF event.symbol = locate /\ Running(Len(SymbolEvents(delivered)))
    THEN LET row == l1_row(sequence, locate_book') IN
         /\ locate_book' \in process_event(locate_book, event, max_orders)
         /\ rows' = IF rows = <<>> \/ l1_changed(rows[Len(rows)], row)
                      THEN Append(rows, row) ELSE rows
    ELSE UNCHANGED <<locate_book, rows>>

(* A turn of the connector, and of the programs when it delivers. *)
Next ==
  /\ FrameNext
  /\ UNCHANGED max_events
  /\ IF delivered' = delivered
       THEN UNCHANGED program_vars
       ELSE LET last == delivered'[Len(delivered')] IN
            /\ Apply(last.event)
            /\ ApplySymbols(last.event)
            /\ Sample(last.sequence, last.event)

(* Nothing blocks: a file read returns. *)
Spec == Init /\ [][Next]_vars /\ WF_vars(Next)

-----------------------------------------------------------------------------
Symbols == 0 .. max_symbols - 1

Events == {EventFrom(<<b>>) : b \in DOMAIN Message}

(* The longest stream: the size of a file is a bounded number. *)
Longest == Max({Len(bytes) : bytes \in UNION Range(Streams)})

ASSUME LongestAssumption ==
  /\ Longest \in Nat
  /\ \A p \in DOMAIN Streams : \A bytes \in Streams[p] : Len(bytes) <= Longest

(* Each symbol's book as the book of record; no stream has more orders     *)
(* than bytes.                                                             *)

Record(symbol) == INSTANCE PriceTimeBook WITH
  Requests <- {}, Capacity <- per_symbol_capacity, MaxFill <- 0,
  MaxPriority <- Longest,
  resting <- BookOf(multi, symbol).resting,
  next_priority_ <- BookOf(multi, symbol).next_priority_,
  used_slots <- BookOf(multi, symbol).used_slots,
  fill_sequence_ <- 0, taker <- [remaining |-> 0], fills <- <<>>

Recorded(event) ==
  LET id == event.order_id IN
  CASE event.type = "Add" ->
         Record(event.symbol)!Add(id, event.side, event.price_ticks, event.quantity)
    [] event.type = "Cancel" -> Record(event.symbol)!Cancel(id)
    [] event.type = "Replace" ->
         Record(event.symbol)!Replace(id, event.new_order_id,
                                      event.price_ticks, event.quantity)
    [] OTHER -> Record(event.symbol)!Trade(id, event.quantity)

(* apply_all_symbols takes the event. *)
Routes(event) ==
  symbol_counts' # symbol_counts /\ delivered'[Len(delivered')].event = event

OwnBookOnly ==
  /\ \A event \in Events :
       Routes(event) => IF event.symbol \in Symbols THEN Recorded(event)
                        ELSE result' = "CapacityExhausted"
  /\ \A s \in Symbols :
       (\A event \in Events : Routes(event) => event.symbol # s)
         => BookOf(multi, s)' = BookOf(multi, s)

(* An event does to its own symbol's book what PriceTimeBook says of a     *)
(* book alone, result included, and nothing to any other, though two       *)
(* symbols use one order id: every symbol's book is the one it would have  *)
(* if the feed carried that symbol only.  A symbol out of range touches    *)
(* nothing.                                                                *)
SymbolsDoNotInterfere == [][OwnBookOnly]_vars

Adds(Chosen(_)) ==
  Cardinality({i \in DOMAIN delivered : /\ delivered[i].event.type = "Add"
                                        /\ Chosen(delivered[i].event)})

(* A feed without the cases in which the two modes may differ: an id used  *)
(* for two symbols, a symbol out of range, a book that fills up or whose   *)
(* level table does.                                                       *)
Plain ==
  /\ \A i, j \in DOMAIN delivered :
       LET d == delivered[i].event
           e == delivered[j].event
           used(x) == IF x.type = "Replace" THEN {x.order_id, x.new_order_id}
                                            ELSE {x.order_id}
       IN  d.symbol # e.symbol => used(d) \cap used(e) = {}
  /\ \A i \in DOMAIN delivered : delivered[i].event.symbol \in Symbols
  /\ \A s \in Symbols :
       Adds(LAMBDA event : event.symbol = s) <= per_symbol_capacity
  /\ Adds(LAMBDA event : TRUE) <= max_orders
  /\ ~Saturated(book.used_slots, max_orders)
  /\ \A s \in DOMAIN multi.books :
       ~Saturated(multi.books[s].used_slots, per_symbol_capacity)

(* itch_replay reports the same with and without --per-symbol: the single  *)
(* book is the union of the books per symbol, each order in the same       *)
(* place, and total_orders() and the counters agree.                       *)
ModesAgree ==
  Plain =>
    /\ [counts EXCEPT !.peak_orders = 0] = symbol_counts
    /\ total_orders(multi) = order_count(book)
    /\ \A s \in DOMAIN multi.books :
         LET own == multi.books[s].resting IN
         \A i, j \in DOMAIN own :
           /\ i \in Ids(book)
           /\ [own[i] EXCEPT !.priority = 0] = [book.resting[i] EXCEPT !.priority = 0]
           /\ own[i].priority < own[j].priority
                <=> book.resting[i].priority < book.resting[j].priority

(* The rows are the whole history of the top of the symbol's book: the     *)
(* last row is the top as it is now, and no row repeats the one before it. *)
(* (Features.hpp:48, "the natural microstructure sampling clock".)         *)
RowsTrackTop ==
  LET top(row) == <<row.bid, row.ask>> IN
  /\ rows = <<>> => locate_book = EmptyBook
  /\ rows # <<>> => top(rows[Len(rows)]) = <<Best(locate_book, "Buy"),
                                             Best(locate_book, "Sell")>>
  /\ \A i \in 1 .. Len(rows) - 1 :
       /\ top(rows[i]) # top(rows[i + 1])
       /\ rows[i].sequence < rows[i + 1].sequence

(* Every stream comes to an end: no frame, however it is cut, keeps        *)
(* ensure() reading.                                                       *)
ReplayEnds == <>ended
=============================================================================
