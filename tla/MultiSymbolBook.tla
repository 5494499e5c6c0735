-------------------------- MODULE MultiSymbolBook --------------------------
(***************************************************************************)
(* src/MultiSymbolBook.cpp: a book per symbol, made when the symbol's      *)
(* first event comes.  The value is a record of the books by symbol (only  *)
(* the slots that are filled) and of seen_, the symbols in the order of    *)
(* their first events.                                                     *)
(***************************************************************************)
EXTENDS EventBook, Sequences

CONSTANTS max_symbols, per_symbol_capacity

ASSUME MultiSymbolAssumption ==
  max_symbols \in Nat /\ per_symbol_capacity \in Nat \ {0}

NoBooks == [books |-> <<>>, seen_ |-> <<>>]

BookOf(multi, symbol) ==
  IF symbol \in DOMAIN multi.books THEN multi.books[symbol] ELSE EmptyBook

(* Mutant: the slot is not tested. *)
Slot_Remade(multi, symbol) == EmptyBook

(* Mutant: all symbols share the first book. *)
Slot_First(multi, symbol) ==
  IF multi.seen_ = <<>> THEN EmptyBook ELSE multi.books[multi.seen_[1]]

(* The slot of a symbol in range, filled if it was not. *)
Slot(multi, symbol) == BookOf(multi, symbol)

RouteOutcome(multi, event) ==
  IF event.symbol >= max_symbols THEN "CapacityExhausted"
  ELSE Outcome(Slot(multi, event.symbol), event, per_symbol_capacity)

(* The books when that of a symbol has become `book`. *)
Routed(multi, symbol, book) ==
  [books |-> [s \in DOMAIN multi.books \cup {symbol} |->
                IF s = symbol THEN book ELSE multi.books[s]],
   seen_ |-> IF symbol \in DOMAIN multi.books THEN multi.seen_
             ELSE Append(multi.seen_, symbol)]

Route(multi, event) ==
  IF event.symbol >= max_symbols THEN {multi}
  ELSE {Routed(multi, event.symbol, book) :
          book \in process_event(Slot(multi, event.symbol), event,
                                 per_symbol_capacity)}

total_orders(multi) ==
  SumFunction([i \in DOMAIN multi.seen_ |-> order_count(multi.books[multi.seen_[i]])])
=============================================================================
