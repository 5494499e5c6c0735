# A TLA+ model of the market-data replay and order-book engine

The modules here model the engine of this repository at the level of its code:
the lock-free queue between its threads, the replay pipeline, the order book
with its pools, lists, hash tables and heaps, the ITCH connectors, the programs
that rebuild books from them, the backtester and the queue-position study. TLC
checks them on small instances; TLAPS proves the central
properties for every value of the constants.

Run a check with `tlc -workers 2 -config X.cfg M`, a proof with `tlapm M.tla`.

## 1. Inventory of the system

| Component | State | Operations | Who uses it | What is hard |
|---|---|---|---|---|
| `SpscQueue` | ring of slots, `head_`, `tail_` | `try_push`, `try_pop`, `size_approx` | producer and consumer threads | two threads, stale index loads, slot reuse, wrap |
| `market_replay` (`Main.cpp`) | two threads, `producer_done`, `producer_error`, counters | producer loop, consumer loop, join and report | reads the CSV connector, drives the queue and the book | shutdown test, backpressure, error path |
| `CSVReplayConnector` | file position, line number | `next` | producer | malformed line in mid-file |
| `OrderBook`, apply mode | resting orders | `process_event`: Add, Modify, Cancel, Trade, Reduce, Replace | all replay programs | capacity limit, atomicity of Replace, priority rules |
| `OrderBook`, match mode | the same, fill sequence | `submit`: New (Limit/Market, GTC/IOC/FOK), Cancel | match benchmark, tests | fills change the book the loop walks, refusal after fills, fill-or-kill |
| its data structures | order and level pools with free lists, intrusive lists, `order_lookup_`, `level_lookup_`, two heaps | acquire/release, link/unlink, insert/erase, sift | the two modes | long sequences of legal calls, tombstones, back-pointers |
| `MoldUdp64Connector` | packet, expected number, recovery range, counters | `next`, `load_next_packet` | `itch_replay`, `itch_backtest` | loss, repetition, reordering, truncation, partial recovery |
| `DatagramSource`s | file or list position | `next_datagram` | MoldUDP64 connector | end against failure |
| `Backtester` | book, orders in flight, position, cash, committed target | `on_event`, `finish` | `itch_backtest` | several orders in flight, equal time stamps, missing liquidity |
| `decode_message` | none | which messages are events, which are skipped or malformed | the three connectors | lengths, the skipped types |
| `ItchFileConnector`, `SoupBinTcpConnector` | read window, position, sequence number | `ensure`, `next` | ITCH programs (SoupBinTCP: tests) | refill inside a message, cut streams |
| `MultiSymbolBook` | a book per symbol, made on demand | `process_event` | `itch_replay --per-symbol` | the lazy slot, one order id in two symbols, the limits |
| `itch_replay`, `itch_features` | counters, rows written | a loop over a connector | | two modes that must agree; sampling on change |
| `QueueModel`, `itch_queue` | quantity ahead, cohort of ids, filled, the post's age | `on_event`; post, resolve, repost | | a snapshot of a queue that goes on changing, read before each event; fractions |
| io_uring source, WebSocket connector, affinity, clock, checksum, benchmarks, Python analysis | | | | operating system, libraries, measurement |

Threads exist only in `market_replay` (and in the benchmarks, which use the
same queue): everything else is sequential, so its hazards are sequences of
calls, limits and unreliable input, not interleavings. Nothing is persisted.

What makes each component correct, in short: the queue is a FIFO without data
races; the pipeline loses nothing and ends; the book obeys price-time priority,
whatever its data structures go through; the connector delivers every message
once, in order, and counts what it cannot deliver; the read window is invisible;
symbols do not touch each other; the backtest never sees the future and its
ledger adds up; the queue model follows the book it is shown. `PROJECT.json` lists the hazards by source line,
with the properties that cover each.

## 2. Modules

| Module | Models | Uses |
|---|---|---|
| `BoundedFifo` | what the queue promises | |
| `SpscQueue` | `include/market/SpscQueue.hpp`, one step per shared access | refines `BoundedFifo` |
| `ReplayPipeline` | `src/Main.cpp`, `CSVReplayConnector::next` | extends `SpscQueue` |
| `OrderTypes` | requests, results, `crosses` | |
| `PriceTimeBook` | what the book promises: a map of orders | extends `OrderTypes` |
| `PriceLadder` | the indexed heap | |
| `LookupTable` | linear probing with tombstones, the size of a table | |
| `OrderBook` | `src/OrderBook.cpp`, every member function that changes the book | extends the three above, refines `PriceTimeBook` |
| `LadderChurn`, `LookupChurn` | the heap and a table alone, under every order of calls | extend `PriceLadder`, `LookupTable`; checked together in `MCBookStructures` |
| `MoldUdp64Connector` | `src/MoldUdp64Connector.cpp` and the packet format | |
| `Backtest` | `src/Backtest.cpp`, the strategy, `l1_row` | |
| `ItchDecoder` | `ItchDecoder.hpp`, and what a frame means to each connector | |
| `FrameReader` | what the two stream connectors promise: a stream cut into frames | extends `ItchDecoder` |
| `FramedStream` | `ItchFileConnector.cpp`, `SoupBinTcpConnector.cpp` | extends `ItchDecoder`, refines `FrameReader` |
| `EventBook` | an `OrderBook` in apply mode as a value, and its queries | |
| `MultiSymbolBook` | `MultiSymbolBook.cpp` | extends `EventBook` |
| `ItchReplay` | the loops of `ItchReplay.cpp` and `ItchFeatures.cpp`, `l1_row`, `l1_changed` | composes `FramedStream` and `MultiSymbolBook`; each book against `PriceTimeBook` |
| `QueueStudy` | `QueueModel.hpp`, the loop of `ItchQueue.cpp` | extends `EventBook` |
| `MC*` | constants for TLC | |
| `*_proofs` | theorems and proofs; those of the queue are with the pipeline's, those of the connector with the programs' | the component |
| `Sums_proofs` | lemmas about sums over finite sets, and induction | |

Names follow the source. An operator whose name has an underscore and a
capital after it (`PushRoom_Unguarded`) is a mutant: the definition after it
with a plausible bug. TLC is expected to find a violation when it takes the
definition's place; no specification uses it.

### How state and actions correspond to the code

*SpscQueue.* The variables are the members of the class plus, per thread, the
place in `try_push`/`try_pop`, the item in hand and the last value read from
the other thread's index. A load of that index may return any value between the
last one read and the current one (coherence), so the model has all the
staleness acquire loads allow. The write or read of the slot is a step of its
own, which is what makes a data race a visible state. Failing calls are steps
too.

*ReplayPipeline* composes the queue steps with program counters of producer,
consumer and main. The file is a sequence of events, skipped lines and
malformed lines; parsing is abstracted to its outcome. A file that cannot be
opened behaves as one whose first line is malformed, since both throws end in
the same catch.

*PriceTimeBook* has one action per event type; `Trade` stands for Trade and
Reduce, which call the same function. `submit` is `SubmitBegin` (the checks),
one `SubmitFill` per fill and `SubmitEnd`, so that the state seen by the
`FillSink` is a state of the model. Queries change nothing and are not actions.
One limit is not a number of orders: `insert_level_lookup` refuses a new level
once every slot of the level table has been used (`OrderBook.cpp:131-132`, from
338-353), however few levels there are. `used_slots` counts the slots that are
not empty. An insertion takes an empty slot or a tombstone in its way; which of
the two depends on the hashes, so `UsedAfter` has both. `Add`, `Replace` and the
remainder of a `submit` are refused by it as in the code, `Replace` after it has
cancelled the original. A `Modify` refused by it leaves an order on no level
(finding 2); the promise has no step for it.

*OrderBook* keeps the private members in one record, `book`; each private
member function is an operator from books to books. A freed slot keeps only its
free-list link, because no other field is read before it is written again.
`mix()` is a parameter, so nothing depends on its quality.

*MoldUdp64Connector* unfolds the loops of `next()` and `load_next_packet()`.
A datagram is its header and the number of blocks that can be read from it. The
network is the choice of any datagram at any time; the retransmit source
may or may not have a message. `decoded` records which message was decoded
under which number. The caller stops at the first `false`, as `apply_all` does.

*Backtest* reads of the book only the best level of each side. `OnEvent` is
the call; `Release`, `ApplyUnsampled`, `ApplyHold` and `ApplyDecide` are its
parts; `Finish`, `FinishRelease` and `Flatten` are `finish()`. `dropped`
remembers the units that found nothing to cross, which the code forgets.

*FramedStream.* A stream is a sequence of bytes and stays one: lengths are read
from two bytes, bodies are pieces of the window. Only the fields of a message
are folded into its first byte, through the table `Message`; the lengths
`decode_message` asks for are the real ones. `Refill` is one turn of the read
loop of `ensure`, with the compaction and growth in front of it; `ReadLength`,
`ReadFrame` and `StreamEnds` are the parts of `next()` between its two calls of
`ensure`. `buffer_` is the valid bytes only, so TLC stops at a read behind
`size_`. The two connectors share the window and the loop line by line and
differ in `Frame`. Note that `F` messages are held to the length of `A`:
`kLenAddOrderMpid` is declared and not used.

*ItchReplay* runs `apply_all`, `apply_all_symbols` and the loop of
`itch_features` side by side on what one connector delivers, which is what lets
the modes be compared. A program that has counted `--max` events has left its
loop. `EventBook` restates the apply mode of the book as a function, because a
program has several books; its `process_event` is the set of books an event may
leave, since `used_slots` is a choice there too. That it says the same as
`PriceTimeBook`, refusals by a level table included, is part of
`SymbolsDoNotInterfere`, which checks every routed event against the actions of
that module.

*QueueStudy* takes one run of `itch_queue` per multiplier in step over one
feed. Any event may come, also one no exchange sends: executions out of turn,
ids used twice, events the book refuses because it or its level table is full. `ahead_`, a double in the code, is an
integer in units of `1 / Scale`. `arrival`, `orderly` and `reached` are history
variables; the program has none of them.

## 3. Runs

| Run | Bounds | Shows |
|---|---|---|
| `pipeline` | 4 slots, files up to 8 lines with comments and malformed lines | no data race, stale views err on the safe side, the queue refines `BoundedFifo`; every event read is processed or in transit, in file order; the program ends |
| `pipeline_shutdown` | 3 slots, the same files | **violated**: a report without the last events (finding 1) |
| `pricetime` | 3 ids, 2 prices, quantities 0–2, capacity 2 (a level table of 4 slots), 5 priorities, submits start while fewer than 2 fills were made | strict priority, best-first fills, fill-or-kill, no refusal for want of an order slot after a fill, no crossing by `submit` |
| `structures` | a ladder of 7 levels, both sides; a table of 4 slots for 4 keys, all hash functions, both kinds; a book of 3 ids, capacity 1, a level table of 2 slots that two levels use up, quantities 1 and 2, every call but Modify | heap order, back-pointers, best on top; lookups agree with a map, the order table never refuses; agreement and refinement in a book whose level table is used up: refusals after fills and inside Replace |
| `book_apply` | 3 ids, capacity 2, 2 prices, quantities 0–2, 4 priorities, colliding hashes | pools, lists, tables and heaps agree on one set of orders; refinement of `PriceTimeBook` |
| `book_match` | 4 ids, capacity 3, the same otherwise, submits start while fewer than 2 fills were made | the same fill by fill |
| `book_saturated` | capacity 1, a level table of 2 slots | **violated**: a refused Modify has unlinked the order (finding 2) |
| `mold` | 6 messages, up to 3 per datagram, 4 datagrams, with and without retransmission | decoded once, in order, losses counted, never back |
| `backtest` | 6 events, 4 bids, 3 asks, steps of 0 or 1, latency 0, 1 and 2 | no look-ahead, commitments and ledger add up, realized at the end |
| `backtest_commitment` | the same | **violated**: `committed_units_` is not what is filled and in flight (finding 3) |
| `itch_replay` | all streams of up to 3 of 16 frames (13 messages, skipped, short, empty) and of 3 of 9 SoupBinTCP packets; those of 2 cut by 1, 18 and 37 bytes; streams of 4 of 6 messages; 4 streams of 6 that reprice one order until its symbol's level table (4 slots) is used up; windows of 24 and 45 bytes, in memory, a missing file; 2 symbols of capacity 2, a book of 3; `--max` 0 and 2 | the window holds a gapless piece of the stream and grows only for a frame; refinement of `FrameReader`; symbols do not interfere; the two modes agree; the rows follow the top; every stream ends |
| `queue` | 3 ids, a book of 2, 2 prices, quantities 1 and 2, 7 events, orders of 2 with a timeout of 4, multipliers 1 and 3/2 | the displayed model is exact on an orderly feed and errs to one side on any other; the conservative run stays on its side of it |

*Why the bounds are enough.* Four slots let the ring wrap and be full, empty
and in between with every pair of stale views. Seven levels give a heap with a
full third row, the least in which a removal can move the filling level *up*.
Four keys in four slots with at most two present reach every mix of occupied,
empty and tombstone. Three orders give a list a head, a middle and a tail;
capacity 2 or 3 with one id more reaches the limits and the reuse of ids and
slots. A level table has the least power of two of at least twice the capacity
as slots, so it is used up after four levels with capacity 2 and after two with
capacity 1, which the priorities (one per order that rests) allow with some to
spare. In `pricetime`, `itch_replay` and `queue` the counter says when; in `structures`
and `book_saturated` the table does, with one home for each price. The
homes of `book_apply` and `book_match` leave a slot empty for ever, which is what
lets `book_apply` include Modify. Six messages in datagrams of up to three allow a gap, a partial overlap
and a whole repeat in one run. Three two-sided samples are needed for two
orders in flight; six events give four. A window of 24 bytes is smaller than
most frames, so it must grow and a refill falls inside every body; one of 45 lies
between one frame and two, so refills fall at every place of the second frame,
its length included; the code's 64 KiB differ only in how rarely that happens.
Seven events are a post with two orders ahead of it, or one ahead and one behind, a
partial and a full fill and a second post. Priorities and fill numbers are 64-bit
counters in the code; `MaxPriority` and `MaxFill` bound them in the guards.

Ids are symmetric in the book runs (all ids share one home slot there), so
`SYMMETRY` is sound; it is used with safety properties only.

*Deadlock* is checked everywhere but in `mold`, `itch_replay` and `queue`, where
the end of the input ends the run by design. Other programs that end have an explicit stuttering
step (`Exited`, `Ended`).

*Fairness*, for `Terminates` and `ReplayEnds`. `ReplayEnds` asks only that the
one thread of the program runs and that a read of a file returns. For
`Terminates`: weak fairness of each thread: the operating
system runs runnable threads. Strong fairness of an up-to-date load, because a
thread that keeps loading sees another's store eventually (the C++ standard
asks for a reasonable time). Nothing is assumed about who runs first.

## 4. Findings

1. *Shutdown race*, `src/Main.cpp:61` (`pipeline_shutdown`). The consumer's pop
   fails; the producer pushes its last events and stores `producer_done`; the
   consumer loads `true` and leaves with the events in the queue. Loading the
   flag before the pop would close the window.
2. *Saturated level table*, `src/OrderBook.cpp:84` (`book_saturated`).
   `insert_level_lookup` reuses a tombstone only when it meets an empty slot.
   Price churn can consume every empty slot, after which new levels are refused
   with level slots free. `modify` then returns at the line marked "unreachable
   after precheck", the order unlinked but still active; `replace` loses the
   original order. `insert_order_lookup` has the fallback, and
   `OrderTableNeverRefuses` shows that it is enough. `submit` turns the refusal
   into `RejectedCapacity`, which `OrderTypes.hpp:63` explains as "no pool slot to
   rest the remainder", although the slot is there, and after fills too: with
   capacity 1, rest a buy at 1, cancel it, rest a buy of 1 at 2 and sell 2 at 2;
   one is traded, the slot is free and the remainder is refused.
   `CapacityRefusalIsClean` says that this is the only way a taker that has traded is
   refused, and the run `structures` that every call but Modify keeps the structure
   even so.
3. *Commitment to an order that was dropped*, `src/Backtest.cpp:20`
   (`backtest_commitment`). An order that arrives at an empty side is dropped and
   stays in `committed_units_`, which `Backtest.hpp:96` calls "filled + in-flight
   target position". The strategy then acts on a position it does not have.
   `CommitmentAccounted` says that what was dropped is all it is off by.

Not findings: `F` messages are held to the length of `A`, 36 bytes, although
`kLenAddOrderMpid` (`ItchDecoder.hpp:68`) is 40, because no field that is read lies
behind byte 36 and nothing says the four others are needed;
`itch_features` and `itch_queue` never ask `failed()`, so they end alike on a
whole, a cut and a missing file; and on a feed that reuses an id (a Replace that
keeps it, an Add after a Cancel) the queue model takes the order behind for one
ahead, so the displayed run is optimistic there, which is the side
`DisplayedFollowsBook` allows.

## 5. Proofs

| Module | Theorems | Inductive invariant |
|---|---|---|
| `ReplayPipeline_proofs`, queue | `TypeCorrect`, `DataRaceFree`, `ViewsBracket`, `ImplementsFifo` | `RingInv`, `FifoInv` |
| `ReplayPipeline_proofs`, program | `PipelineTypeCorrect`, `NothingLost`, `UsesQueue`, `PipelineFifo`, `ReportAccountsForFile` | `PipelineInv` |
| `PriceTimeBook_proofs` | `TypeCorrect`, `StrictPriority`, `CleanCapacityRefusal`, `NeverCrosses`, `BestFirst`, `FilledOrKilled` | `Inv`, `RankInv` |
| `BookStructures_proofs`, alone | `FindCorrect`, `NeverRefuses`; `LadderSound`, `TopAlwaysBest` | `TableInv`; `LadderInv` |
| `BookStructures_proofs`, the book | `MatchStructure`, `ApplyStructureWithRoom`, `ApplyStructure` | `Good`, `MatchInv` |
| `MoldUdp64Connector_proofs` | `TypeCorrect`, `OrderedDelivery`, `ExactLossCount`, `Monotone` | `Inv` |
| `Backtest_proofs` | `TypeCorrect`, `LeakFree`, `CommitmentKept`, `LedgerKept`, `EndsRealized` | `Inv`, `BookInv` |
| `ItchReplay_proofs`, connector | `WindowSound`, `GrowsOnlyForFrame`, `ImplementsReader` | `Inv` |
| `ItchReplay_proofs`, programs | `RunsConnector`, `RowsAreHistory`, `BooksWellFormed`, `SymbolsApart`, `ModesReportTheSame` | `DeliveredInv`, `RowsInv`, `BooksInv`, `ModesInv` |
| `QueueStudy_proofs` | `DisplayedFollows`, `BandOrdered` | `StudyInv` |
| `Sums_proofs` | lemmas only | |

Each theorem assumes what the `ASSUME` of its component says of the constants and
nothing else.

*The queue*, for every `Capacity` of at least two (the `static_assert`) and
any non-empty set of items. That no slot is touched twice follows from where the indices are, not
from the program counters alone, so `RingInv` adds `RingOrder` (around the
ring: `seen_tail`, `tail_`, `seen_head`, `head_`, in this order) and
`LoadStillHolds` (what the load allowed is still so until the call ends: the
other thread can only make more room or more items). `ImplementsFifo` maps the
abstract queue to the slots between the indices; a push takes effect at its
release store, a pop at its read of the slot. The mapping is a step only if
nobody has touched the slot since, which is `ItemInv`: a call between its
access and its store still has its item in the slot.

*The program*, for every set of files and every schedule. `Control` ties the
program counters of the two calls to those of their callers; with it the steps
of producer and consumer are steps of the queue (`UsesQueue`), so everything
proved of the queue alone holds of `market_replay`, and `NothingLost` follows
the events from hand to hand. `ReportAccountsForFile` is the other side of
finding 1: what a report can miss is the contents of the ring and nothing else.

*The book*, for every capacity and any ids, prices and quantities.
`CapacityRefusalIsClean` leaves one refusal after a fill: the level table is
saturated, and the order slot is there. It is not inductive: at the end of `submit`
it depends on what the last fill did. `RoomAfterFill` says that a taker that has traded and is
not yet filled has left a free slot, since its last maker is gone. `FreshTaker`
carries the duplicate check made before the first fill to the moment the
remainder rests. `NeverCrosses` rests on the loop ending only when nothing
crosses any more. `BestFirst` needs `RankInv`: the fills of a call are the taker's
own and numbered from where `fill_sequence_` stands. For `FilledOrKilled` the sum of the
pre-scan is followed through the loop: a fill lowers what crosses and what is
left of the taker by the same amount, and a maker that is used up is worth
nothing more.

*The lookup tables*, for every size, every hash function, both kinds of table
and every history of insertions and erasures. Where a search ends depends on
every slot in its way, so the invariant speaks of those: a key that is present
lies in one slot (`HeldOnce`, `NothingElse`), and no slot between its home and
its place is empty (`Reachable`). Insertion into a tombstone and erasure make no
slot empty. `NeverRefuses` counts: the table has more slots than there are
orders, so some slot in the cycle is not occupied, and the fallback reaches it.

*The price ladder*, for every set of levels, both sides and every history of
pushes and removals. The sifts are loops, modelled as the states after 0, 1, 2
... turns, and proved as loops are. Going up, only the level at `pos` may be out
of place, and its children belong below its parent (`RisesAt`). A level that fills
the hole of a removed one may have to go either way: `FallsAt` allows an edge to
the parent that is wrong as long as the level has not left the hole. When the loop
going down has ended, `RisesAt` holds at the hole, so `ladder_sift_up` there is
what is missing, and enough. That `Size` or `pos` turns are all there are follows
from `pos` moving in every turn but the last.

*The book's data structures together*, for every capacity, both hash functions
and every stream of calls. `StructureOK` is a statement about each structure and
the orders; no part of it is inductive alone, since `unlink` reads the
neighbours off the list, the count to see that the level is empty, and then
removes it from the table and from the ladder. `Good(b, act, lv)` names what they
have to agree on, the order slots in use and the levels: the free lists run
through the other slots, the tables stand for the ids of `act` and for the sides
and prices of `lv` (`TableOf`), the ladders hold `lv`, each level's list is its
orders by priority with their count and total, every level has an order, and every
priority is below `next_priority_`. Each private member function has a lemma of
its own (`AcquireOK`, `LinkTailOK`, `UnlinkOK`, `DropOK`, `RestOK`) that says which
two sets the book agrees on afterwards, and the calls are put together from
them. A fill of `submit` is a step, and the next reads what the one before
left: `MatchInv` adds that the loop stands on an active order of the level it
takes from (`Taking`), which is the hazard of references into the pools used after
`unlink`.
`MatchStructure` has no hypothesis: `submit` asks for a level before it links
anything, so a saturated level table refuses a remainder and harms nothing. In
apply mode finding 2 is a counterexample, so a theorem needs a hypothesis.
`ApplyStructureWithRoom` takes the cause, that some slot of the level table was
never used (`book_apply` stays within it), and proves that the return at
`OrderBook.cpp:84` is then unreachable, as its comment says. `ApplyStructure` takes
the effect, that no refused Modify changes the book: the other events keep the
structure even with a saturated table.

*The connector*, for every stream, datagram size and sequence of arrivals. That
a message is decoded under its own number needs `offset_ = local_index_` inside
a packet (`LoopInv`); that a recovery ends where the live packet begins is
`GapInv`; `StartInv` says what holds before the first packet.

*The backtester*, for every latency, order size, pair of thresholds and feed in
which time does not go back. `release_arrived` looks at the front of `pending_`
only; `OnTheWay` says why that is enough: arrivals are sorted, later than the
last event and no further away than the latency. Position, cash and commitment
are compared with sums over the blotter and over the orders in flight; the proof
follows each sum as an order is appended, taken from the front, filled or
dropped.

*The stream connectors*, for every stream of bytes, every positive window size
and both framings. `WindowHoldsStream` needs the rest of `Inv` to be of use:
`LengthInv` says that the length read before a refill is still the one at `pos_`
after it, and `EndInv` that `eof_` means an exhausted file and that nothing but a
missing file has failed before the end. `ImplementsReader` then maps the place in
the stream to `input - Unread`: a refill and a non-zero length are stutters, a
frame in the window is the same bytes as the frame in the stream, and `ensure`
gives up only where no whole frame is left. It is a theorem of `FrameSpec`, the
connector alone; by `RunsConnector` it holds inside the programs.

*The ITCH programs*, for every stream, number of symbols, capacity and `--max`.
A turn either delivers one event with the next number or leaves the programs
alone (`DeliverStep`, from `DeliveredInv`). `RowsTrackTop` is inductive once the
rows' numbers are known to be ones already given (`RowsInv`). `BooksInv` says of
every book what the feed justifies: the ids it holds were named by its own
symbol's events, and it has no more orders and no higher priority than events
came. From it an event's effect on its symbol's book is the action `PriceTimeBook`
has for it (`SymbolsApart`): with the same orders and the same number of used
slots on both sides, the refusals are the same, those of a full book, of a saturated
level table and the Replace that has lost its order by then. The bound on priorities
is met because no stream has more events than bytes (`LongestAssumption`).
`ModesAgree` holds only of a feed that is `Plain` so far: no id shared by two symbols,
no symbol out of range, no more orders than fit, and no level table of the
feed's books used up. The last is a condition on the books, because which slots
are used again depends on the hashes; the tables of the modes differ in size, and a
feed that keeps repricing saturates the smaller one first and then loses in one mode
an order the other keeps. A feed that is plain was plain before its last event
(`PlainBefore`, and `UnsaturatedBefore` since used slots never become
empty), so `ModesInv` is that implication with `Agree` in place of
the conclusion: the book of every symbol and the single book hold the same
orders of that symbol, in the same order (`Matches`), though under different
priorities. On a plain feed both books see the event alike (`PlainView`: no other
symbol's order has the id, neither book is full and neither level table used up), so
they give it the same result and stay matched (`PairStep`), and `total_orders` moves
as the single book's count does (`TotalStep`).

*The queue model*, for every feed, book size, order size, timeout and set of
multipliers. `ahead_` is kept by a set of ids while the truth is a sum over what
rests in front, so `CohortOK` ties them: whoever is in front is in the cohort,
and on an orderly feed nobody else of the cohort rests. Each event type then
changes the sum and `ahead_` alike. Two runs are comparable (`BandOK`) because
orders posted after the same event have the same price and the same cohort; the
overflow of an execution is rounded the same way for both.

*Sums and recursion.* The library's induction theorems take an operator as a
parameter. `Sums_proofs` states induction over the naturals with the property
given as a set instead, and derives from it that a fold over a finite set can be
taken in any order, and how a sum changes when an index is added, removed or
altered. `Events`, `next_power_of_two` and the sifts are recursive functions and
are unfolded in the same way.

*Model-checked only.* `Terminates` and `ReplayEnds` (liveness under fairness).
The refinement of `PriceTimeBook` by `OrderBook`: that the structures stand for one
set of orders is proved, that each call changes this set as the promise has it is
not.

## 6. Not modelled

Field offsets of ITCH messages, CSV text and MoldUDP64 headers; checksums, hash
quality, clock and affinity, arguments and output, the median of `itch_queue`;
64-bit wrap-around of quantities, sums and sequence numbers (the sum in
`fillable_quantity` wraps only with more than 2^32 orders); benchmarks and the
Python analysis. `IoUringDatagramSource` is system calls whose results the
MoldUDP64 model has as a datagram, an end or a failure of the source. The
WebSocket connector is a blocking read from an optional library and the CSV
parser. Both would be models of the kernel and of the library, not of this code.

## 7. Plan

Modelled so far, in this order: queue, pipeline, book, MoldUDP64, backtester,
read window and decoder, multi-symbol book and ITCH programs, queue model.
Proved so far: queue and pipeline, the price-time book, the lookup tables, the
ladder and the book they make up, MoldUDP64, the read window and the programs on
top of it, the backtester, the queue model. What is left: the refinement of
`PriceTimeBook` by `OrderBook`, from `Good` and the lemmas about the member
functions.
