---------------------------- MODULE MCItchReplay ----------------------------
(* Streams of up to three frames from a table of fourteen messages that    *)
(* share one order id between symbols, name a symbol out of range, carry a *)
(* bad side, and add to, execute, reduce, delete and replace the orders;   *)
(* with frames that are skipped, too short or empty, and cut in the        *)
(* length, in the body and at a frame's end.  The windows are smaller than *)
(* a frame, and between one frame and two.  Six of the messages also come  *)
(* in streams of four, deep enough for two orders to be filled in turn,    *)
(* and a few streams of six use up a level table.                          *)
EXTENDS ItchReplay, SequencesExt

Fields(type, symbol, id, new_id, side, price, quantity) ==
  [type |-> type, symbol |-> symbol, order_id |-> id, new_order_id |-> new_id,
   side |-> side, price_ticks |-> price, quantity |-> quantity]

MCMessage ==
  << Fields("A", 0, 1, 0, "Buy", 1, 2),  Fields("A", 1, 1, 0, "Buy", 2, 1),
     Fields("F", 1, 2, 0, "Sell", 2, 1), Fields("A", 0, 2, 0, "Sell", 2, 1),
     Fields("A", 2, 3, 0, "Buy", 1, 1),  Fields("A", 0, 3, 0, "none", 1, 1),
     Fields("E", 0, 1, 0, "Buy", 0, 1),  Fields("C", 1, 2, 0, "Buy", 2, 1),
     Fields("X", 0, 1, 0, "Buy", 0, 1),  Fields("D", 0, 1, 0, "Buy", 0, 0),
     Fields("D", 1, 1, 0, "Buy", 0, 0),  Fields("U", 0, 1, 2, "Buy", 2, 1),
     Fields("U", 0, 1, 1, "Buy", 1, 3),
     Fields("U", 0, 1, 1, "Buy", 2, 2) >>

SkippedType == 15

(* A message of a given length; its other bytes tell where they stand. *)
Bytes(first, len) == [i \in 1 .. len |-> IF i = 1 THEN first ELSE 100 + i]

Framed(body) == <<0, Len(body)>> \o body

Whole(b) == Bytes(b, RequiredLength[MCMessage[b].type])

FileFrames ==
  {Framed(Whole(b)) : b \in DOMAIN MCMessage \ {14}}
    \cup {Framed(Bytes(SkippedType, 12)), Framed(Bytes(1, 35)), Framed(<<>>)}

Packets ==
  {Framed(<<SequencedData>> \o body) :
     body \in {Whole(1), Whole(4), Whole(7), Bytes(SkippedType, 12), Bytes(1, 35), <<>>}}
    \cup {Framed(<<72>>), Framed(<<EndOfSession>>), Framed(<<>>)}

(* The streams of up to three frames, and those of up to two cut short. *)
UpTo(frames, n) == UNION {[1 .. k -> frames] : k \in 0 .. n}

Cut(bytes, n) == SubSeq(bytes, 1, Len(bytes) - n)

StreamsOf(frames) ==
  {FlattenSeq(fs) : fs \in UpTo(frames, 3)}
    \cup {Cut(FlattenSeq(fs), n) : fs \in [1 .. 2 -> frames], n \in {1, 18, 37}}

Longer == {FlattenSeq(fs) :
             fs \in [1 .. 4 -> {Framed(Whole(b)) : b \in {1, 2, 4, 7, 10, 13}}]}

(* An order that is repriced to and fro, so that the tombstones of its     *)
(* levels use up the level table of its symbol (four slots) and not that   *)
(* of the single book (eight).                                             *)
Churn == {FlattenSeq([i \in 1 .. 6 |-> Framed(Whole(<<1, 14, 13, 14, 13, b>>[i]))]) :
            b \in {1, 4, 7, 14}}

MCStreams == [BinaryFILE |-> StreamsOf(FileFrames) \cup Longer \cup Churn,
              SoupBinTCP |-> StreamsOf(Packets)]
=============================================================================
