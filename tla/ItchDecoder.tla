---------------------------- MODULE ItchDecoder ----------------------------
(***************************************************************************)
(* include/market/itch/ItchDecoder.hpp, and the two framings whose bodies  *)
(* it decodes (BinaryFILE and SoupBinTCP).  A stream is a sequence of      *)
(* bytes.  The first byte of a message stands for its type and its fields  *)
(* together: Message gives the fields to the bytes that are one of the     *)
(* seven types for the book.  The other bytes only take up room.           *)
(***************************************************************************)
EXTENDS Integers, Sequences

CONSTANT Message   \* type, symbol, order_id, new_order_id, side, price_ticks
                   \* and quantity by byte

(* The EventType each message type is normalized to. *)
EventOf == [A |-> "Add", F |-> "Add", E |-> "Trade", C |-> "Trade",
            X |-> "Reduce", D |-> "Cancel", U |-> "Replace"]

(* The numbers of a message are unsigned; its side byte may be any. *)
ASSUME MessageAssumption ==
  /\ DOMAIN Message \subseteq 0 .. 255
  /\ \A b \in DOMAIN Message :
       Message[b] \in [type : {"A", "F", "E", "C", "X", "D", "U"}, symbol : Nat,
                      order_id : Nat, new_order_id : Nat,
                      side : {"Buy", "Sell", "none"},
                      price_ticks : Nat, quantity : Nat]

(* The lengths decode_message asks for, the type byte included.  F shares  *)
(* the case of A, and with it kLenAddOrder: kLenAddOrderMpid is not used.  *)
RequiredLength == [A |-> 36, F |-> 36, E |-> 31, C |-> 36, X |-> 23,
                   D |-> 19, U |-> 35]

read_be16(hi, lo) == 256 * hi + lo

(* DecodeStatus of decode_message(data, len). *)
Status(data, len) ==
  IF len = 0 THEN "Malformed"
  ELSE IF data[1] \notin DOMAIN Message THEN "Skipped"
  ELSE LET message == Message[data[1]] IN
       IF \/ len < RequiredLength[message.type]
          \/ /\ EventOf[message.type] = "Add"
             /\ message.side \notin {"Buy", "Sell"}
         THEN "Malformed" ELSE "Event"

(* The event it produces. *)
EventFrom(data) == [Message[data[1]] EXCEPT !.type = EventOf[@]]

(* The SoupBinTCP packet types that matter. *)
SequencedData == 83
EndOfSession == 90

(* What a frame means to the connector that reads it: a DecodeStatus or    *)
(* the end of the session, whether it takes a sequence number, and the     *)
(* message in it.  BinaryFILE numbers the events, SoupBinTCP the sequenced *)
(* data packets that carry them.                                           *)
Frame(protocol, body) ==
  LET message == IF protocol = "BinaryFILE" THEN body ELSE Tail(body)
      decoded == Status(message, Len(message))
  IN
  IF protocol = "BinaryFILE"
    THEN [status |-> decoded, numbered |-> decoded = "Event", message |-> message]
  ELSE IF body[1] = SequencedData
    THEN [status |-> decoded, numbered |-> TRUE, message |-> message]
  ELSE [status |-> IF body[1] = EndOfSession THEN "EndOfSession" ELSE "Skipped",
        numbered |-> FALSE, message |-> message]
=============================================================================
