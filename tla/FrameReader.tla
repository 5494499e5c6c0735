---------------------------- MODULE FrameReader ----------------------------
(***************************************************************************)
(* What ItchFileConnector and SoupBinTcpConnector promise, whatever their  *)
(* read window does: the stream is cut into frames, a two-byte length and  *)
(* a body each, one after the other from the first byte on.  The events    *)
(* come out in order; the stream ends well behind a whole frame or at the  *)
(* end of the session, and fails at anything else.                         *)
(***************************************************************************)
EXTENDS ItchDecoder

VARIABLES stream, protocol, source,   \* any, and they never change
          at,          \* how many bytes have been cut off
          sequence_,   \* the last number given
          delivered,   \* the events, with their numbers
          outcome      \* "reading", "ended" or "failed"

vars == <<stream, protocol, source, at, sequence_, delivered, outcome>>

Init == at = 0 /\ sequence_ = 0 /\ delivered = <<>> /\ outcome = "reading"

Length == read_be16(stream[at + 1], stream[at + 2])

WholeFrame ==
  at + 2 <= Len(stream) /\ Length > 0 /\ at + 2 + Length <= Len(stream)

TakeFrame ==
  /\ outcome = "reading" /\ WholeFrame
  /\ LET frame == Frame(protocol, SubSeq(stream, at + 3, at + 2 + Length)) IN
     /\ at' = at + 2 + Length
     /\ sequence_' = IF frame.numbered THEN sequence_ + 1 ELSE sequence_
     /\ delivered' = IF frame.status = "Event"
                       THEN Append(delivered, [sequence |-> sequence_',
                                               event |-> EventFrom(frame.message)])
                       ELSE delivered
     /\ outcome' = IF frame.status = "Malformed" THEN "failed"
                   ELSE IF frame.status = "EndOfSession" THEN "ended"
                   ELSE outcome
  /\ UNCHANGED <<stream, protocol, source>>

Stop ==
  /\ outcome = "reading" /\ ~WholeFrame
  /\ outcome' = IF source # "missing" /\ at = Len(stream) THEN "ended" ELSE "failed"
  /\ UNCHANGED <<stream, protocol, source, at, sequence_, delivered>>

Spec == Init /\ [][TakeFrame \/ Stop]_vars
=============================================================================
