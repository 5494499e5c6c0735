---------------------------- MODULE FramedStream ----------------------------
(***************************************************************************)
(* src/ItchFileConnector.cpp and src/SoupBinTcpConnector.cpp: length-      *)
(* framed messages read through a window that ensure() compacts, grows and *)
(* refills from the file in the middle of a frame.  The two share the      *)
(* window and the loop of next() and differ in what a frame means (Frame). *)
(*                                                                         *)
(* A call of next() is unfolded into the turns of its loops; the caller    *)
(* calls again after `true` and stops at the first `false`.  buffer_ holds *)
(* the size_ valid bytes only: TLC would stop at a read of any other.      *)
(***************************************************************************)
EXTENDS ItchDecoder

CONSTANTS Streams,    \* the byte sequences read, by protocol
          Sources,    \* "file", "memory", or "missing": a file that is not there
          Windows     \* the values of kStreamBufferSize

ASSUME WindowAssumption == Windows \subseteq Nat \ {0}

ASSUME StreamsAssumption ==
  /\ Sources \subseteq {"file", "memory", "missing"}
  /\ DOMAIN Streams \subseteq {"BinaryFILE", "SoupBinTCP"}
  /\ \A p \in DOMAIN Streams : Streams[p] \subseteq Seq(0 .. 255)
  /\ "missing" \in Sources => \E p \in DOMAIN Streams : <<>> \in Streams[p]

VARIABLES
  stream, protocol, source,
  input,       \* how many bytes input_ has yielded
  buffer_,     \* the valid bytes of buffer_
  capacity,    \* buffer_.size()
  pos_,        \* how many of the valid bytes are consumed
  length,      \* next()'s local; 0 before the length is read
  sequence_,
  eof_, failed_, end_of_session_,
  delivered,   \* the events next() has returned, with their numbers
  ended        \* next() has returned false

window_vars == <<input, buffer_, capacity, pos_, eof_>>
frame_vars == <<stream, protocol, source, window_vars, length, sequence_,
                failed_, end_of_session_, delivered, ended>>

size_ == Len(buffer_)
Unread == size_ - pos_

(* The three constructors' states: a file, a byte vector held whole, a     *)
(* file that cannot be opened.                                             *)
FrameInit ==
  /\ protocol \in DOMAIN Streams /\ stream \in Streams[protocol]
  /\ source \in Sources
  /\ source = "missing" => stream = <<>>
  /\ IF source = "memory"
       THEN buffer_ = stream /\ input = Len(stream) /\ capacity = Len(stream)
       ELSE buffer_ = <<>> /\ input = 0 /\ capacity \in Windows
  /\ eof_ = (source # "file") /\ failed_ = (source = "missing")
  /\ pos_ = 0 /\ length = 0 /\ sequence_ = 0 /\ end_of_session_ = FALSE
  /\ delivered = <<>> /\ ended = FALSE

-----------------------------------------------------------------------------
(* ensure(Needed) *)

Needed == IF length = 0 THEN 2 ELSE 2 + length

Smaller(a, b) == IF a < b THEN a ELSE b

(* Mutant: the window is not compacted. *)
Kept_All == buffer_

(* Mutant: the consumed bytes are kept and the unread ones dropped. *)
Kept_Front == SubSeq(buffer_, 1, Unread)

(* What memmove brings to the front. *)
Kept == SubSeq(buffer_, pos_ + 1, size_)

(* Mutant: a read that yields nothing is tried again. *)
AtEnd_Never(got) == FALSE

AtEnd(got) == got = 0

(* One turn of the read loop, after what ensure does before it: in later   *)
(* turns pos_ is 0 and the buffer is large enough, and that does nothing.  *)
Refill ==
  /\ ~ended /\ Unread < Needed /\ ~eof_
  /\ LET enough == IF capacity < Needed THEN Needed ELSE capacity
         room == IF Len(Kept) = enough THEN 2 * enough ELSE enough
         got == Smaller(room - Len(Kept), Len(stream) - input)
     IN
     /\ buffer_' = Kept \o SubSeq(stream, input + 1, input + got)
     /\ capacity' = room
     /\ input' = input + got
     /\ eof_' = AtEnd(got)
  /\ pos_' = 0
  /\ UNCHANGED <<stream, protocol, source, length, sequence_, failed_,
                 end_of_session_, delivered, ended>>

-----------------------------------------------------------------------------
(* next() *)

(* ensure() is false: the end of the stream, or of a frame cut short. *)
StreamEnds ==
  /\ ~ended /\ Unread < Needed /\ eof_
  /\ failed_' = (failed_ \/ length # 0 \/ Unread # 0)
  /\ ended' = TRUE
  /\ UNCHANGED <<stream, protocol, source, window_vars, length, sequence_,
                 end_of_session_, delivered>>

ReadLength ==
  /\ ~ended /\ length = 0 /\ Unread >= 2
  /\ length' = read_be16(buffer_[pos_ + 1], buffer_[pos_ + 2])
  /\ ended' = (length' = 0) /\ failed_' = (failed_ \/ length' = 0)
  /\ UNCHANGED <<stream, protocol, source, window_vars, sequence_,
                 end_of_session_, delivered>>

(* Mutant: the length does not count itself. *)
FrameSize_NoPrefix == length

FrameSize == 2 + length

ReadFrame ==
  /\ ~ended /\ length # 0 /\ Unread >= Needed
  /\ LET frame == Frame(protocol, SubSeq(buffer_, pos_ + 3, pos_ + 2 + length))
     IN
     /\ sequence_' = IF frame.numbered THEN sequence_ + 1 ELSE sequence_
     /\ delivered' = IF frame.status = "Event"
                       THEN Append(delivered, [sequence |-> sequence_',
                                               event |-> EventFrom(frame.message)])
                       ELSE delivered
     /\ failed_' = (failed_ \/ frame.status = "Malformed")
     /\ end_of_session_' = (frame.status = "EndOfSession")
     /\ ended' = (frame.status \in {"Malformed", "EndOfSession"})
  /\ pos_' = pos_ + FrameSize
  /\ length' = 0
  /\ UNCHANGED <<stream, protocol, source, input, buffer_, capacity, eof_>>

FrameNext == Refill \/ StreamEnds \/ ReadLength \/ ReadFrame

FrameSpec == FrameInit /\ [][FrameNext]_frame_vars

-----------------------------------------------------------------------------
(* Wherever a refill falls, in the length or in the body of a frame, the   *)
(* window holds a gapless piece of the stream that ends where input_       *)
(* stands: compacting and growing it lose, repeat and shift no byte, and   *)
(* pos_ stays on the first byte not consumed.                              *)
WindowHoldsStream ==
  /\ pos_ <= size_ /\ size_ <= capacity /\ size_ <= input
  /\ \A i \in 1 .. size_ : buffer_[i] = stream[input - size_ + i]

(* "The read buffer is fixed and only grows for a message larger than the  *)
(* buffer" (ItchFileConnector.hpp:22): it is resized only to the size of   *)
(* the frame being read, and never doubled.                                *)
BufferGrowsOnlyForFrame ==
  [][capacity' # capacity => capacity < Needed /\ capacity' = Needed]_frame_vars

(* Both connectors deliver, number and end as if the whole stream were one *)
(* piece: the window is invisible, from a file as from memory.             *)
Promise == INSTANCE FrameReader WITH
             at <- input - Unread,
             outcome <- IF ~ended THEN "reading"
                        ELSE IF failed_ THEN "failed" ELSE "ended"
ImplementsFrameReader == Promise!Spec
=============================================================================
