------------------------- MODULE ItchReplay_proofs -------------------------
(***************************************************************************)
(* The programs that read an ITCH stream, for every stream, every size of  *)
(* the read window and both framings.  First the connector (FramedStream): *)
(* its window never loses its place, grows only for a frame, and cannot be *)
(* told from the stream itself.  Then the programs (ItchReplay): the rows  *)
(* of itch_features are the history of the top of the book, the two modes  *)
(* of itch_replay agree, and no symbol's book disturbs another's.          *)
(***************************************************************************)
EXTENDS ItchReplay, Sums_proofs, SequenceTheorems

Byte == 0 .. 255

TypeInv ==
  /\ stream \in Seq(Byte) /\ buffer_ \in Seq(Byte)
  /\ source \in {"file", "memory", "missing"}
  /\ input \in 0 .. Len(stream) /\ capacity \in Nat
  /\ pos_ \in 0 .. Len(buffer_) /\ length \in Nat
  /\ eof_ \in BOOLEAN /\ failed_ \in BOOLEAN /\ ended \in BOOLEAN

(* The file is exhausted when eof_ says so, and nothing has failed before  *)
(* next() returns false, but a file that is not there.                     *)
EndInv ==
  /\ eof_ => input = Len(stream)
  /\ ~ended => (failed_ <=> source = "missing")
  /\ source = "missing" => stream = <<>>

(* next() still stands on the length it has read. *)
LengthInv ==
  length # 0 /\ ~ended =>
    /\ Unread >= 2
    /\ length = read_be16(buffer_[pos_ + 1], buffer_[pos_ + 2])

Inv == TypeInv /\ EndInv /\ LengthInv /\ WindowHoldsStream

-----------------------------------------------------------------------------
(* What a turn of ensure() reads, and where it puts it. *)
Enough == IF capacity < Needed THEN Needed ELSE capacity
Got == Smaller(Enough - Unread, Len(stream) - input)

(* A piece of a byte sequence. *)
LEMMA PieceLemma ==
  ASSUME NEW s \in Seq(Byte), NEW m \in Nat \ {0}, NEW n \in Nat,
         n <= Len(s), m <= n + 1
  PROVE  /\ SubSeq(s, m, n) \in Seq(Byte)
         /\ Len(SubSeq(s, m, n)) = n - m + 1
         /\ \A i \in 1 .. n - m + 1 : SubSeq(s, m, n)[i] = s[m + i - 1]
<1>1. \A i \in m .. n : s[i] \in Byte
  <2> SUFFICES ASSUME NEW i \in m .. n PROVE s[i] \in Byte
    OBVIOUS
  <2>1. i \in 1 .. Len(s)
    BY LenProperties
  <2> QED  BY <2>1, ElementOfSeq
<1>2. /\ SubSeq(s, m, n) \in Seq(Byte)
      /\ Len(SubSeq(s, m, n)) = IF m <= n THEN n - m + 1 ELSE 0
      /\ \A i \in 1 .. n - m + 1 : SubSeq(s, m, n)[i] = s[m + i - 1]
  BY <1>1, SubSeqProperties
<1> QED  BY <1>2

(* What Refill keeps of the buffer: the bytes that are not consumed. *)
LEMMA KeptLemma ==
  ASSUME TypeInv
  PROVE  /\ Kept \in Seq(Byte) /\ Len(Kept) = Unread /\ Unread \in Nat
         /\ \A i \in 1 .. Unread : Kept[i] = buffer_[pos_ + i]
<1>1. /\ buffer_ \in Seq(Byte) /\ Len(buffer_) \in Nat
      /\ pos_ + 1 \in Nat \ {0} /\ pos_ + 1 <= Len(buffer_) + 1 /\ pos_ \in Nat
  BY LenProperties DEF TypeInv
<1>2. /\ Kept \in Seq(Byte)
      /\ Len(Kept) = Len(buffer_) - (pos_ + 1) + 1
      /\ \A i \in 1 .. Len(buffer_) - (pos_ + 1) + 1 :
           Kept[i] = buffer_[(pos_ + 1) + i - 1]
  BY <1>1, PieceLemma DEF Kept, size_
<1> QED  BY <1>1, <1>2 DEF Unread, size_

(* A frame needs at least its length field. *)
LEMMA NeededLemma ==
  ASSUME TypeInv
  PROVE  Needed \in Nat /\ Needed >= 2 /\ Unread \in Nat
  BY DEF TypeInv, Needed, Unread, size_

(* What Refill does to the window, whether or not it has to grow. *)
LEMMA RefillLemma ==
  ASSUME TypeInv, Refill
  PROVE  /\ Got \in Nat
         /\ input' = input + Got /\ input' <= Len(stream)
         /\ capacity' = Enough /\ Enough \in Nat /\ Enough >= Needed
         /\ buffer_' = Kept \o SubSeq(stream, input + 1, input + Got)
         /\ Unread + Got <= Enough
         /\ eof_' \in BOOLEAN /\ (eof_' => input' = Len(stream))
<1>1. Len(Kept) = Unread /\ Unread \in Nat /\ Unread < Needed
  BY KeptLemma DEF Refill
<1>2. Needed \in Nat /\ capacity \in Nat /\ input \in 0 .. Len(stream)
      /\ Len(stream) \in Nat
  BY NeededLemma DEF TypeInv
<1>3. Enough \in Nat /\ Enough >= Needed
  BY <1>2 DEF Enough
<1>4. Len(Kept) # Enough
  BY <1>1, <1>2, <1>3
<1>5. /\ buffer_' = Kept \o SubSeq(stream, input + 1, input + Got)
      /\ capacity' = Enough /\ input' = input + Got /\ eof_' = (Got = 0)
  BY <1>1, <1>4 DEF Refill, Enough, Got, AtEnd
<1>6. Got \in Nat /\ Got <= Enough - Unread /\ Got <= Len(stream) - input
      /\ (Got = 0 => input = Len(stream))
  BY <1>1, <1>2, <1>3 DEF Got, Smaller
<1>7. eof_' \in BOOLEAN /\ (eof_' => Got = 0)
  BY <1>5, Zenon
<1>8. eof_' => input' = Len(stream)
  BY <1>2, <1>5, <1>6, <1>7
<1> QED  BY <1>1, <1>2, <1>3, <1>5, <1>6, <1>7, <1>8

-----------------------------------------------------------------------------
(* The window is empty and nothing is consumed. *)
LEMMA InitInv == FrameInit => Inv
<1> SUFFICES ASSUME FrameInit PROVE Inv
  OBVIOUS
<1>1. /\ stream \in Seq(Byte) /\ Len(stream) \in Nat
      /\ source \in {"file", "memory", "missing"}
      /\ source = "missing" => stream = <<>>
      /\ pos_ = 0 /\ length = 0 /\ ended = FALSE
      /\ eof_ = (source # "file") /\ failed_ = (source = "missing")
  BY StreamsAssumption, LenProperties DEF FrameInit, Byte
<1>b. eof_ \in BOOLEAN /\ failed_ \in BOOLEAN /\ ended \in BOOLEAN
  BY <1>1, Zenon
<1>2. CASE source = "memory"
  <2>1. buffer_ = stream /\ input = Len(stream) /\ capacity = Len(stream)
    BY <1>2 DEF FrameInit
  <2>2. TypeInv
    BY <1>1, <1>b, <2>1 DEF TypeInv
  <2>3. EndInv /\ LengthInv
    BY <1>1, <1>2, <2>1 DEF EndInv, LengthInv
  <2>4. WindowHoldsStream
    BY <1>1, <2>1 DEF WindowHoldsStream, size_
  <2> QED  BY <2>2, <2>3, <2>4 DEF Inv
<1>3. CASE source # "memory"
  <2>1. buffer_ = <<>> /\ input = 0 /\ capacity \in Windows
    BY <1>3 DEF FrameInit
  <2>2. capacity \in Nat
    BY <2>1, WindowAssumption
  <2>3. buffer_ \in Seq(Byte) /\ Len(buffer_) = 0
    BY <2>1, EmptySeq
  <2>4. eof_ => input = Len(stream)
    BY <1>1, <1>3, <2>1, EmptySeq
  <2>5. TypeInv
    BY <1>1, <1>b, <2>1, <2>2, <2>3 DEF TypeInv
  <2>6. EndInv /\ LengthInv
    BY <1>1, <2>4 DEF EndInv, LengthInv
  <2>7. WindowHoldsStream
    BY <1>1, <2>1, <2>2, <2>3 DEF WindowHoldsStream, size_
  <2> QED  BY <2>5, <2>6, <2>7 DEF Inv
<1> QED  BY <1>2, <1>3

(* A refill appends the next bytes of the stream behind what is unread. *)
LEMMA RefillWindow ==
  ASSUME Inv, Refill
  PROVE  /\ buffer_' \in Seq(Byte) /\ Len(buffer_') = Unread + Got
         /\ Unread \in Nat
         /\ \A i \in 1 .. Unread : buffer_'[i] = buffer_[pos_ + i]
         /\ \A i \in 1 .. Unread + Got :
              buffer_'[i] = stream[input - Unread + i]
<1>1. TypeInv /\ WindowHoldsStream
  BY DEF Inv
<1>2. /\ Got \in Nat /\ input + Got <= Len(stream) /\ input \in Nat
      /\ buffer_' = Kept \o SubSeq(stream, input + 1, input + Got)
      /\ stream \in Seq(Byte)
  <2>1. /\ Got \in Nat /\ input' = input + Got /\ input' <= Len(stream)
        /\ buffer_' = Kept \o SubSeq(stream, input + 1, input + Got)
    BY <1>1, RefillLemma
  <2>2. stream \in Seq(Byte) /\ input \in Nat
    BY <1>1 DEF TypeInv
  <2> QED  BY <2>1, <2>2
<1>3. /\ Kept \in Seq(Byte) /\ Len(Kept) = Unread /\ Unread \in Nat
      /\ \A i \in 1 .. Unread : Kept[i] = buffer_[pos_ + i]
  BY <1>1, KeptLemma
<1> DEFINE more == SubSeq(stream, input + 1, input + Got)
<1>4. /\ more \in Seq(Byte) /\ Len(more) = Got
      /\ \A i \in 1 .. Got : more[i] = stream[input + i]
  <2>1. input + 1 \in Nat \ {0} /\ input + Got \in Nat
        /\ input + 1 <= input + Got + 1
    BY <1>2
  <2>2. /\ more \in Seq(Byte)
        /\ Len(more) = (input + Got) - (input + 1) + 1
        /\ \A i \in 1 .. (input + Got) - (input + 1) + 1 :
             more[i] = stream[(input + 1) + i - 1]
    BY <1>2, <2>1, PieceLemma
  <2> QED  BY <1>2, <2>2
<1> HIDE DEF more
<1>5. /\ buffer_' \in Seq(Byte) /\ Len(buffer_') = Unread + Got
      /\ \A i \in 1 .. Unread + Got :
           buffer_'[i] = IF i <= Unread THEN Kept[i] ELSE more[i - Unread]
  <2>1. /\ Kept \o more \in Seq(Byte)
        /\ Len(Kept \o more) = Len(Kept) + Len(more)
        /\ \A i \in 1 .. Len(Kept) + Len(more) :
             (Kept \o more)[i] = IF i <= Len(Kept) THEN Kept[i]
                                                  ELSE more[i - Len(Kept)]
    BY <1>3, <1>4, ConcatProperties
  <2>2. buffer_' = Kept \o more
    BY <1>2 DEF more
  <2> QED  BY <1>3, <1>4, <2>1, <2>2
<1>6. \A i \in 1 .. Unread : buffer_[pos_ + i] = stream[input - Unread + i]
  <2> SUFFICES ASSUME NEW i \in 1 .. Unread
               PROVE  buffer_[pos_ + i] = stream[input - Unread + i]
    OBVIOUS
  <2>1. pos_ + i \in 1 .. size_ /\ input - size_ + (pos_ + i) = input - Unread + i
    BY <1>1, <1>2, <1>3, LenProperties DEF TypeInv, Unread, size_
  <2> QED  BY <1>1, <2>1 DEF WindowHoldsStream
<1>7. \A i \in 1 .. Unread + Got : buffer_'[i] = stream[input - Unread + i]
  <2> SUFFICES ASSUME NEW i \in 1 .. Unread + Got
               PROVE  buffer_'[i] = stream[input - Unread + i]
    OBVIOUS
  <2>1. CASE i <= Unread
    <3>1. i \in 1 .. Unread
      BY <2>1, <1>3
    <3>2. buffer_'[i] = Kept[i]
      BY <2>1, <1>5
    <3> QED  BY <3>1, <3>2, <1>3, <1>6
  <2>2. CASE i > Unread
    <3>1. i - Unread \in 1 .. Got /\ input + (i - Unread) = input - Unread + i
      BY <2>2, <1>2, <1>3
    <3>2. buffer_'[i] = more[i - Unread]
      BY <2>2, <1>2, <1>3, <1>5
    <3>3. more[i - Unread] = stream[input + (i - Unread)]
      BY <3>1, <1>4
    <3> QED  BY <3>1, <3>2, <3>3
  <2> QED  BY <2>1, <2>2, <1>2, <1>3
<1>8. \A i \in 1 .. Unread : buffer_'[i] = buffer_[pos_ + i]
  BY <1>2, <1>3, <1>5
<1> QED  BY <1>3, <1>5, <1>7, <1>8

(* Reading more of the stream keeps the window a piece of it. *)
LEMMA RefillInv ==
  ASSUME Inv, Refill
  PROVE  Inv'
<1>1. TypeInv /\ EndInv /\ LengthInv /\ WindowHoldsStream
  BY DEF Inv
<1>2. /\ Got \in Nat /\ input' = input + Got /\ input' <= Len(stream)
      /\ capacity' \in Nat /\ Unread + Got <= capacity'
      /\ eof_' \in BOOLEAN /\ (eof_' => input' = Len(stream))
  BY <1>1, RefillLemma
<1>3. /\ buffer_' \in Seq(Byte) /\ Len(buffer_') = Unread + Got /\ Unread \in Nat
      /\ \A i \in 1 .. Unread : buffer_'[i] = buffer_[pos_ + i]
      /\ \A i \in 1 .. Unread + Got : buffer_'[i] = stream[input - Unread + i]
  BY RefillWindow
<1>4. /\ pos_' = 0 /\ stream' = stream /\ source' = source /\ length' = length
      /\ failed_' = failed_ /\ ended' = ended
  BY DEF Refill
<1>5. input \in Nat /\ Unread <= input
  BY <1>1, LenProperties DEF TypeInv, WindowHoldsStream, Unread, size_
<1>6. TypeInv'
  BY <1>1, <1>2, <1>3, <1>4, <1>5 DEF TypeInv
<1>7. EndInv'
  BY <1>1, <1>2, <1>4, <1>5 DEF EndInv
<1>8. LengthInv'
  <2> SUFFICES ASSUME length # 0, ~ended
               PROVE  /\ Unread' >= 2
                      /\ length = read_be16(buffer_'[1], buffer_'[2])
    BY <1>4 DEF LengthInv, read_be16
  <2>1. Unread' = Unread + Got
    BY <1>2, <1>3, <1>4 DEF Unread, size_
  <2>2. Unread >= 2 /\ length = read_be16(buffer_[pos_ + 1], buffer_[pos_ + 2])
    BY <1>1 DEF LengthInv
  <2>3. buffer_'[1] = buffer_[pos_ + 1] /\ buffer_'[2] = buffer_[pos_ + 2]
    BY <1>3, <2>2
  <2> QED  BY <1>2, <1>3, <2>1, <2>2, <2>3
<1>9. WindowHoldsStream'
  <2>1. size_' = Unread + Got /\ input' - size_' = input - Unread
    BY <1>2, <1>3, <1>5 DEF size_
  <2> QED  BY <1>2, <1>3, <1>4, <1>5, <2>1 DEF WindowHoldsStream
<1> QED  BY <1>6, <1>7, <1>8, <1>9 DEF Inv

(* The two bytes next() takes for a length. *)
LEMMA LengthLemma ==
  ASSUME TypeInv, Unread >= 2
  PROVE  read_be16(buffer_[pos_ + 1], buffer_[pos_ + 2]) \in Nat
<1>1. pos_ + 1 \in 1 .. Len(buffer_) /\ pos_ + 2 \in 1 .. Len(buffer_)
  BY LenProperties DEF TypeInv, Unread, size_
<1>2. buffer_[pos_ + 1] \in Byte /\ buffer_[pos_ + 2] \in Byte
  BY <1>1, ElementOfSeq DEF TypeInv
<1>3. buffer_[pos_ + 1] \in Nat /\ buffer_[pos_ + 2] \in Nat
  BY <1>2 DEF Byte
<1>4. \A hi, lo \in Nat : 256 * hi + lo \in Nat
  OBVIOUS
<1> QED  BY <1>3, <1>4 DEF read_be16

(* The end of the stream leaves the window alone. *)
LEMMA StreamEndsInv ==
  ASSUME Inv, StreamEnds
  PROVE  Inv'
<1>1. /\ ended' = TRUE /\ stream' = stream /\ buffer_' = buffer_
      /\ source' = source /\ input' = input /\ capacity' = capacity
      /\ pos_' = pos_ /\ length' = length /\ eof_' = eof_
  BY DEF StreamEnds, window_vars
<1>2. failed_' \in BOOLEAN
  BY Zenon DEF StreamEnds
<1>3. TypeInv'
  BY <1>1, <1>2 DEF Inv, TypeInv
<1>4. EndInv' /\ LengthInv'
  BY <1>1 DEF Inv, EndInv, LengthInv
<1>5. WindowHoldsStream'
  BY <1>1 DEF Inv, WindowHoldsStream, size_
<1> QED  BY <1>3, <1>4, <1>5 DEF Inv

(* The length comes from the first two bytes that are not consumed. *)
LEMMA ReadLengthInv ==
  ASSUME Inv, ReadLength
  PROVE  Inv'
<1>1. /\ stream' = stream /\ buffer_' = buffer_
      /\ source' = source /\ input' = input /\ capacity' = capacity
      /\ pos_' = pos_ /\ eof_' = eof_ /\ Unread >= 2 /\ ~ended
      /\ length' = read_be16(buffer_[pos_ + 1], buffer_[pos_ + 2])
  BY DEF ReadLength, window_vars
<1>2. /\ failed_' \in BOOLEAN /\ ended' \in BOOLEAN
      /\ ~ended' => (failed_' <=> failed_)
  BY Zenon DEF ReadLength, Inv, TypeInv
<1>3. length' \in Nat
  BY <1>1, LengthLemma DEF Inv
<1>4. TypeInv'
  BY <1>1, <1>2, <1>3 DEF Inv, TypeInv
<1>5. EndInv'
  BY <1>1, <1>2 DEF Inv, EndInv
<1>6. LengthInv'
  BY <1>1 DEF LengthInv, Unread, size_
<1>7. WindowHoldsStream'
  BY <1>1 DEF Inv, WindowHoldsStream, size_
<1> QED  BY <1>4, <1>5, <1>6, <1>7 DEF Inv

(* A frame consumed is a whole frame of the stream. *)
LEMMA ReadFrameInv ==
  ASSUME Inv, ReadFrame
  PROVE  Inv'
<1>1. /\ stream' = stream /\ buffer_' = buffer_
      /\ source' = source /\ input' = input /\ capacity' = capacity
      /\ pos_' = pos_ + 2 + length /\ eof_' = eof_ /\ length' = 0
      /\ ~ended /\ Unread >= 2 + length
  BY DEF ReadFrame, FrameSize, Needed, Inv, TypeInv
<1>2. /\ failed_' \in BOOLEAN /\ ended' \in BOOLEAN
      /\ ~ended' => (failed_' <=> failed_)
  <2> DEFINE status == Frame(protocol, SubSeq(buffer_, pos_ + 3, pos_ + 2 + length)).status
  <2>1. /\ failed_' = (failed_ \/ status = "Malformed")
        /\ ended' = (status \in {"Malformed", "EndOfSession"})
    BY DEF ReadFrame
  <2> HIDE DEF status
  <2>2. failed_ \in BOOLEAN
    BY DEF Inv, TypeInv
  <2>3. failed_' \in BOOLEAN
    BY <2>1, Zenon
  <2>4. ended' \in BOOLEAN
    <3> DEFINE Q == status \in {"Malformed", "EndOfSession"}
    <3>1. ended' = Q
      BY <2>1
    <3>2. CASE Q
      BY <3>1, <3>2
    <3>3. CASE ~Q
      BY <3>1, <3>3
    <3> QED  BY <3>2, <3>3
  <2>5. ~ended' => status # "Malformed"
    BY <2>1
  <2>6. status # "Malformed" => (failed_' <=> failed_)
    BY <2>1, <2>2
  <2> QED  BY <2>3, <2>4, <2>5, <2>6
<1>3. pos_' \in 0 .. Len(buffer_)
  BY <1>1, LenProperties DEF Inv, TypeInv, Unread, size_
<1>4. TypeInv'
  BY <1>1, <1>2, <1>3 DEF Inv, TypeInv
<1>5. EndInv'
  BY <1>1, <1>2 DEF Inv, EndInv
<1>6. LengthInv'
  BY <1>1 DEF LengthInv
<1>7. WindowHoldsStream'
  BY <1>1, <1>3, LenProperties DEF Inv, TypeInv, WindowHoldsStream, size_
<1> QED  BY <1>4, <1>5, <1>6, <1>7 DEF Inv

(* The window invariant: the place in the stream, the length read and the  *)
(* end of the file, together with WindowHoldsStream, for every stream and  *)
(* window.                                                                 *)
THEOREM Invariant == FrameSpec => []Inv
<1>1. Inv /\ UNCHANGED frame_vars => Inv'
  BY DEF frame_vars, window_vars, Inv, TypeInv, EndInv, LengthInv,
         WindowHoldsStream, Unread, size_
<1>2. Inv /\ [FrameNext]_frame_vars => Inv'
  BY <1>1, RefillInv, StreamEndsInv, ReadLengthInv, ReadFrameInv DEF FrameNext
<1> QED  BY <1>2, InitInv, PTL DEF FrameSpec

(* Whatever the sizes of the window and of the frames, compacting, growing *)
(* and refilling lose, repeat and shift no byte (ensure of both            *)
(* connectors).                                                            *)
THEOREM WindowSound == FrameSpec => []WindowHoldsStream
<1>1. Inv => WindowHoldsStream
  BY DEF Inv
<1> QED  BY <1>1, Invariant, PTL

(* The buffer is resized to a frame that does not fit and for nothing      *)
(* else: the doubling inside ensure's loop is never reached.               *)
THEOREM GrowsOnlyForFrame == FrameSpec => BufferGrowsOnlyForFrame
<1> DEFINE Grows == capacity' # capacity => capacity < Needed /\ capacity' = Needed
<1>1. ASSUME Inv, Refill PROVE Grows
  <2>1. capacity' = Enough
    BY <1>1, RefillLemma DEF Inv
  <2> QED  BY <2>1 DEF Enough
<1>2. ASSUME StreamEnds \/ ReadLength \/ ReadFrame PROVE Grows
  BY <1>2 DEF StreamEnds, ReadLength, ReadFrame, window_vars
<1>3. Inv /\ [FrameNext]_frame_vars => [Grows]_frame_vars
  BY <1>1, <1>2 DEF FrameNext
<1> QED  BY <1>3, Invariant, PTL DEF FrameSpec, BufferGrowsOnlyForFrame

-----------------------------------------------------------------------------
(* The mapped place in the stream: how many bytes are consumed. *)
At == input - Unread

(* The two specifications say the same of one frame. *)
LEMMA SameFrame ==
  ASSUME NEW p, NEW b
  PROVE  Promise!Frame(p, b) = Frame(p, b)
  BY DEF Promise!Frame, Frame, Promise!Status, Status, Promise!EventOf, EventOf,
         Promise!RequiredLength, RequiredLength, Promise!SequencedData,
         SequencedData, Promise!EndOfSession, EndOfSession

(* Where the abstract reader would find the length, this one has it. *)
LEMMA PlaceLemma ==
  ASSUME Inv
  PROVE  /\ At \in Nat /\ Unread \in Nat /\ At + Unread = input
         /\ \A i \in 1 .. Unread : stream[At + i] = buffer_[pos_ + i]
<1>1. /\ pos_ \in Nat /\ size_ \in Nat /\ input \in Nat
      /\ pos_ <= size_ /\ size_ <= input
  BY LenProperties DEF Inv, TypeInv, WindowHoldsStream, size_
<1>2. ASSUME NEW i \in 1 .. Unread PROVE stream[At + i] = buffer_[pos_ + i]
  <2>1. pos_ + i \in 1 .. size_ /\ input - size_ + (pos_ + i) = At + i
    BY <1>1 DEF At, Unread
  <2> QED  BY <2>1 DEF Inv, WindowHoldsStream
<1> QED  BY <1>1, <1>2 DEF At, Unread

(* A refill is invisible. *)
LEMMA RefillStutters ==
  ASSUME Inv, Refill
  PROVE  UNCHANGED Promise!vars
<1>1. TypeInv
  BY DEF Inv
<1>2. Got \in Nat /\ input' = input + Got
  BY <1>1, RefillLemma
<1>3. Len(buffer_') = Unread + Got /\ Unread \in Nat
  BY RefillWindow
<1>4. input \in Nat
  BY <1>1 DEF TypeInv
<1>5. (input - Unread)' = input - Unread
  <2>1. pos_' = 0
    BY DEF Refill
  <2> QED  BY <1>2, <1>3, <1>4, <2>1 DEF Unread, size_
<1> QED  BY <1>5 DEF Refill, Promise!vars

(* ensure() gives up only where no whole frame is left. *)
LEMMA StreamEndsStops ==
  ASSUME Inv, StreamEnds
  PROVE  Promise!Stop
<1>1. /\ At \in Nat /\ Unread \in Nat /\ At + Unread = input
      /\ \A i \in 1 .. Unread : stream[At + i] = buffer_[pos_ + i]
  BY PlaceLemma
<1>2. input = Len(stream) /\ ~ended /\ Unread < Needed /\ length \in Nat
      /\ Len(stream) \in Nat
  BY LenProperties DEF Inv, EndInv, StreamEnds, TypeInv
<1>3. ~Promise!WholeFrame
  <2>1. CASE length = 0
    BY <2>1, <1>1, <1>2 DEF Promise!WholeFrame, Needed, At
  <2>2. CASE length # 0
    <3>1. Unread >= 2 /\ length = read_be16(buffer_[pos_ + 1], buffer_[pos_ + 2])
      BY <2>2, <1>2 DEF Inv, LengthInv
    <3>2. stream[At + 1] = buffer_[pos_ + 1] /\ stream[At + 2] = buffer_[pos_ + 2]
      BY <1>1, <3>1
    <3>3. Promise!Length = length
      BY <3>1, <3>2 DEF Promise!Length, Promise!read_be16, read_be16, At
    <3>4. Unread < 2 + length
      BY <2>2, <1>2 DEF Needed
    <3> QED  BY <1>1, <1>2, <3>3, <3>4 DEF Promise!WholeFrame, At
  <2> QED  BY <2>1, <2>2
<1>4. (input - Unread)' = input - Unread
  BY DEF StreamEnds, window_vars, Unread, size_
<1>5. failed_' <=> ~(source # "missing" /\ At = Len(stream))
  <2>1. failed_' <=> failed_ \/ length # 0 \/ Unread # 0
    BY DEF StreamEnds
  <2>2. failed_ <=> source = "missing"
    BY <1>2 DEF Inv, EndInv
  <2>3. At = Len(stream) <=> Unread = 0
    BY <1>1, <1>2
  <2>4. length # 0 => Unread # 0
    BY <1>2 DEF Inv, LengthInv
  <2> QED  BY <2>1, <2>2, <2>3, <2>4
<1> QED
  BY <1>2, <1>3, <1>4, <1>5 DEF StreamEnds, Promise!Stop, At

(* A length of zero stops the reader; any other is not visible yet. *)
LEMMA ReadLengthMaps ==
  ASSUME Inv, ReadLength
  PROVE  Promise!Stop \/ UNCHANGED Promise!vars
<1>1. /\ At \in Nat /\ Unread \in Nat /\ At + Unread = input
      /\ \A i \in 1 .. Unread : stream[At + i] = buffer_[pos_ + i]
  BY PlaceLemma
<1>2. Unread >= 2 /\ ~ended
  BY DEF ReadLength
<1>3. Promise!Length = length'
  <2>1. stream[At + 1] = buffer_[pos_ + 1] /\ stream[At + 2] = buffer_[pos_ + 2]
    BY <1>1, <1>2
  <2> QED
    BY <2>1 DEF ReadLength, Promise!Length, Promise!read_be16, read_be16, At
<1>4. (input - Unread)' = input - Unread
  BY DEF ReadLength, window_vars, Unread, size_
<1>5. CASE length' = 0
  <2>1. ~Promise!WholeFrame
    BY <1>3, <1>5 DEF Promise!WholeFrame
  <2>2. At # Len(stream)
    BY <1>1, <1>2, LenProperties DEF Inv, TypeInv
  <2>3. ended' /\ failed_'
    BY <1>5 DEF ReadLength
  <2> QED
    BY <1>2, <1>4, <2>1, <2>2, <2>3 DEF ReadLength, Promise!Stop, At
<1>6. CASE length' # 0
  <2>1. ~ended'
    BY <1>6 DEF ReadLength
  <2> QED  BY <1>2, <1>4, <2>1 DEF ReadLength, Promise!vars
<1> QED  BY <1>5, <1>6

(* A whole frame in the window is the abstract reader's next frame. *)
LEMMA ReadFrameTakes ==
  ASSUME Inv, ReadFrame
  PROVE  Promise!TakeFrame
<1>1. /\ At \in Nat /\ Unread \in Nat /\ At + Unread = input
      /\ \A i \in 1 .. Unread : stream[At + i] = buffer_[pos_ + i]
  BY PlaceLemma
<1>2. /\ ~ended /\ length \in Nat \ {0} /\ Unread >= 2 + length
      /\ input <= Len(stream) /\ Len(stream) \in Nat /\ input \in Nat
      /\ stream \in Seq(Byte) /\ buffer_ \in Seq(Byte)
      /\ pos_ \in Nat /\ Len(buffer_) \in Nat /\ Unread = Len(buffer_) - pos_
  BY LenProperties DEF Inv, TypeInv, ReadFrame, Needed, Unread, size_
<1>3. Promise!Length = length
  <2>1. length = read_be16(buffer_[pos_ + 1], buffer_[pos_ + 2])
    BY <1>2 DEF Inv, LengthInv
  <2>2. stream[At + 1] = buffer_[pos_ + 1] /\ stream[At + 2] = buffer_[pos_ + 2]
    BY <1>1, <1>2
  <2> QED  BY <2>1, <2>2 DEF Promise!Length, Promise!read_be16, read_be16, At
<1>4. Promise!WholeFrame
  BY <1>1, <1>2, <1>3 DEF Promise!WholeFrame, At
<1> DEFINE here == SubSeq(buffer_, pos_ + 3, pos_ + 2 + length)
           there == SubSeq(stream, At + 3, At + 2 + length)
<1>5. here = there
  <2>1. /\ here \in Seq(Byte) /\ Len(here) = length
        /\ \A i \in 1 .. length : here[i] = buffer_[pos_ + 2 + i]
    <3>1. /\ pos_ + 3 \in Nat \ {0} /\ pos_ + 2 + length \in Nat
          /\ pos_ + 2 + length <= Len(buffer_) /\ pos_ + 3 <= (pos_ + 2 + length) + 1
      BY <1>2
    <3>2. /\ here \in Seq(Byte)
          /\ Len(here) = (pos_ + 2 + length) - (pos_ + 3) + 1
          /\ \A i \in 1 .. (pos_ + 2 + length) - (pos_ + 3) + 1 :
               here[i] = buffer_[(pos_ + 3) + i - 1]
      BY <1>2, <3>1, PieceLemma
    <3> HIDE DEF here
    <3> QED  BY <1>2, <3>2
  <2>2. /\ there \in Seq(Byte) /\ Len(there) = length
        /\ \A i \in 1 .. length : there[i] = stream[At + 2 + i]
    <3>1. /\ At + 3 \in Nat \ {0} /\ At + 2 + length \in Nat
          /\ At + 2 + length <= Len(stream) /\ At + 3 <= (At + 2 + length) + 1
      BY <1>1, <1>2
    <3>2. /\ there \in Seq(Byte)
          /\ Len(there) = (At + 2 + length) - (At + 3) + 1
          /\ \A i \in 1 .. (At + 2 + length) - (At + 3) + 1 :
               there[i] = stream[(At + 3) + i - 1]
      BY <1>2, <3>1, PieceLemma
    <3> HIDE DEF there
    <3> QED  BY <1>1, <1>2, <3>2
  <2> HIDE DEF here, there
  <2>3. \A i \in 1 .. length : here[i] = there[i]
    <3> SUFFICES ASSUME NEW i \in 1 .. length PROVE here[i] = there[i]
      OBVIOUS
    <3>1. 2 + i \in 1 .. Unread /\ At + (2 + i) = At + 2 + i
          /\ pos_ + (2 + i) = pos_ + 2 + i
      BY <1>1, <1>2
    <3>2. stream[At + 2 + i] = buffer_[pos_ + 2 + i]
      BY <1>1, <3>1
    <3> QED  BY <2>1, <2>2, <3>2
  <2> QED  BY <2>1, <2>2, <2>3, SeqEqual
<1>6. SubSeq(stream, (input - Unread) + 3, (input - Unread) + 2 + Promise!Length)
        = here
  BY <1>3, <1>5 DEF At
<1> HIDE DEF here, there
<1> DEFINE frame == Frame(protocol, here)
<1>7. /\ sequence_' = IF frame.numbered THEN sequence_ + 1 ELSE sequence_
      /\ delivered' = IF frame.status = "Event"
                        THEN Append(delivered, [sequence |-> sequence_',
                                                event |-> EventFrom(frame.message)])
                        ELSE delivered
      /\ failed_' = (failed_ \/ frame.status = "Malformed")
      /\ ended' = (frame.status \in {"Malformed", "EndOfSession"})
  BY DEF ReadFrame, here
<1> HIDE DEF frame
<1>8. (input - Unread)' = (input - Unread) + 2 + Promise!Length
  <2>1. input' = input /\ buffer_' = buffer_ /\ pos_' = pos_ + (2 + length)
    BY DEF ReadFrame, FrameSize
  <2> QED  BY <1>2, <1>3, <2>1 DEF Unread, size_
<1>9. frame = Promise!Frame(protocol, SubSeq(stream, (input - Unread) + 3,
                                   (input - Unread) + 2 + Promise!Length))
  BY <1>6, SameFrame DEF frame
<1>10. ~failed_
  <2>1. source # "missing"
    <3>1. Len(stream) # 0
      BY <1>1, <1>2
    <3> QED  BY <3>1, EmptySeq DEF Inv, EndInv
  <2> QED  BY <1>2, <2>1 DEF Inv, EndInv
<1>11. (IF ~ended' THEN "reading" ELSE IF failed_' THEN "failed" ELSE "ended")
         = IF frame.status = "Malformed" THEN "failed"
           ELSE IF frame.status = "EndOfSession" THEN "ended"
           ELSE IF ~ended THEN "reading" ELSE IF failed_ THEN "failed" ELSE "ended"
  BY <1>2, <1>7, <1>10
<1>12. \A data : Promise!EventFrom(data) = EventFrom(data)
  BY DEF Promise!EventFrom, EventFrom, Promise!EventOf, EventOf
<1>13. UNCHANGED <<stream, protocol, source>>
  BY DEF ReadFrame
<1> QED
  BY <1>2, <1>4, <1>7, <1>8, <1>9, <1>11, <1>12, <1>13 DEF Promise!TakeFrame

(* The window is invisible: whatever its size, wherever the refills fall   *)
(* and however the stream is framed, next() of both connectors delivers,   *)
(* numbers and ends as the reader of the whole stream does.                *)
THEOREM ImplementsReader == FrameSpec => ImplementsFrameReader
<1>1. FrameInit => Promise!Init
  <2> SUFFICES ASSUME FrameInit PROVE Promise!Init
    OBVIOUS
  <2>1. input - Unread = 0
    <3>1. input = Len(buffer_) /\ pos_ = 0 /\ Len(buffer_) \in Nat
      <4>1. CASE source = "memory"
        BY <4>1, InitInv, LenProperties DEF FrameInit, Inv, TypeInv
      <4>2. CASE source # "memory"
        BY <4>2, EmptySeq DEF FrameInit
      <4> QED  BY <4>1, <4>2
    <3> QED  BY <3>1 DEF Unread, size_
  <2> QED  BY <2>1 DEF FrameInit, Promise!Init
<1>2. Inv /\ FrameNext => Promise!TakeFrame \/ Promise!Stop \/ UNCHANGED Promise!vars
  BY RefillStutters, StreamEndsStops, ReadLengthMaps, ReadFrameTakes DEF FrameNext
<1>3. UNCHANGED frame_vars => UNCHANGED Promise!vars
  BY DEF frame_vars, window_vars, Promise!vars, Unread, size_
<1>4. Inv /\ [FrameNext]_frame_vars
        => [Promise!TakeFrame \/ Promise!Stop]_(Promise!vars)
  BY <1>2, <1>3
<1> QED
  BY <1>1, <1>4, Invariant, PTL DEF FrameSpec, ImplementsFrameReader, Promise!Spec

-----------------------------------------------------------------------------
(* The programs: what a turn of the connector hands them. *)

(* The events the decoder lets through. *)
Accepted ==
  {event \in Events : event.type = "Add" => event.side \in {"Buy", "Sell"}}

Delivery == [sequence : Nat, event : Accepted]

(* The events are numbered, and none takes less than a byte. *)
DeliveredInv ==
  /\ sequence_ \in Nat
  /\ delivered \in Seq(Delivery)
  /\ Len(delivered) <= At

(* The connector returns an event. *)
Delivers(event) ==
  /\ sequence_' = sequence_ + 1
  /\ delivered' = Append(delivered, [sequence |-> sequence_ + 1, event |-> event])
  /\ Len(delivered) < Len(stream)

(* It does not. *)
Silent ==
  /\ sequence_' \in Nat /\ sequence_' >= sequence_
  /\ delivered' = delivered

(* A message that is decoded is one for the book, with a side if it adds.  *)
LEMMA DecodedEvent ==
  ASSUME NEW p, NEW body, Frame(p, body).status = "Event"
  PROVE  /\ Frame(p, body).numbered
         /\ EventFrom(Frame(p, body).message) \in Accepted
<1> DEFINE message == IF p = "BinaryFILE" THEN body ELSE Tail(body)
<1>1. /\ Frame(p, body).numbered
      /\ Frame(p, body).message = message
      /\ Status(message, Len(message)) = "Event"
  BY DEF Frame
<1> HIDE DEF message
<1>2. /\ message[1] \in DOMAIN Message
      /\ EventOf[Message[message[1]].type] = "Add"
           => Message[message[1]].side \in {"Buy", "Sell"}
  BY <1>1 DEF Status
<1> DEFINE b == message[1]
           event == [Message[b] EXCEPT !.type = EventOf[Message[b].type]]
<1>3. EventFrom(message) = event /\ EventFrom(<<b>>) = event
  BY DEF EventFrom
<1>4. event \in Events
  BY <1>2, <1>3 DEF Events
<1> HIDE DEF b
<1>5. Message[b] \in [type : {"A", "F", "E", "C", "X", "D", "U"}, symbol : Nat,
                      order_id : Nat, new_order_id : Nat,
                      side : {"Buy", "Sell", "none"},
                      price_ticks : Nat, quantity : Nat]
  BY <1>2, MessageAssumption DEF b
<1>6. event.type = EventOf[Message[b].type] /\ event.side = Message[b].side
  BY <1>5
<1>7. event.type = "Add" => event.side \in {"Buy", "Sell"}
  BY <1>2, <1>6 DEF b
<1> QED  BY <1>1, <1>3, <1>4, <1>7 DEF Accepted

(* Every turn of the connector is silent or delivers one event. *)
LEMMA DeliverStep ==
  ASSUME Inv, DeliveredInv, FrameNext
  PROVE  /\ DeliveredInv'
         /\ Silent \/ \E event \in Accepted : Delivers(event)
<1>0. sequence_ \in Nat /\ delivered \in Seq(Delivery) /\ Len(delivered) <= At
      /\ Len(delivered) \in Nat
  BY LenProperties DEF DeliveredInv
<1>1. CASE Refill
  <2>1. At' = At
    BY <1>1, RefillStutters DEF At, Promise!vars
  <2>2. sequence_' = sequence_ /\ delivered' = delivered
    BY <1>1 DEF Refill
  <2> QED  BY <1>0, <2>1, <2>2 DEF DeliveredInv, Silent
<1>2. CASE StreamEnds \/ ReadLength
  <2>1. At' = At /\ sequence_' = sequence_ /\ delivered' = delivered
    BY <1>2 DEF StreamEnds, ReadLength, window_vars, At, Unread, size_
  <2> QED  BY <1>0, <2>1 DEF DeliveredInv, Silent
<1>3. CASE ReadFrame
  <2>1. /\ At \in Nat /\ Unread \in Nat /\ At + Unread = input
    BY PlaceLemma
  <2>2. /\ length \in Nat \ {0} /\ Unread >= 2 + length
        /\ input <= Len(stream) /\ Len(stream) \in Nat /\ input \in Nat
    BY <1>3, LenProperties DEF Inv, TypeInv, ReadFrame, Needed
  <2>3. At' = At + 2 + length
    <3>1. input' = input /\ buffer_' = buffer_ /\ pos_' = pos_ + (2 + length)
          /\ pos_ \in Nat /\ Len(buffer_) \in Nat
      BY <1>3, LenProperties DEF ReadFrame, FrameSize, Inv, TypeInv
    <3> QED  BY <2>2, <3>1 DEF At, Unread, size_
  <2> DEFINE frame == Frame(protocol, SubSeq(buffer_, pos_ + 3, pos_ + 2 + length))
             event == EventFrom(frame.message)
  <2>4. /\ sequence_' = IF frame.numbered THEN sequence_ + 1 ELSE sequence_
        /\ delivered' = IF frame.status = "Event"
                          THEN Append(delivered, [sequence |-> sequence_', event |-> event])
                          ELSE delivered
    BY <1>3 DEF ReadFrame
  <2>5. frame.status = "Event" => frame.numbered /\ event \in Accepted
    BY DecodedEvent
  <2> HIDE DEF frame, event
  <2>6. CASE frame.status = "Event"
    <3>1. sequence_' = sequence_ + 1
          /\ delivered' = Append(delivered, [sequence |-> sequence_ + 1, event |-> event])
      BY <2>4, <2>5, <2>6
    <3>2. [sequence |-> sequence_ + 1, event |-> event] \in Delivery
      BY <1>0, <2>5, <2>6 DEF Delivery
    <3>3. delivered' \in Seq(Delivery) /\ Len(delivered') = Len(delivered) + 1
      BY <1>0, <3>1, <3>2, AppendProperties
    <3>4. DeliveredInv'
      BY <1>0, <2>1, <2>2, <2>3, <3>1, <3>3 DEF DeliveredInv
    <3>5. Delivers(event)
      BY <1>0, <2>1, <2>2, <3>1 DEF Delivers
    <3> QED  BY <2>5, <2>6, <3>4, <3>5
  <2>7. CASE frame.status # "Event"
    <3>1. delivered' = delivered /\ sequence_' \in Nat /\ sequence_' >= sequence_
      BY <1>0, <2>4, <2>7
    <3> QED  BY <1>0, <2>1, <2>2, <2>3, <3>1 DEF DeliveredInv, Silent
  <2> QED  BY <2>6, <2>7
<1> QED  BY <1>1, <1>2, <1>3 DEF FrameNext

(* What the programs do with an event. *)
Turn(event) ==
  /\ Delivers(event)
  /\ UNCHANGED max_events
  /\ Apply(event) /\ ApplySymbols(event) /\ Sample(sequence_ + 1, event)

(* A step of the programs: nothing, or a turn. *)
LEMMA ProgramStep ==
  ASSUME Inv, DeliveredInv, [Next]_vars
  PROVE  /\ DeliveredInv'
         /\ \/ Silent /\ UNCHANGED program_vars
            \/ \E event \in Accepted : Turn(event)
<1>0. sequence_ \in Nat /\ delivered \in Seq(Delivery)
  BY DEF DeliveredInv
<1>1. CASE UNCHANGED vars
  <2>1. UNCHANGED program_vars /\ sequence_' = sequence_ /\ delivered' = delivered
        /\ At' = At
    BY <1>1 DEF vars, frame_vars, window_vars, At, Unread, size_
  <2> QED  BY <1>0, <2>1 DEF DeliveredInv, Silent
<1>2. CASE Next
  <2>1. /\ DeliveredInv'
        /\ Silent \/ \E event \in Accepted : Delivers(event)
    BY <1>2, DeliverStep DEF Next
  <2>2. CASE Silent
    BY <1>2, <2>1, <2>2 DEF Next, Silent
  <2>3. ASSUME NEW event \in Accepted, Delivers(event)
        PROVE  Turn(event)
    <3> DEFINE d == [sequence |-> sequence_ + 1, event |-> event]
    <3>1. d \in Delivery
      BY <1>0 DEF Delivery
    <3>2. delivered' = Append(delivered, d)
      BY <2>3 DEF Delivers
    <3>3. Len(delivered') = Len(delivered) + 1 /\ Len(delivered) \in Nat
          /\ delivered'[Len(delivered')] = d
      BY <1>0, <3>1, <3>2, AppendProperties, LenProperties
    <3>4. delivered' # delivered
      BY <3>3
    <3>5. d.sequence = sequence_ + 1 /\ d.event = event
      OBVIOUS
    <3> HIDE DEF d
    <3> QED  BY <1>2, <2>3, <3>3, <3>4, <3>5 DEF Next, Turn
  <2> QED  BY <2>1, <2>2, <2>3
<1> QED  BY <1>1, <1>2

(* No program moves the connector: it runs as it would alone. *)
LEMMA FrameStep == [Next]_vars => [FrameNext]_frame_vars
  BY DEF Next, vars

(* Whatever the programs do with the events, the connector they read from  *)
(* runs as FrameSpec says, so that what is proved of it holds of them.     *)
THEOREM RunsConnector == Spec => FrameSpec
<1>1. Init => FrameInit
  BY DEF Init
<1> QED  BY <1>1, FrameStep, PTL DEF Spec, FrameSpec

(* Nothing is delivered before the first turn. *)
LEMMA DeliveredInit == FrameInit => DeliveredInv
<1> SUFFICES ASSUME FrameInit PROVE DeliveredInv
  OBVIOUS
<1>1. At \in Nat
  BY InitInv, PlaceLemma
<1>2. delivered = <<>> /\ sequence_ = 0
  BY DEF FrameInit
<1>3. delivered \in Seq(Delivery) /\ Len(delivered) = 0
  BY <1>2, EmptySeq
<1> QED  BY <1>1, <1>2, <1>3 DEF DeliveredInv

(* What the programs are handed, always. *)
LEMMA DeliveredInvariant == Spec => [](Inv /\ DeliveredInv)
<1>1. Spec => []Inv
  BY RunsConnector, Invariant, PTL
<1>2. Init => DeliveredInv
  BY DeliveredInit DEF Init
<1>3. Inv /\ DeliveredInv /\ [Next]_vars => DeliveredInv'
  BY ProgramStep
<1> QED  BY <1>1, <1>2, <1>3, PTL DEF Spec

-----------------------------------------------------------------------------
(* itch_features. *)

(* The rows so far carry numbers the connector has already given. *)
RowsInv ==
  /\ \E R : rows \in Seq(R)
  /\ \A i \in 1 .. Len(rows) :
       rows[i].sequence \in Nat /\ rows[i].sequence <= sequence_
  /\ RowsTrackTop

(* No row is written before the first event. *)
LEMMA RowsInit == Init => RowsInv
<1> SUFFICES ASSUME Init PROVE RowsInv
  OBVIOUS
<1>1. rows = <<>> /\ locate_book = EmptyBook
  BY DEF Init
<1>2. rows \in Seq({}) /\ Len(rows) = 0
  BY <1>1, EmptySeq
<1> QED  BY <1>1, <1>2 DEF RowsInv, RowsTrackTop

(* A row is written when the top is another, and then with a new number. *)
LEMMA RowsStep ==
  ASSUME DeliveredInv, RowsInv, NEW event \in Accepted, Turn(event)
  PROVE  RowsInv'
<1>1. /\ sequence_ \in Nat /\ sequence_' = sequence_ + 1
      /\ Sample(sequence_ + 1, event)
  BY DEF Turn, Delivers, DeliveredInv
<1>2. PICK R : rows \in Seq(R)
  BY DEF RowsInv
<1>3. Len(rows) \in Nat
  BY <1>2, LenProperties
<1>4. \A i \in 1 .. Len(rows) : rows[i].sequence \in Nat /\ rows[i].sequence <= sequence_
  BY DEF RowsInv
<1>5. CASE UNCHANGED <<locate_book, rows>>
  <2>1. rows' = rows /\ locate_book' = locate_book
    BY <1>5
  <2>2. RowsTrackTop'
    BY <2>1 DEF RowsInv, RowsTrackTop
  <2>3. \A i \in 1 .. Len(rows') :
          rows'[i].sequence \in Nat /\ rows'[i].sequence <= sequence_'
    <3> SUFFICES ASSUME NEW i \in 1 .. Len(rows)
                 PROVE  rows[i].sequence \in Nat /\ rows[i].sequence <= sequence_'
      BY <2>1
    <3>1. rows[i].sequence \in Nat /\ rows[i].sequence <= sequence_
      BY <1>4
    <3> QED  BY <1>1, <3>1
  <2>4. rows' \in Seq(R)
    BY <1>2, <2>1
  <2> QED  BY <2>2, <2>3, <2>4 DEF RowsInv
<1>6. CASE ~UNCHANGED <<locate_book, rows>>
  <2> DEFINE row == l1_row(sequence_ + 1, locate_book')
             bid == Best(locate_book', "Buy")
             ask == Best(locate_book', "Sell")
  <2>1. /\ rows' = IF rows = <<>> \/ l1_changed(rows[Len(rows)], row)
                     THEN Append(rows, row) ELSE rows
    BY <1>1, <1>6 DEF Sample
  <2>2. row.sequence = sequence_ + 1 /\ row.bid = bid /\ row.ask = ask
    BY DEF l1_row
  <2>3. Best(locate_book, "Buy")' = bid /\ Best(locate_book, "Sell")' = ask
    OBVIOUS
  <2> HIDE DEF row, bid, ask
  <2>4. CASE rows = <<>> \/ l1_changed(rows[Len(rows)], row)
    <3>1. rows' = Append(rows, row)
      BY <2>1, <2>4
    <3>2. rows \in Seq(R \cup {row}) /\ row \in R \cup {row}
      <4>1. \A i \in 1 .. Len(rows) : rows[i] \in R \cup {row}
        BY <1>2, ElementOfSeq
      <4> QED  BY <1>2, <4>1
    <3>3. /\ rows' \in Seq(R \cup {row})
          /\ Len(rows') = Len(rows) + 1
          /\ \A i \in 1 .. Len(rows) : rows'[i] = rows[i]
          /\ rows'[Len(rows) + 1] = row
      BY <3>1, <3>2, AppendProperties
    <3>4. \A i \in 1 .. Len(rows') :
            rows'[i].sequence \in Nat /\ rows'[i].sequence <= sequence_'
      <4> SUFFICES ASSUME NEW i \in 1 .. Len(rows')
                   PROVE  rows'[i].sequence \in Nat /\ rows'[i].sequence <= sequence_'
        OBVIOUS
      <4>1. CASE i = Len(rows) + 1
        BY <1>1, <2>2, <3>3, <4>1
      <4>2. CASE i # Len(rows) + 1
        <5>1. i \in 1 .. Len(rows) /\ rows'[i] = rows[i]
          BY <1>3, <3>3, <4>2
        <5> QED  BY <1>1, <1>4, <5>1
      <4> QED  BY <4>1, <4>2
    <3>5. rows' # <<>>
      BY <1>3, <3>3, EmptySeq
    <3>6. ASSUME NEW i \in 1 .. Len(rows') - 1
          PROVE  /\ <<rows'[i].bid, rows'[i].ask>> # <<rows'[i + 1].bid, rows'[i + 1].ask>>
                 /\ rows'[i].sequence < rows'[i + 1].sequence
      <4>1. i \in 1 .. Len(rows) /\ rows'[i] = rows[i]
        BY <1>3, <3>3
      <4>2. CASE i = Len(rows)
        <5>1. rows # <<>>
          BY <4>1, EmptySeq
        <5>2. rows[i].bid # row.bid \/ rows[i].ask # row.ask
          BY <2>4, <4>2, <5>1 DEF l1_changed
        <5>3. rows[i].sequence < row.sequence
          BY <1>1, <1>4, <2>2, <4>1
        <5> QED  BY <3>3, <4>1, <4>2, <5>2, <5>3
      <4>3. CASE i # Len(rows)
        <5>1. i \in 1 .. Len(rows) - 1 /\ i + 1 \in 1 .. Len(rows)
          BY <1>3, <4>1, <4>3
        <5>2. rows'[i + 1] = rows[i + 1]
          BY <3>3, <5>1
        <5> QED  BY <4>1, <5>1, <5>2 DEF RowsInv, RowsTrackTop
      <4> QED  BY <4>2, <4>3
    <3>7. <<rows'[Len(rows')].bid, rows'[Len(rows')].ask>> = <<bid, ask>>
      BY <2>2, <3>3
    <3>8. RowsTrackTop'
      BY <2>3, <3>5, <3>6, <3>7 DEF RowsTrackTop
    <3> QED  BY <3>3, <3>4, <3>8 DEF RowsInv
  <2>5. CASE ~(rows = <<>> \/ l1_changed(rows[Len(rows)], row))
    <3>1. rows' = rows /\ rows # <<>>
          /\ rows[Len(rows)].bid = bid /\ rows[Len(rows)].ask = ask
      BY <2>1, <2>2, <2>5 DEF l1_changed
    <3>2. RowsTrackTop'
      BY <2>3, <3>1 DEF RowsInv, RowsTrackTop
    <3> QED  BY <1>1, <1>2, <1>3, <1>4, <3>1, <3>2 DEF RowsInv
  <2> QED  BY <2>4, <2>5
<1> QED  BY <1>5, <1>6

(* For every stream, symbol and limit, the rows itch_features writes are   *)
(* the whole history of the top of the symbol's book: the last is the top  *)
(* as it is, none repeats the one before, and their numbers only grow.     *)
THEOREM RowsAreHistory == Spec => []RowsTrackTop
<1>1. DeliveredInv /\ RowsInv /\ Silent /\ UNCHANGED program_vars => RowsInv'
  <2> SUFFICES ASSUME DeliveredInv, RowsInv, Silent, UNCHANGED program_vars
               PROVE  RowsInv'
    OBVIOUS
  <2>1. rows' = rows /\ locate_book' = locate_book
    BY DEF program_vars
  <2>2. RowsTrackTop'
    BY <2>1 DEF RowsInv, RowsTrackTop
  <2>3. \A i \in 1 .. Len(rows) : rows[i].sequence \in Nat /\ rows[i].sequence <= sequence_'
    BY DEF RowsInv, Silent, DeliveredInv
  <2> QED  BY <2>1, <2>2, <2>3 DEF RowsInv
<1>2. Inv /\ DeliveredInv /\ RowsInv /\ [Next]_vars => RowsInv'
  BY <1>1, ProgramStep, RowsStep
<1>3. RowsInv => RowsTrackTop
  BY DEF RowsInv
<1> QED  BY <1>2, <1>3, RowsInit, DeliveredInvariant, PTL DEF Spec

-----------------------------------------------------------------------------
(* A book as a value, and what an event makes of it. *)

Entry == [side : {"Buy", "Sell"}, price : Nat, quantity : Nat, priority : Nat]

GoodBook(b) ==
  /\ b = [resting |-> b.resting, next_priority_ |-> b.next_priority_,
          used_slots |-> b.used_slots]
  /\ b.next_priority_ \in Nat
  /\ IsFiniteSet(Ids(b)) /\ b.resting \in [Ids(b) -> Entry]
  /\ \A i \in Ids(b) : b.resting[i].priority < b.next_priority_

HasFields(event) ==
  /\ event.type \in {"Add", "Trade", "Reduce", "Cancel", "Replace"}
  /\ event.symbol \in Nat /\ event.order_id \in Nat /\ event.new_order_id \in Nat
  /\ event.price_ticks \in Nat /\ event.quantity \in Nat
  /\ event.type = "Add" => event.side \in {"Buy", "Sell"}

(* The fields of an event. *)
LEMMA EventFields ==
  ASSUME NEW event \in Accepted
  PROVE  HasFields(event)
<1>1. PICK b \in DOMAIN Message : event = EventFrom(<<b>>)
  BY DEF Accepted, Events
<1> DEFINE m == Message[b]
<1>2. m \in [type : {"A", "F", "E", "C", "X", "D", "U"}, symbol : Nat,
             order_id : Nat, new_order_id : Nat, side : {"Buy", "Sell", "none"},
             price_ticks : Nat, quantity : Nat]
  BY <1>1, MessageAssumption
<1>3. event = [m EXCEPT !.type = EventOf[m.type]]
  BY <1>1 DEF EventFrom
<1> HIDE DEF m
<1>4. EventOf[m.type] \in {"Add", "Trade", "Reduce", "Cancel", "Replace"}
  BY <1>2 DEF EventOf
<1>5. event.type = "Add" => event.side \in {"Buy", "Sell"}
  BY DEF Accepted
<1> QED  BY <1>2, <1>3, <1>4, <1>5 DEF HasFields

(* A book without orders. *)
LEMMA EmptyOK == GoodBook(EmptyBook) /\ Ids(EmptyBook) = {} /\ order_count(EmptyBook) = 0
<1>1. EmptyBook.resting = <<>> /\ EmptyBook.next_priority_ = 0
      /\ EmptyBook = [resting |-> EmptyBook.resting,
                      next_priority_ |-> EmptyBook.next_priority_,
                      used_slots |-> EmptyBook.used_slots]
  BY DEF EmptyBook
<1>2. Ids(EmptyBook) = {}
  BY <1>1 DEF Ids
<1>3. EmptyBook.resting \in [Ids(EmptyBook) -> Entry]
  BY <1>1, <1>2
<1> QED  BY <1>1, <1>2, <1>3, FS_EmptySet DEF GoodBook, order_count

(* a is b with an order at the tail of its level. *)
Rested(b, id, order, a) ==
  /\ GoodBook(a)
  /\ Ids(a) = Ids(b) \cup {id}
  /\ order_count(a) = order_count(b) + 1
  /\ a.next_priority_ = b.next_priority_ + 1
  /\ a.used_slots \in acquire_level(b, order.side, order.price)
  /\ a.resting[id] = order
  /\ \A i \in Ids(b) : a.resting[i] = b.resting[i]

NewEntry(b, side, price, quantity) ==
  [side |-> side, price |-> price, quantity |-> quantity,
   priority |-> b.next_priority_]

(* A new order rests behind all the others. *)
LEMMA RestOK ==
  ASSUME NEW b, GoodBook(b), NEW id, id \notin Ids(b), NEW s \in {"Buy", "Sell"},
         NEW price \in Nat, NEW quantity \in Nat,
         NEW a \in Rest(b, id, s, price, quantity)
  PROVE  Rested(b, id, NewEntry(b, s, price, quantity), a)
<1> DEFINE e == NewEntry(b, s, price, quantity)
<1>0. PICK used \in acquire_level(b, s, price) :
           a = WithOrder(b, id, s, price, quantity, used)
  BY DEF Rest
<1>1. /\ a = [resting |-> a.resting, next_priority_ |-> a.next_priority_,
              used_slots |-> a.used_slots]
      /\ a.next_priority_ = b.next_priority_ + 1 /\ a.used_slots = used
  BY <1>0 DEF WithOrder
<1>2. Ids(a) = Ids(b) \cup {id}
  BY <1>0 DEF WithOrder, Ids
<1>3. /\ \A i \in Ids(b) : a.resting[i] = b.resting[i]
      /\ a.resting[id] = e
      /\ a.resting = [i \in Ids(a) |-> a.resting[i]]
  BY <1>0, <1>2 DEF WithOrder, NewEntry
<1>4. b.next_priority_ \in Nat
  BY DEF GoodBook
<1>5. e \in Entry /\ e.priority = b.next_priority_ /\ e.side = s /\ e.price = price
  BY <1>4 DEF Entry, NewEntry
<1> HIDE DEF e
<1>6. \A i \in Ids(b) : b.resting[i] \in Entry /\ b.resting[i].priority < b.next_priority_
  BY DEF GoodBook
<1>7. \A i \in Ids(a) : a.resting[i] \in Entry /\ a.resting[i].priority < a.next_priority_
  <2> SUFFICES ASSUME NEW i \in Ids(a)
               PROVE  a.resting[i] \in Entry /\ a.resting[i].priority < a.next_priority_
    OBVIOUS
  <2>1. CASE i = id
    BY <1>1, <1>3, <1>4, <1>5, <2>1
  <2>2. CASE i # id
    <3>1. i \in Ids(b) /\ a.resting[i] = b.resting[i]
      BY <1>2, <1>3, <2>2
    <3>2. b.resting[i].priority \in Nat
      BY <1>6, <3>1 DEF Entry
    <3> QED  BY <1>1, <1>4, <1>6, <3>1, <3>2
  <2> QED  BY <2>1, <2>2
<1>8. IsFiniteSet(Ids(a)) /\ order_count(a) = order_count(b) + 1
  BY <1>2, FS_AddElement DEF GoodBook, order_count
<1>9. a.resting \in [Ids(a) -> Entry]
  BY <1>3, <1>7
<1>10. GoodBook(a)
  BY <1>1, <1>4, <1>7, <1>8, <1>9 DEF GoodBook
<1>11. a.used_slots \in acquire_level(b, e.side, e.price)
  BY <1>0, <1>1, <1>5
<1> QED  BY <1>1, <1>2, <1>3, <1>8, <1>10, <1>11 DEF Rested, e

(* a is b without an order. *)
Dropped(b, id, a) ==
  /\ GoodBook(a)
  /\ Ids(a) = Ids(b) \ {id}
  /\ order_count(a) = order_count(b) - 1
  /\ a.next_priority_ = b.next_priority_ /\ a.used_slots = b.used_slots
  /\ \A i \in Ids(a) : a.resting[i] = b.resting[i]

(* Removing an order leaves the others alone. *)
LEMMA DropOK ==
  ASSUME NEW b, GoodBook(b), NEW id \in Ids(b)
  PROVE  Dropped(b, id, Drop(b, id))
<1> DEFINE a == Drop(b, id)
<1>0. b = [resting |-> b.resting, next_priority_ |-> b.next_priority_,
           used_slots |-> b.used_slots]
  BY DEF GoodBook
<1>1. a = [resting |-> [i \in Ids(b) \ {id} |-> b.resting[i]],
           next_priority_ |-> b.next_priority_, used_slots |-> b.used_slots]
  BY <1>0 DEF Drop, Ids
<1> HIDE DEF a
<1>2. /\ a = [resting |-> a.resting, next_priority_ |-> a.next_priority_,
              used_slots |-> a.used_slots]
      /\ a.next_priority_ = b.next_priority_ /\ a.used_slots = b.used_slots
      /\ a.resting = [i \in Ids(b) \ {id} |-> b.resting[i]]
  BY <1>1
<1>3. Ids(a) = Ids(b) \ {id}
  BY <1>2 DEF Ids
<1>4. \A i \in Ids(a) : a.resting[i] = b.resting[i]
  BY <1>2, <1>3
<1>5. IsFiniteSet(Ids(a)) /\ order_count(a) = order_count(b) - 1
  BY <1>3, FS_RemoveElement DEF GoodBook, order_count
<1>6. a.resting \in [Ids(a) -> Entry]
  BY <1>2, <1>3 DEF GoodBook
<1>7. GoodBook(a)
  BY <1>2, <1>3, <1>4, <1>5, <1>6 DEF GoodBook
<1> QED  BY <1>2, <1>3, <1>4, <1>5, <1>7 DEF a, Dropped

(* a is b with less of one order. *)
Reduced(b, id, quantity, a) ==
  /\ GoodBook(a)
  /\ Ids(a) = Ids(b)
  /\ a.next_priority_ = b.next_priority_ /\ a.used_slots = b.used_slots
  /\ \A i \in Ids(a) \ {id} : a.resting[i] = b.resting[i]
  /\ a.resting[id].side = b.resting[id].side
  /\ a.resting[id].price = b.resting[id].price
  /\ a.resting[id].priority = b.resting[id].priority
  /\ a.resting[id].quantity = b.resting[id].quantity - quantity

Less(b, id, quantity) == [b EXCEPT !.resting[id].quantity = @ - quantity]

(* Taking from an order leaves it, and the others, in place. *)
LEMMA ReduceOK ==
  ASSUME NEW b, GoodBook(b), NEW id \in Ids(b), NEW quantity \in Nat,
         quantity <= b.resting[id].quantity
  PROVE  Reduced(b, id, quantity, Less(b, id, quantity))
<1> DEFINE a == Less(b, id, quantity)
           e == [b.resting[id] EXCEPT !.quantity = @ - quantity]
<1>0. b = [resting |-> b.resting, next_priority_ |-> b.next_priority_,
           used_slots |-> b.used_slots]
  BY DEF GoodBook
<1>1. /\ a = [resting |-> a.resting, next_priority_ |-> a.next_priority_,
              used_slots |-> a.used_slots]
      /\ a.next_priority_ = b.next_priority_ /\ a.used_slots = b.used_slots
      /\ a.resting = [b.resting EXCEPT ![id] = e]
  BY <1>0 DEF Less
<1>2. b.resting[id] \in Entry /\ b.resting \in [Ids(b) -> Entry]
  BY DEF GoodBook
<1>3. /\ e \in Entry /\ e.side = b.resting[id].side /\ e.price = b.resting[id].price
      /\ e.priority = b.resting[id].priority /\ e.quantity = b.resting[id].quantity - quantity
  BY <1>2 DEF Entry
<1> HIDE DEF a, e
<1>4. /\ Ids(a) = Ids(b) /\ a.resting \in [Ids(a) -> Entry] /\ a.resting[id] = e
      /\ \A i \in Ids(a) \ {id} : a.resting[i] = b.resting[i]
  BY <1>1, <1>2, <1>3 DEF Ids
<1>5. \A i \in Ids(a) : a.resting[i].priority < a.next_priority_
  BY <1>1, <1>3, <1>4 DEF GoodBook
<1>6. GoodBook(a)
  BY <1>1, <1>4, <1>5 DEF GoodBook
<1> QED  BY <1>1, <1>3, <1>4, <1>6 DEF a, Reduced

-----------------------------------------------------------------------------
(* The four ways an event is applied. *)
Adding(b, event, a) ==
  /\ event.type = "Add" /\ event.order_id \notin Ids(b)
  /\ a \in Rest(b, event.order_id, event.side, event.price_ticks, event.quantity)

Replacing(b, event, a) ==
  LET id == event.order_id IN
  /\ event.type = "Replace" /\ id \in Ids(b)
  /\ event.new_order_id \notin Ids(b) \ {id}
  /\ a \in Rest(Drop(b, id), event.new_order_id, b.resting[id].side,
                event.price_ticks, event.quantity)

Reducing(b, event, a) ==
  LET id == event.order_id IN
  /\ event.type \in {"Trade", "Reduce"} /\ id \in Ids(b)
  /\ event.quantity < b.resting[id].quantity
  /\ a = Less(b, id, event.quantity)

Removing(b, event, a) ==
  LET id == event.order_id IN
  /\ event.type \in {"Trade", "Reduce", "Cancel"} /\ id \in Ids(b)
  /\ event.type # "Cancel" => event.quantity = b.resting[id].quantity
  /\ a = Drop(b, id)

Applying(b, event, a) ==
  \/ Adding(b, event, a) \/ Replacing(b, event, a)
  \/ Reducing(b, event, a) \/ Removing(b, event, a)

(* The fields of a resting order. *)
LEMMA QuantityNat ==
  ASSUME NEW b, GoodBook(b), NEW i \in Ids(b)
  PROVE  /\ b.resting[i] \in Entry
         /\ b.resting[i].quantity \in Nat /\ b.resting[i].side \in {"Buy", "Sell"}
         /\ b.resting[i].priority \in Nat /\ b.resting[i].price \in Nat
<1>1. b.resting[i] \in Entry
  BY DEF GoodBook
<1> QED  BY <1>1 DEF Entry

(* An applied event is one of the above, by its type. *)
LEMMA AppliedCases ==
  ASSUME NEW b, GoodBook(b), NEW event \in Accepted, NEW n,
         Outcome(b, event, n) = "Applied", NEW a \in process_event(b, event, n)
  PROVE  Applying(b, event, a)
<1> DEFINE id == event.order_id
<1>1. HasFields(event)
  BY EventFields
<1>2. event.type \in {"Add", "Trade", "Reduce", "Cancel", "Replace"}
      /\ event.quantity \in Nat
  BY <1>1 DEF HasFields
<1>3. CASE event.type = "Add"
  <2>1. id \notin Ids(b)
    BY <1>3 DEF Outcome
  <2>2. a \in Rest(b, id, event.side, event.price_ticks, event.quantity)
    BY <1>3 DEF process_event
  <2> QED  BY <1>3, <2>1, <2>2 DEF Applying, Adding
<1>4. CASE event.type = "Replace"
  <2>1. id \in Ids(b) /\ event.new_order_id \notin Ids(b) \ {id}
    BY <1>4 DEF Outcome
  <2>2. a \in Rest(Drop(b, id), event.new_order_id, b.resting[id].side,
                  event.price_ticks, event.quantity)
    BY <1>4 DEF process_event
  <2> QED  BY <1>4, <2>1, <2>2 DEF Applying, Replacing
<1>5. CASE event.type \in {"Trade", "Reduce"}
  <2>1. id \in Ids(b) /\ ~(event.quantity > b.resting[id].quantity)
    BY <1>5 DEF Outcome
  <2>2. b.resting[id].quantity \in Nat
    BY <2>1, QuantityNat
  <2>3. CASE event.quantity < b.resting[id].quantity
    <3>1. a = Less(b, id, event.quantity)
      BY <1>5, <2>3 DEF process_event, Less
    <3> QED  BY <1>5, <2>1, <2>3, <3>1 DEF Applying, Reducing
  <2>4. CASE ~(event.quantity < b.resting[id].quantity)
    <3>1. a = Drop(b, id)
      BY <1>5, <2>4 DEF process_event
    <3> QED  BY <1>2, <1>5, <2>1, <2>2, <2>4, <3>1 DEF Applying, Removing
  <2> QED  BY <2>3, <2>4
<1>6. CASE event.type = "Cancel"
  <2>1. id \in Ids(b)
    BY <1>6 DEF Outcome
  <2>2. a = Drop(b, id)
    BY <1>6 DEF process_event
  <2> QED  BY <1>6, <2>1, <2>2 DEF Applying, Removing
<1> QED  BY <1>2, <1>3, <1>4, <1>5, <1>6

(* A Replace whose new level is refused: the original is gone. *)
Refusing(b, event, a, n) ==
  LET id == event.order_id IN
  /\ event.type = "Replace" /\ id \in Ids(b)
  /\ Outcome(b, event, n) = "CapacityExhausted"
  /\ Saturated(b.used_slots, n)
  /\ a = Drop(b, id)

(* Any other event that is not applied leaves the book as it was. *)
LEMMA RefusedCases ==
  ASSUME NEW b, GoodBook(b), NEW event \in Accepted, NEW n,
         Outcome(b, event, n) # "Applied", NEW a \in process_event(b, event, n)
  PROVE  a = b \/ Refusing(b, event, a, n)
<1> DEFINE id == event.order_id
           outcome == Outcome(b, event, n)
<1>1. CASE outcome = "CapacityExhausted" /\ event.type = "Replace"
  <2>1. id \in Ids(b) /\ LevelRefused(Drop(b, id), b.resting[id].side,
                                      event.price_ticks, n)
    BY <1>1 DEF Outcome
  <2>2. Drop(b, id).used_slots = b.used_slots
    BY <2>1, DropOK DEF Dropped
  <2>3. Saturated(b.used_slots, n)
    BY <2>1, <2>2 DEF LevelRefused
  <2>4. a = Drop(b, id)
    BY <1>1 DEF process_event
  <2> QED  BY <1>1, <2>1, <2>3, <2>4 DEF Refusing
<1>2. CASE ~(outcome = "CapacityExhausted" /\ event.type = "Replace")
  BY <1>2 DEF process_event
<1> QED  BY <1>1, <1>2

(* The ids an event names. *)
Used(event) == IF event.type = "Replace" THEN {event.order_id, event.new_order_id}
                                         ELSE {event.order_id}

Moved(b, event, a, n) ==
  /\ GoodBook(a)
  /\ Ids(a) \subseteq Ids(b) \cup Used(event)
  /\ b.next_priority_ <= a.next_priority_ /\ a.next_priority_ <= b.next_priority_ + 1
  /\ order_count(a) <= order_count(b) + (IF event.type = "Add" THEN 1 ELSE 0)
  /\ order_count(b) <= n => order_count(a) <= n
  /\ Saturated(b.used_slots, n) => a.used_slots = b.used_slots

(* An order finds a saturated level table only on a level that is there. *)
LEMMA RestSaturated ==
  ASSUME NEW b, NEW id, NEW order, NEW a, Rested(b, id, order, a), NEW n,
         ~LevelRefused(b, order.side, order.price, n), Saturated(b.used_slots, n)
  PROVE  a.used_slots = b.used_slots
  BY DEF Rested, LevelRefused, acquire_level

(* A book holds finitely many orders. *)
LEMMA CountNat ==
  ASSUME NEW b, GoodBook(b)
  PROVE  order_count(b) \in Nat
  BY FS_CardinalityType DEF GoodBook, order_count

(* What process_event makes of a book, the full one and the refused event  *)
(* included.                                                               *)
LEMMA BookStep ==
  ASSUME NEW b, GoodBook(b), NEW event \in Accepted, NEW n \in Nat,
         NEW a \in process_event(b, event, n)
  PROVE  Moved(b, event, a, n)
<1> DEFINE id == event.order_id
<1>1. HasFields(event) /\ order_count(b) \in Nat
  BY EventFields, CountNat
<1>2. b.next_priority_ \in Nat
  BY DEF GoodBook
<1>3. CASE Outcome(b, event, n) # "Applied"
  <2>1. CASE a = b
    BY <1>1, <1>2, <2>1 DEF Moved
  <2>2. CASE Refusing(b, event, a, n)
    <3>1. Dropped(b, id, a)
      BY <2>2, DropOK DEF Refusing
    <3> QED  BY <1>1, <1>2, <2>2, <3>1 DEF Moved, Dropped, Refusing
  <2> QED  BY <1>3, <2>1, <2>2, RefusedCases
<1>4. CASE Outcome(b, event, n) = "Applied"
  <2>1. Applying(b, event, a)
    BY <1>4, AppliedCases
  <2>2. CASE Adding(b, event, a)
    <3>1. Rested(b, id, NewEntry(b, event.side, event.price_ticks, event.quantity), a)
      BY <1>1, <2>2, RestOK DEF Adding, HasFields
    <3>2. order_count(b) < n /\ ~LevelRefused(b, event.side, event.price_ticks, n)
      BY <1>1, <1>4, <2>2 DEF Outcome, Adding, HasFields
    <3>3. Saturated(b.used_slots, n) => a.used_slots = b.used_slots
      BY <3>1, <3>2, RestSaturated DEF NewEntry
    <3> QED  BY <1>1, <1>2, <2>2, <3>1, <3>2, <3>3 DEF Moved, Rested, Used, Adding
  <2>3. CASE Replacing(b, event, a)
    <3> DEFINE c == Drop(b, id)
               e == NewEntry(c, b.resting[id].side, event.price_ticks, event.quantity)
    <3>1. Dropped(b, id, c) /\ b.resting[id].side \in {"Buy", "Sell"}
      BY <2>3, DropOK, QuantityNat DEF Replacing
    <3>2. a \in Rest(c, event.new_order_id, b.resting[id].side, event.price_ticks, event.quantity)
      BY <2>3 DEF Replacing
    <3>3. GoodBook(c) /\ event.new_order_id \notin Ids(c)
      BY <2>3, <3>1 DEF Replacing, Dropped
    <3>4. Rested(c, event.new_order_id, e, a)
      BY <1>1, <3>1, <3>2, <3>3, RestOK DEF HasFields
    <3>5. ~LevelRefused(c, e.side, e.price, n)
      BY <1>4, <2>3 DEF Outcome, Replacing, NewEntry
    <3> HIDE DEF c, e
    <3>6. Saturated(b.used_slots, n) => a.used_slots = b.used_slots
      BY <3>1, <3>4, <3>5, RestSaturated DEF Dropped
    <3> QED  BY <1>1, <1>2, <2>3, <3>1, <3>4, <3>6 DEF Moved, Rested, Dropped, Used, Replacing
  <2>4. CASE Reducing(b, event, a)
    <3>1. b.resting[id].quantity \in Nat /\ event.quantity \in Nat
          /\ event.quantity <= b.resting[id].quantity
      BY <1>1, <2>4, QuantityNat DEF Reducing, HasFields
    <3>2. Reduced(b, id, event.quantity, a)
      BY <2>4, <3>1, ReduceOK DEF Reducing
    <3> QED  BY <1>1, <1>2, <2>4, <3>2 DEF Moved, Reduced, order_count, Reducing
  <2>5. CASE Removing(b, event, a)
    <3>1. Dropped(b, id, a)
      BY <2>5, DropOK DEF Removing
    <3> QED  BY <1>1, <1>2, <2>5, <3>1 DEF Moved, Dropped, Removing
  <2> QED  BY <2>1, <2>2, <2>3, <2>4, <2>5 DEF Applying
<1> QED  BY <1>3, <1>4

-----------------------------------------------------------------------------
(* The events so far, and what they can have brought into a book. *)

(* An event of the symbol has named the id. *)
NamedFor(D, s, id) ==
  \E i \in DOMAIN D : D[i].event.symbol = s /\ id \in Used(D[i].event)

AddsFor(D, s) ==
  {i \in DOMAIN D : D[i].event.type = "Add" /\ D[i].event.symbol = s}

AddsIn(D) == {i \in DOMAIN D : D[i].event.type = "Add"}

One(condition) == IF condition THEN 1 ELSE 0

Grown(D, event, after) ==
  /\ \A s, id : NamedFor(D, s, id) => NamedFor(after, s, id)
  /\ \A id \in Used(event) : NamedFor(after, event.symbol, id)
  /\ \A s : /\ Cardinality(AddsFor(D, s)) \in Nat
            /\ Cardinality(AddsFor(after, s)) = Cardinality(AddsFor(D, s))
                 + One(event.type = "Add" /\ event.symbol = s)
  /\ Cardinality(AddsIn(D)) \in Nat
  /\ Cardinality(AddsIn(after)) = Cardinality(AddsIn(D)) + One(event.type = "Add")

(* A set of positions in a sequence is finite. *)
LEMMA PositionsFinite ==
  ASSUME NEW n \in Nat, NEW A \in SUBSET (1 .. n)
  PROVE  IsFiniteSet(A)
<1>1. 1 \in Int /\ n \in Int
  OBVIOUS
<1>2. IsFiniteSet(1 .. n)
  BY <1>1, FS_Interval
<1> QED  BY <1>2, FS_Subset

(* Appending changes nothing before the new element. *)
LEMMA AppendLast ==
  ASSUME NEW S, NEW q \in Seq(S), NEW e \in S, NEW r, r = Append(q, e)
  PROVE  /\ r \in Seq(S) /\ Len(q) \in Nat /\ Len(r) = Len(q) + 1
         /\ \A i \in 1 .. Len(q) : r[i] = q[i]
         /\ r[Len(q) + 1] = e
  BY AppendProperties, LenProperties

(* The size of a set of positions when the sequence grows by one. *)
LEMMA GrowSet ==
  ASSUME NEW n \in Nat, NEW A \in SUBSET (1 .. n), NEW B, NEW last \in BOOLEAN,
         B = A \cup (IF last THEN {n + 1} ELSE {})
  PROVE  Cardinality(A) \in Nat /\ Cardinality(B) = Cardinality(A) + One(last)
<1>1. IsFiniteSet(A)
  BY PositionsFinite
<1>2. n + 1 \notin A
  OBVIOUS
<1>3. Cardinality(A) \in Nat
  BY <1>1, FS_CardinalityType
<1>4. CASE last
  <2>1. B = A \cup {n + 1}
    BY <1>4
  <2>2. Cardinality(B) = Cardinality(A) + 1
    BY <1>1, <1>2, <2>1, FS_AddElement
  <2> QED  BY <1>3, <1>4, <2>2 DEF One
<1>5. CASE ~last
  BY <1>3, <1>5 DEF One
<1> QED  BY <1>4, <1>5

(* One more event delivered is a feed grown by one. *)
LEMMA GrowLemma ==
  ASSUME NEW D \in Seq(Delivery), NEW event \in Accepted, NEW number \in Nat,
         NEW after, after = Append(D, [sequence |-> number, event |-> event])
  PROVE  Grown(D, event, after)
<1> DEFINE d == [sequence |-> number, event |-> event]
           n == Len(D)
<1>1. d \in Delivery /\ d.event = event
  BY DEF Delivery
<1> HIDE DEF d
<1>2. /\ n \in Nat /\ DOMAIN D = 1 .. n
      /\ after \in Seq(Delivery) /\ Len(after) = n + 1
      /\ \A i \in 1 .. n : after[i] = D[i]
      /\ after[n + 1] = d
  BY <1>1, AppendProperties, LenProperties DEF d
<1>3. DOMAIN after = (1 .. n) \cup {n + 1}
  BY <1>2, LenProperties
<1> HIDE DEF n
<1>4. ASSUME NEW s, NEW id, NamedFor(D, s, id)
      PROVE  NamedFor(after, s, id)
  BY <1>2, <1>3, <1>4 DEF NamedFor
<1>5. ASSUME NEW id \in Used(event)
      PROVE  NamedFor(after, event.symbol, id)
  BY <1>1, <1>2, <1>3 DEF NamedFor
<1>6. ASSUME NEW s
      PROVE  /\ Cardinality(AddsFor(D, s)) \in Nat
             /\ Cardinality(AddsFor(after, s)) = Cardinality(AddsFor(D, s))
                  + One(event.type = "Add" /\ event.symbol = s)
  <2> DEFINE last == event.type = "Add" /\ event.symbol = s
  <2>1. AddsFor(D, s) \in SUBSET (1 .. n)
    BY <1>2 DEF AddsFor
  <2>2. AddsFor(after, s) = AddsFor(D, s) \cup (IF last THEN {n + 1} ELSE {})
    <3>1. ASSUME NEW i \in 1 .. n
          PROVE  i \in AddsFor(after, s) <=> i \in AddsFor(D, s)
      BY <1>2, <1>3 DEF AddsFor
    <3>2. n + 1 \in AddsFor(after, s) <=> last
      BY <1>1, <1>2, <1>3 DEF AddsFor
    <3>3. AddsFor(after, s) \subseteq (1 .. n) \cup {n + 1}
      BY <1>3 DEF AddsFor
    <3>4. n + 1 \notin AddsFor(D, s)
      BY <1>2, <2>1
    <3> QED  BY <2>1, <3>1, <3>2, <3>3, <3>4
  <2>3. last \in BOOLEAN
    OBVIOUS
  <2> HIDE DEF last
  <2>4. Cardinality(AddsFor(D, s)) \in Nat
        /\ Cardinality(AddsFor(after, s)) = Cardinality(AddsFor(D, s)) + One(last)
    BY <1>2, <2>1, <2>2, <2>3, GrowSet
  <2> QED  BY <2>4 DEF last
<1>7. /\ Cardinality(AddsIn(D)) \in Nat
      /\ Cardinality(AddsIn(after)) = Cardinality(AddsIn(D)) + One(event.type = "Add")
  <2> DEFINE last == event.type = "Add"
  <2>1. AddsIn(D) \in SUBSET (1 .. n)
    BY <1>2 DEF AddsIn
  <2>2. AddsIn(after) = AddsIn(D) \cup (IF last THEN {n + 1} ELSE {})
    <3>1. ASSUME NEW i \in 1 .. n
          PROVE  i \in AddsIn(after) <=> i \in AddsIn(D)
      BY <1>2, <1>3 DEF AddsIn
    <3>2. n + 1 \in AddsIn(after) <=> last
      BY <1>1, <1>2, <1>3 DEF AddsIn
    <3>3. AddsIn(after) \subseteq (1 .. n) \cup {n + 1}
      BY <1>3 DEF AddsIn
    <3>4. n + 1 \notin AddsIn(D)
      BY <1>2, <2>1
    <3> QED  BY <2>1, <3>1, <3>2, <3>3, <3>4
  <2>3. last \in BOOLEAN
    OBVIOUS
  <2> HIDE DEF last
  <2>4. Cardinality(AddsIn(D)) \in Nat
        /\ Cardinality(AddsIn(after)) = Cardinality(AddsIn(D)) + One(last)
    BY <1>2, <2>1, <2>2, <2>3, GrowSet
  <2> QED  BY <2>4 DEF last
<1> QED  BY <1>4, <1>5, <1>6, <1>7 DEF Grown

-----------------------------------------------------------------------------
(* The books of the programs, whatever the feed. *)

Counts == [decoded : Nat, applied : Nat, rejected : Nat, peak_orders : Nat]

(* A symbol's book: what rests in it was brought by the symbol's events. *)
SymbolBook(b, s, D) ==
  /\ GoodBook(b)
  /\ order_count(b) <= per_symbol_capacity
  /\ b.next_priority_ <= Len(D)
  /\ \A i \in Ids(b) : NamedFor(D, s, i)
  /\ order_count(b) <= Cardinality(AddsFor(D, s))

(* seen_ lists the symbols that have a book, each once. *)
Listed(m) ==
  /\ DOMAIN m.books \subseteq Symbols
  /\ m.seen_ \in Seq(DOMAIN m.books)
  /\ \A s \in DOMAIN m.books : \E i \in 1 .. Len(m.seen_) : m.seen_[i] = s
  /\ \A i, j \in 1 .. Len(m.seen_) : m.seen_[i] = m.seen_[j] => i = j

BooksInv ==
  /\ counts \in Counts /\ symbol_counts \in Counts
  /\ result # "matching"
  /\ GoodBook(book) /\ order_count(book) <= Cardinality(AddsIn(delivered))
  /\ Listed(multi)
  /\ \A s \in DOMAIN multi.books : SymbolBook(multi.books[s], s, delivered)

(* A symbol without a book has an empty one. *)
LEMMA EmptySymbolBook ==
  ASSUME NEW D \in Seq(Delivery), NEW s
  PROVE  SymbolBook(EmptyBook, s, D)
<1>1. IsFiniteSet(AddsFor(D, s))
  <2>1. AddsFor(D, s) \subseteq 1 .. Len(D) /\ Len(D) \in Nat
    BY LenProperties DEF AddsFor
  <2> QED  BY <2>1, PositionsFinite
<1>2. Cardinality(AddsFor(D, s)) \in Nat /\ Len(D) \in Nat
  BY <1>1, FS_CardinalityType, LenProperties
<1>3. EmptyBook.next_priority_ = 0
  BY DEF EmptyBook
<1> QED  BY <1>2, <1>3, EmptyOK, MultiSymbolAssumption DEF SymbolBook

(* The book found for a symbol is that symbol's book, made or not. *)
LEMMA BookOfOK ==
  ASSUME DeliveredInv, BooksInv, NEW s
  PROVE  SymbolBook(BookOf(multi, s), s, delivered)
  BY EmptySymbolBook DEF BookOf, BooksInv, DeliveredInv

(* More events leave a book that did not change as it was. *)
LEMMA SymbolBookGrows ==
  ASSUME NEW D \in Seq(Delivery), NEW event \in Accepted, NEW number \in Nat,
         NEW after, after = Append(D, [sequence |-> number, event |-> event]),
         NEW b, NEW s, SymbolBook(b, s, D)
  PROVE  SymbolBook(b, s, after)
<1>1. Grown(D, event, after)
  BY GrowLemma
<1>2. order_count(b) \in Nat /\ b.next_priority_ \in Nat
  BY CountNat DEF SymbolBook, GoodBook
<1>3. Len(after) = Len(D) + 1 /\ Len(D) \in Nat
  <2>1. [sequence |-> number, event |-> event] \in Delivery
    BY DEF Delivery
  <2> QED  BY <2>1, AppendProperties, LenProperties
<1>4. Cardinality(AddsFor(D, s)) \in Nat
      /\ Cardinality(AddsFor(after, s)) \in Nat
      /\ Cardinality(AddsFor(after, s)) >= Cardinality(AddsFor(D, s))
  BY <1>1 DEF Grown, One
<1>5. \A i \in Ids(b) : NamedFor(after, s, i)
  BY <1>1 DEF Grown, SymbolBook
<1> QED  BY <1>2, <1>3, <1>4, <1>5 DEF SymbolBook

(* The book an event goes to. *)
LEMMA SymbolBookStep ==
  ASSUME NEW D \in Seq(Delivery), NEW event \in Accepted, NEW number \in Nat,
         NEW after, after = Append(D, [sequence |-> number, event |-> event]),
         NEW b, SymbolBook(b, event.symbol, D),
         NEW a \in process_event(b, event, per_symbol_capacity)
  PROVE  SymbolBook(a, event.symbol, after)
<1> DEFINE s == event.symbol
<1>1. Grown(D, event, after)
  BY GrowLemma
<1>2. GoodBook(b) /\ per_symbol_capacity \in Nat
  BY MultiSymbolAssumption DEF SymbolBook
<1>3. Moved(b, event, a, per_symbol_capacity)
  BY <1>2, BookStep
<1>4. /\ order_count(b) \in Nat /\ b.next_priority_ \in Nat
      /\ order_count(a) \in Nat /\ a.next_priority_ \in Nat
  BY <1>2, <1>3, CountNat DEF Moved, GoodBook
<1>5. Len(after) = Len(D) + 1 /\ Len(D) \in Nat
  <2>1. [sequence |-> number, event |-> event] \in Delivery
    BY DEF Delivery
  <2> QED  BY <2>1, AppendProperties, LenProperties
<1>6. \A i \in Ids(a) : NamedFor(after, s, i)
  <2>1. \A i \in Ids(a) : i \in Ids(b) \/ i \in Used(event)
    BY <1>3 DEF Moved
  <2>2. \A i \in Ids(b) : NamedFor(after, s, i)
    BY <1>1 DEF Grown, SymbolBook
  <2> QED  BY <1>1, <2>1, <2>2 DEF Grown
<1>7. order_count(a) <= Cardinality(AddsFor(after, s))
  <2>1. Cardinality(AddsFor(D, s)) \in Nat
        /\ Cardinality(AddsFor(after, s)) = Cardinality(AddsFor(D, s)) + One(event.type = "Add")
    BY <1>1 DEF Grown, One
  <2> QED  BY <1>3, <1>4, <2>1 DEF One, Moved, SymbolBook
<1> QED  BY <1>3, <1>4, <1>5, <1>6, <1>7 DEF SymbolBook, Moved

(* What Route leaves in the slots. *)
LEMMA RouteBooks ==
  ASSUME NEW m, NEW event, event.symbol < max_symbols, event.symbol \in Nat,
         NEW r \in Route(m, event)
  PROVE  /\ DOMAIN r.books = DOMAIN m.books \cup {event.symbol}
         /\ r.books[event.symbol]
              \in process_event(BookOf(m, event.symbol), event, per_symbol_capacity)
         /\ \A s \in DOMAIN m.books \ {event.symbol} : r.books[s] = m.books[s]
         /\ r.seen_ = IF event.symbol \in DOMAIN m.books THEN m.seen_
                      ELSE Append(m.seen_, event.symbol)
<1>1. ~(event.symbol >= max_symbols)
  BY MultiSymbolAssumption
<1>2. PICK b \in process_event(BookOf(m, event.symbol), event, per_symbol_capacity) :
           r = Routed(m, event.symbol, b)
  BY <1>1 DEF Route, Slot
<1> QED  BY <1>2 DEF Routed

(* A symbol is listed when its book is made, and only then. *)
LEMMA ListedStep ==
  ASSUME NEW m, Listed(m), NEW event, event.symbol \in Nat, event.symbol < max_symbols,
         NEW r \in Route(m, event)
  PROVE  Listed(r)
<1> DEFINE s == event.symbol
<1>1. /\ DOMAIN r.books = DOMAIN m.books \cup {s}
      /\ r.seen_ = IF s \in DOMAIN m.books THEN m.seen_ ELSE Append(m.seen_, s)
  BY RouteBooks
<1>2. s \in Symbols
  BY MultiSymbolAssumption DEF Symbols
<1>3. CASE s \in DOMAIN m.books
  <2>1. DOMAIN r.books = DOMAIN m.books /\ r.seen_ = m.seen_
    BY <1>1, <1>3
  <2> QED  BY <2>1 DEF Listed
<1>4. CASE s \notin DOMAIN m.books
  <2> DEFINE n == Len(m.seen_)
  <2>1. m.seen_ \in Seq(DOMAIN r.books) /\ n \in Nat
        /\ \A i \in 1 .. n : m.seen_[i] \in DOMAIN m.books
    <3>1. m.seen_ \in Seq(DOMAIN m.books)
      BY DEF Listed
    <3>2. \A i \in 1 .. n : m.seen_[i] \in DOMAIN m.books
      BY <3>1, ElementOfSeq
    <3> QED  BY <1>1, <3>1, <3>2, LenProperties
  <2>2. /\ r.seen_ \in Seq(DOMAIN r.books) /\ Len(r.seen_) = n + 1
        /\ \A i \in 1 .. n : r.seen_[i] = m.seen_[i]
        /\ r.seen_[n + 1] = s
    <3>1. r.seen_ = Append(m.seen_, s) /\ s \in DOMAIN r.books
      BY <1>1, <1>4
    <3> DEFINE R == DOMAIN r.books
               q == m.seen_
               p == r.seen_
    <3>2. q \in Seq(R) /\ s \in R /\ p = Append(q, s)
      BY <2>1, <3>1
    <3> HIDE DEF R, q, p
    <3>3. /\ p \in Seq(R) /\ Len(p) = Len(q) + 1
          /\ \A i \in 1 .. Len(q) : p[i] = q[i]
          /\ p[Len(q) + 1] = s
      BY <3>2, AppendLast
    <3> QED  BY <3>3 DEF R, q, p
  <2>3. \A t \in DOMAIN r.books : \E i \in 1 .. n + 1 : r.seen_[i] = t
    <3> SUFFICES ASSUME NEW t \in DOMAIN r.books
                 PROVE  \E i \in 1 .. n + 1 : r.seen_[i] = t
      OBVIOUS
    <3>1. CASE t = s
      BY <2>1, <2>2, <3>1
    <3>2. CASE t # s
      <4>1. PICK i \in 1 .. n : m.seen_[i] = t
        BY <1>1, <3>2 DEF Listed
      <4> QED  BY <2>1, <2>2, <4>1
    <3> QED  BY <3>1, <3>2
  <2>4. \A i, j \in 1 .. n + 1 : r.seen_[i] = r.seen_[j] => i = j
    <3> SUFFICES ASSUME NEW i \in 1 .. n + 1, NEW j \in 1 .. n + 1,
                        r.seen_[i] = r.seen_[j]
                 PROVE  i = j
      OBVIOUS
    <3>1. \A k \in 1 .. n : r.seen_[k] # s
      BY <1>4, <2>1, <2>2
    <3>2. CASE i = n + 1
      BY <2>1, <2>2, <3>1, <3>2
    <3>3. CASE j = n + 1
      BY <2>1, <2>2, <3>1, <3>3
    <3>4. CASE i # n + 1 /\ j # n + 1
      <4>1. i \in 1 .. n /\ j \in 1 .. n
        BY <2>1, <3>4
      <4> QED  BY <2>2, <4>1 DEF Listed
    <3> QED  BY <3>2, <3>3, <3>4
  <2> QED  BY <1>1, <1>2, <2>2, <2>3, <2>4 DEF Listed
<1> QED  BY <1>3, <1>4

(* peak_orders stays a number. *)
LEMMA MaxPair ==
  ASSUME NEW a \in Nat, NEW b \in Nat
  PROVE  Max({a, b}) \in Nat
<1> DEFINE S == {a, b}
<1>1. \E x \in S : \A y \in S : x >= y
  OBVIOUS
<1>2. Max(S) \in S
  BY <1>1, Zenon DEF Max
<1> QED  BY <1>2

(* The counters after an event. *)
Counted(c, outcome, peak) ==
  [decoded |-> c.decoded + 1,
   applied |-> c.applied + One(outcome = "Applied"),
   rejected |-> c.rejected + One(outcome # "Applied"),
   peak_orders |-> peak]

(* The record a count leaves. *)
LEMMA Recount ==
  ASSUME NEW c \in Counts, NEW u \in Nat, NEW v \in Nat, NEW w \in Nat
  PROVE  [c EXCEPT !.decoded = u, !.applied = v, !.rejected = w]
           = [decoded |-> u, applied |-> v, rejected |-> w,
              peak_orders |-> c.peak_orders]
<1> DEFINE e == [c EXCEPT !.decoded = u, !.applied = v, !.rejected = w]
<1>1. /\ e \in [decoded : {u}, applied : {v}, rejected : {w}, peak_orders : {c.peak_orders}]
  BY DEF Counts
<1> SUFFICES e = [decoded |-> u, applied |-> v, rejected |-> w,
                  peak_orders |-> c.peak_orders]
  OBVIOUS
<1> HIDE DEF e
<1> QED  BY <1>1

(* Counting an event. *)
LEMMA CountsStep ==
  ASSUME NEW c \in Counts, NEW outcome
  PROVE  /\ Count(c, outcome) = Counted(c, outcome, c.peak_orders)
         /\ Count(c, outcome) \in Counts
         /\ \A peak : [Count(c, outcome) EXCEPT !.peak_orders = peak]
                        = Counted(c, outcome, peak)
         /\ \A peak \in Nat : Counted(c, outcome, peak) \in Counts
<1>1. /\ c.decoded \in Nat /\ c.applied \in Nat /\ c.rejected \in Nat
      /\ c.peak_orders \in Nat
      /\ c = [decoded |-> c.decoded, applied |-> c.applied, rejected |-> c.rejected,
              peak_orders |-> c.peak_orders]
  BY DEF Counts
<1>2. Count(c, outcome) = Counted(c, outcome, c.peak_orders)
  <2> DEFINE u == c.decoded + 1
             v == IF outcome = "Applied" THEN c.applied + 1 ELSE c.applied
             w == IF outcome = "Applied" THEN c.rejected ELSE c.rejected + 1
  <2>1. Count(c, outcome) = [c EXCEPT !.decoded = u, !.applied = v, !.rejected = w]
    BY Zenon DEF Count
  <2>2. v = c.applied + One(outcome = "Applied") /\ w = c.rejected + One(outcome # "Applied")
    BY <1>1 DEF One
  <2>4. u \in Nat /\ v \in Nat /\ w \in Nat
    BY <1>1
  <2> HIDE DEF u, v, w
  <2>3. Count(c, outcome) = [decoded |-> u, applied |-> v, rejected |-> w,
                             peak_orders |-> c.peak_orders]
    BY <1>1, <2>1, <2>4, Recount
  <2> QED  BY <2>2, <2>3 DEF Counted, u
<1>3. \A peak : [Counted(c, outcome, c.peak_orders) EXCEPT !.peak_orders = peak]
                  = Counted(c, outcome, peak)
  BY DEF Counted
<1>4. \A peak \in Nat : Counted(c, outcome, peak) \in Counts
  BY <1>1 DEF Counted, Counts, One
<1> QED  BY <1>1, <1>2, <1>3, <1>4

(* There is no book before the first event. *)
LEMMA BooksInit == Init => BooksInv
<1> SUFFICES ASSUME Init PROVE BooksInv
  OBVIOUS
<1>1. /\ book = EmptyBook /\ multi = NoBooks /\ result = "Applied"
      /\ counts = NoCounts /\ symbol_counts = NoCounts /\ delivered = <<>>
  BY DEF Init, FrameInit
<1>2. NoCounts \in Counts
  BY DEF NoCounts, Counts
<1>3. GoodBook(book) /\ order_count(book) = 0
  BY <1>1, EmptyOK
<1>4. Cardinality(AddsIn(delivered)) = 0
  <2>1. AddsIn(delivered) = {}
    BY <1>1 DEF AddsIn
  <2> QED  BY <2>1, FS_EmptySet
<1>5. multi.books = <<>> /\ multi.seen_ = <<>>
  BY <1>1 DEF NoBooks
<1>6. DOMAIN multi.books = {} /\ multi.seen_ \in Seq(DOMAIN multi.books)
      /\ Len(multi.seen_) = 0
  BY <1>5, EmptySeq
<1>7. Listed(multi)
  BY <1>6 DEF Listed
<1> QED  BY <1>1, <1>2, <1>3, <1>4, <1>6, <1>7 DEF BooksInv

(* apply_all's book after an event. *)
LEMMA ApplyOK ==
  ASSUME DeliveredInv, BooksInv, NEW event \in Accepted, Turn(event)
  PROVE  /\ counts' \in Counts /\ GoodBook(book')
         /\ order_count(book') <= Cardinality(AddsIn(delivered'))
<1>1. /\ GoodBook(book) /\ counts \in Counts /\ max_orders \in Nat
      /\ order_count(book) <= Cardinality(AddsIn(delivered))
  BY ReplayAssumption DEF BooksInv
<1>2. Grown(delivered, event, delivered')
  <2>1. sequence_ + 1 \in Nat /\ delivered \in Seq(Delivery)
    BY DEF DeliveredInv
  <2> QED  BY <2>1, GrowLemma DEF Turn, Delivers
<1>3. Cardinality(AddsIn(delivered)) \in Nat
      /\ Cardinality(AddsIn(delivered')) = Cardinality(AddsIn(delivered)) + One(event.type = "Add")
  BY <1>2 DEF Grown
<1>4. order_count(book) \in Nat
  BY <1>1, CountNat
<1>5. CASE Running(counts.decoded)
  <2>1. /\ book' \in process_event(book, event, max_orders)
        /\ counts' = [Count(counts, Outcome(book, event, max_orders))
                        EXCEPT !.peak_orders = Max({counts.peak_orders, order_count(book')})]
    <3>1. /\ book' \in process_event(book, event, max_orders)
          /\ counts' = [Count(counts, Outcome(book, event, max_orders))
                        EXCEPT !.peak_orders = Max({@, order_count(book')})]
      BY <1>5 DEF Turn, Apply
    <3>2. Count(counts, Outcome(book, event, max_orders)).peak_orders = counts.peak_orders
      BY <1>1, CountsStep DEF Counted
    <3> QED  BY <3>1, <3>2
  <2>2. Moved(book, event, book', max_orders)
    BY <1>1, <2>1, BookStep
  <2>3. GoodBook(book') /\ order_count(book') \in Nat
        /\ order_count(book') <= order_count(book) + One(event.type = "Add")
    BY <2>2, CountNat DEF Moved, One
  <2>4. Max({counts.peak_orders, order_count(book')}) \in Nat
    BY <1>1, <2>3, MaxPair DEF Counts
  <2>5. counts' \in Counts
    BY <1>1, <2>1, <2>4, CountsStep
  <2> QED  BY <1>1, <1>3, <1>4, <2>3, <2>5 DEF One
<1>6. CASE ~Running(counts.decoded)
  <2>1. book' = book /\ counts' = counts
    BY <1>6 DEF Turn, Apply
  <2> QED  BY <1>1, <1>3, <1>4, <2>1 DEF One
<1> QED  BY <1>5, <1>6

(* apply_all_symbols' books after an event. *)
LEMMA ApplySymbolsOK ==
  ASSUME DeliveredInv, BooksInv, NEW event \in Accepted, Turn(event)
  PROVE  /\ symbol_counts' \in Counts /\ result' # "matching"
         /\ Listed(multi')
         /\ \A s \in DOMAIN multi'.books : SymbolBook(multi'.books[s], s, delivered')
<1>0. /\ sequence_ + 1 \in Nat /\ delivered \in Seq(Delivery)
      /\ delivered' = Append(delivered, [sequence |-> sequence_ + 1, event |-> event])
  BY DEF DeliveredInv, Turn, Delivers
<1>1. /\ symbol_counts \in Counts /\ result # "matching" /\ Listed(multi)
      /\ \A s \in DOMAIN multi.books : SymbolBook(multi.books[s], s, delivered)
  BY DEF BooksInv
<1>2. ASSUME NEW s \in DOMAIN multi.books
      PROVE  SymbolBook(multi.books[s], s, delivered')
  <2>1. SymbolBook(multi.books[s], s, delivered)
    BY <1>1
  <2> DEFINE number == sequence_ + 1
  <2>2. number \in Nat
        /\ delivered' = Append(delivered, [sequence |-> number, event |-> event])
    BY <1>0
  <2> HIDE DEF number
  <2> QED  BY <1>0, <2>1, <2>2, SymbolBookGrows, Zenon
<1>3. event.symbol \in Nat /\ max_symbols \in Nat
  BY EventFields, MultiSymbolAssumption DEF HasFields
<1>4. CASE Running(symbol_counts.decoded)
  <2>1. /\ multi' \in Route(multi, event) /\ result' = RouteOutcome(multi, event)
        /\ symbol_counts' = Count(symbol_counts, result')
    BY <1>4 DEF Turn, ApplySymbols
  <2>2. symbol_counts' \in Counts
    BY <1>1, <2>1, CountsStep
  <2>3. result' # "matching"
    BY <2>1 DEF RouteOutcome, Outcome
  <2>4. CASE event.symbol >= max_symbols
    <3>1. multi' = multi
      BY <2>1, <2>4 DEF Route
    <3> QED  BY <1>1, <1>2, <2>2, <2>3, <3>1
  <2>5. CASE event.symbol < max_symbols
    <3>1. Listed(multi')
      BY <1>1, <1>3, <2>1, <2>5, ListedStep
    <3>2. /\ DOMAIN multi'.books = DOMAIN multi.books \cup {event.symbol}
          /\ multi'.books[event.symbol]
               \in process_event(BookOf(multi, event.symbol), event, per_symbol_capacity)
          /\ \A s \in DOMAIN multi.books \ {event.symbol} : multi'.books[s] = multi.books[s]
      BY <1>3, <2>1, <2>5, RouteBooks
    <3>3. SymbolBook(multi'.books[event.symbol], event.symbol, delivered')
      <4> DEFINE number == sequence_ + 1
                 b == BookOf(multi, event.symbol)
                 a == multi'.books[event.symbol]
      <4>1. SymbolBook(b, event.symbol, delivered)
        BY BookOfOK
      <4>2. number \in Nat
            /\ delivered' = Append(delivered, [sequence |-> number, event |-> event])
        BY <1>0
      <4>3. a \in process_event(b, event, per_symbol_capacity)
        BY <3>2
      <4> HIDE DEF number, a, b
      <4>4. SymbolBook(a, event.symbol, delivered')
        BY <1>0, <4>1, <4>2, <4>3, SymbolBookStep, Zenon
      <4> QED  BY <4>4 DEF a
    <3>4. \A s \in DOMAIN multi'.books : SymbolBook(multi'.books[s], s, delivered')
      BY <1>2, <3>2, <3>3
    <3> QED  BY <2>2, <2>3, <3>1, <3>4
  <2> QED  BY <1>3, <2>4, <2>5
<1>5. CASE ~Running(symbol_counts.decoded)
  <2>1. multi' = multi /\ result' = result /\ symbol_counts' = symbol_counts
    BY <1>5 DEF Turn, ApplySymbols
  <2> QED  BY <1>1, <1>2, <2>1
<1> QED  BY <1>4, <1>5

(* Whatever the feed, every book is well formed, holds only what its own   *)
(* symbol's events brought, never more than its capacity or than were      *)
(* added, and seen_ lists the books, each once.                            *)
THEOREM BooksWellFormed == Spec => []BooksInv
<1>1. ASSUME BooksInv, Silent, UNCHANGED program_vars
      PROVE  BooksInv'
  <2>1. /\ book' = book /\ counts' = counts /\ multi' = multi /\ result' = result
        /\ symbol_counts' = symbol_counts /\ delivered' = delivered
    BY <1>1 DEF program_vars, Silent
  <2> QED  BY <1>1, <2>1 DEF BooksInv
<1>2. ASSUME DeliveredInv, BooksInv, NEW event \in Accepted, Turn(event)
      PROVE  BooksInv'
  BY <1>2, ApplyOK, ApplySymbolsOK DEF BooksInv
<1>3. Inv /\ DeliveredInv /\ BooksInv /\ [Next]_vars => BooksInv'
  BY <1>1, <1>2, ProgramStep
<1> QED  BY <1>3, BooksInit, DeliveredInvariant, PTL DEF Spec

-----------------------------------------------------------------------------
(* The per-symbol mode against the book of record. *)

(* The stream that is read is one of the streams. *)
LEMMA StreamBounded ==
  ASSUME NEW p \in DOMAIN Streams, NEW bytes \in Streams[p]
  PROVE  Longest \in Nat /\ Len(bytes) <= Longest
  BY LongestAssumption

StreamInv == Len(stream) <= Longest

(* The stream is one of those given, and does not change. *)
LEMMA StreamInvariant == Spec => []StreamInv
<1>1. Init => StreamInv
  BY LongestAssumption DEF Init, FrameInit, StreamInv
<1>2. StreamInv /\ [Next]_vars => StreamInv'
  <2>1. [Next]_vars => stream' = stream
    BY DEF Next, FrameNext, Refill, StreamEnds, ReadLength, ReadFrame, vars, frame_vars
  <2> QED  BY <2>1 DEF StreamInv
<1> QED  BY <1>1, <1>2, PTL DEF Spec

(* The symbol's book before and after an event, and the call's result. *)
OwnStep(event, b, a) ==
  /\ b = BookOf(multi, event.symbol)
  /\ a = BookOf(multi', event.symbol)
  /\ a \in process_event(b, event, per_symbol_capacity)
  /\ result' = Outcome(b, event, per_symbol_capacity)
  /\ result # "matching"
  /\ GoodBook(b) /\ order_count(b) <= per_symbol_capacity
  /\ b.next_priority_ < Longest

(* The book of record counts with the same Cardinality. *)
LEMMA SameSize ==
  ASSUME NEW s, NEW S
  PROVE  Record(s)!Cardinality(S) = Cardinality(S)
  BY DEF Record!Cardinality, Cardinality

(* And its level table is the same table. *)
LEMMA SameTable ==
  ASSUME NEW s, NEW used, NEW n
  PROVE  Record(s)!Saturated(used, n) <=> Saturated(used, n)
<1>1. ASSUME NEW v PROVE Record(s)!Doubled(v) = Doubled(v)
  BY DEF Record!Doubled, Doubled
<1>2. ASSUME NEW S PROVE Record(s)!Min(S) = Min(S)
  BY DEF Record!Min, Min
<1>3. ASSUME NEW v PROVE Record(s)!next_power_of_two(v) = next_power_of_two(v)
  BY <1>1, <1>2 DEF Record!next_power_of_two, next_power_of_two
<1> QED
  BY <1>3 DEF Record!Saturated, Saturated, Record!TableSize, TableSize

(* The book of record refuses a level when the symbol's book does, and     *)
(* takes slots for it as the symbol's book does.                           *)
LEMMA RecordedLevels ==
  ASSUME NEW s, NEW c, c.used_slots = BookOf(multi, s).used_slots,
         NEW side, NEW price
  PROVE  /\ Record(s)!LevelRefused(c.resting, side, price)
              <=> LevelRefused(c, side, price, per_symbol_capacity)
         /\ BookOf(multi, s)'.used_slots \in acquire_level(c, side, price)
              => Record(s)!acquire_level(c.resting, side, price)
<1>1. Record(s)!LevelKeys(c.resting) = LevelKeys(c)
  BY DEF Record!LevelKeys, LevelKeys, Ids
<1>2. Record(s)!LevelRefused(c.resting, side, price)
        <=> LevelRefused(c, side, price, per_symbol_capacity)
  BY <1>1, SameTable DEF Record!LevelRefused, LevelRefused
<1>3. ASSUME BookOf(multi, s)'.used_slots \in acquire_level(c, side, price)
      PROVE  Record(s)!acquire_level(c.resting, side, price)
  BY <1>1, <1>3, SameSize DEF Record!acquire_level, acquire_level,
                              Record!UsedAfter, UsedAfter
<1> QED  BY <1>2, <1>3

(* An Add is the book of record's. *)
LEMMA RecordedAdd ==
  ASSUME NEW event \in Accepted, NEW b, NEW a, OwnStep(event, b, a), event.type = "Add"
  PROVE  Record(event.symbol)!Add(event.order_id, event.side, event.price_ticks,
                                  event.quantity)
<1> DEFINE s == event.symbol
           id == event.order_id
           side == event.side
           price == event.price_ticks
           outcome == Outcome(b, event, per_symbol_capacity)
<1>1. Record(s)!Idle /\ BookOf(multi, s).next_priority_ < Longest
  BY DEF Record!Idle, OwnStep
<1>2. Record(s)!RestOutcome(b.resting, id, side, price, event.quantity) = outcome
  <2>1. Record(s)!Full(b.resting) <=> order_count(b) >= per_symbol_capacity
    BY SameSize DEF Record!Full, order_count, Ids
  <2>2. Record(s)!LevelRefused(b.resting, side, price)
          <=> LevelRefused(b, side, price, per_symbol_capacity)
    BY RecordedLevels DEF OwnStep
  <2> QED  BY <2>1, <2>2 DEF Record!RestOutcome, Outcome, Ids
<1>3. outcome # "Applied" => a = b
  BY DEF OwnStep, process_event
<1>4. outcome = "Applied" => a \in Rest(b, id, side, price, event.quantity)
  BY DEF OwnStep, process_event
<1>5. b = BookOf(multi, s) /\ a = BookOf(multi, s)' /\ result' = outcome
  BY DEF OwnStep
<1>6. CASE outcome = "Applied"
  <2>1. PICK used \in acquire_level(b, side, price) :
             a = WithOrder(b, id, side, price, event.quantity, used)
    BY <1>4, <1>6 DEF Rest
  <2>2. a.resting = Record(s)!Insert(b.resting, id,
                      Record(s)!NewOrder(side, price, event.quantity))
    BY <1>5, <2>1 DEF WithOrder, Ids, Record!Insert, Record!NewOrder
  <2>3. a.next_priority_ = b.next_priority_ + 1 /\ a.used_slots = used
    BY <2>1 DEF WithOrder
  <2>4. Record(s)!acquire_level(b.resting, side, price)
    BY <1>5, <2>3, RecordedLevels
  <2> HIDE DEF outcome
  <2> QED
    BY <1>1, <1>2, <1>5, <1>6, <2>2, <2>3, <2>4 DEF Record!Add, Record!rest_order
<1>7. CASE outcome # "Applied"
  <2> HIDE DEF outcome
  <2> QED  BY <1>1, <1>2, <1>3, <1>5, <1>7 DEF Record!Add, Record!rest_order
<1> QED  BY <1>6, <1>7

(* So is a Cancel. *)
LEMMA RecordedCancel ==
  ASSUME NEW event \in Accepted, NEW b, NEW a, OwnStep(event, b, a), event.type = "Cancel"
  PROVE  Record(event.symbol)!Cancel(event.order_id)
<1> DEFINE s == event.symbol
           id == event.order_id
           outcome == Outcome(b, event, per_symbol_capacity)
<1>1. Record(s)!Idle
  BY DEF Record!Idle, OwnStep
<1>2. outcome = IF id \in DOMAIN b.resting THEN "Applied" ELSE "OrderNotFound"
  BY DEF Outcome, Ids
<1>3. outcome # "Applied" => a = b
  BY DEF OwnStep, process_event
<1>4. outcome = "Applied" => a = Drop(b, id)
  BY DEF OwnStep, process_event
<1>5. b = BookOf(multi, s) /\ a = BookOf(multi, s)' /\ result' = outcome
      /\ b = [resting |-> b.resting, next_priority_ |-> b.next_priority_,
              used_slots |-> b.used_slots]
  BY DEF OwnStep, GoodBook
<1>6. CASE outcome = "Applied"
  <2>1. a.resting = Record(s)!Remove(b.resting, id) /\ a.next_priority_ = b.next_priority_
        /\ a.used_slots = b.used_slots
    BY <1>4, <1>5, <1>6 DEF Drop, Record!Remove
  <2> HIDE DEF outcome
  <2> QED  BY <1>1, <1>2, <1>5, <1>6, <2>1 DEF Record!Cancel
<1>7. CASE outcome # "Applied"
  <2> HIDE DEF outcome
  <2> QED  BY <1>1, <1>2, <1>3, <1>5, <1>7 DEF Record!Cancel, Record!Refuse
<1> QED  BY <1>6, <1>7

(* And a Trade or Reduce. *)
LEMMA RecordedTrade ==
  ASSUME NEW event \in Accepted, NEW b, NEW a, OwnStep(event, b, a),
         event.type \in {"Trade", "Reduce"}
  PROVE  Record(event.symbol)!Trade(event.order_id, event.quantity)
<1> DEFINE s == event.symbol
           id == event.order_id
           q == event.quantity
           outcome == Outcome(b, event, per_symbol_capacity)
<1>1. Record(s)!Idle
  BY DEF Record!Idle, OwnStep
<1>2. outcome = IF q = 0 THEN "InvalidQuantity"
                ELSE IF id \notin DOMAIN b.resting THEN "OrderNotFound"
                ELSE IF q > b.resting[id].quantity THEN "InvalidQuantity"
                ELSE "Applied"
  BY DEF Outcome, Ids
<1>3. outcome # "Applied" => a = b
  BY DEF OwnStep, process_event
<1>4. GoodBook(b) /\ a \in process_event(b, event, per_symbol_capacity)
      /\ b = BookOf(multi, s) /\ a = BookOf(multi, s)' /\ result' = outcome
  BY DEF OwnStep
<1>5. b = [resting |-> b.resting, next_priority_ |-> b.next_priority_,
           used_slots |-> b.used_slots]
  BY <1>4 DEF GoodBook
<1>6. CASE outcome = "Applied"
  <2>1. Applying(b, event, a)
    BY <1>4, <1>6, AppliedCases
  <2>2. id \in Ids(b) /\ q \in Nat /\ b.resting[id].quantity \in Nat
    <3>1. id \in Ids(b)
      BY <1>2, <1>6 DEF Ids
    <3> QED  BY <1>4, <3>1, QuantityNat, EventFields DEF HasFields
  <2>3. Reducing(b, event, a) \/ Removing(b, event, a)
    BY <2>1 DEF Applying, Adding, Replacing
  <2> HIDE DEF outcome
  <2>4. CASE Reducing(b, event, a)
    <3>1. q # b.resting[id].quantity /\ a = Less(b, id, q)
      BY <2>2, <2>4 DEF Reducing
    <3>2. a.resting = [b.resting EXCEPT ![id].quantity = @ - q]
          /\ a.next_priority_ = b.next_priority_ /\ a.used_slots = b.used_slots
      BY <1>5, <3>1 DEF Less
    <3> QED  BY <1>1, <1>2, <1>4, <1>6, <2>2, <3>1, <3>2 DEF Record!Trade
  <2>5. CASE Removing(b, event, a)
    <3>1. q = b.resting[id].quantity /\ a = Drop(b, id)
      BY <2>5 DEF Removing
    <3>2. a.resting = Record(s)!Remove(b.resting, id) /\ a.next_priority_ = b.next_priority_
          /\ a.used_slots = b.used_slots
      BY <1>5, <3>1 DEF Drop, Record!Remove
    <3> QED  BY <1>1, <1>2, <1>4, <1>6, <2>2, <3>1, <3>2 DEF Record!Trade
  <2> QED  BY <2>3, <2>4, <2>5
<1>7. CASE outcome # "Applied"
  <2> HIDE DEF outcome
  <2> QED  BY <1>1, <1>2, <1>3, <1>4, <1>7 DEF Record!Trade, Record!Refuse
<1> QED  BY <1>6, <1>7

(* And a Replace: cancelling frees the order slot, so that only the level  *)
(* can be refused, and then the original is gone in both.                  *)
LEMMA RecordedReplace ==
  ASSUME NEW event \in Accepted, NEW b, NEW a, OwnStep(event, b, a),
         event.type = "Replace"
  PROVE  Record(event.symbol)!Replace(event.order_id, event.new_order_id,
                                      event.price_ticks, event.quantity)
<1> DEFINE s == event.symbol
           id == event.order_id
           new == event.new_order_id
           q == event.quantity
           price == event.price_ticks
           side == b.resting[id].side
           c == Drop(b, id)
           rest == Record(s)!Remove(b.resting, id)
           outcome == Outcome(b, event, per_symbol_capacity)
<1>1. Record(s)!Idle /\ BookOf(multi, s).next_priority_ < Longest
  BY DEF Record!Idle, OwnStep
<1>2. outcome = IF q = 0 THEN "InvalidQuantity"
                ELSE IF id \notin DOMAIN b.resting THEN "OrderNotFound"
                ELSE IF new # id /\ new \in DOMAIN b.resting THEN "DuplicateOrderId"
                ELSE IF LevelRefused(c, side, price, per_symbol_capacity)
                  THEN "CapacityExhausted"
                ELSE "Applied"
  BY DEF Outcome, Ids
<1>3. outcome \notin {"Applied", "CapacityExhausted"} => a = b
  BY DEF OwnStep, process_event
<1>4. /\ GoodBook(b) /\ a \in process_event(b, event, per_symbol_capacity)
      /\ b = BookOf(multi, s) /\ a = BookOf(multi, s)' /\ result' = outcome
      /\ order_count(b) <= per_symbol_capacity
  BY DEF OwnStep
<1>5. b = [resting |-> b.resting, next_priority_ |-> b.next_priority_,
           used_slots |-> b.used_slots]
  BY <1>4 DEF GoodBook
<1>6. CASE outcome \in {"Applied", "CapacityExhausted"}
  <2>2. q # 0 /\ id \in Ids(b) /\ ~(new # id /\ new \in DOMAIN b.resting)
    BY <1>2, <1>6 DEF Ids
  <2>3. Dropped(b, id, c)
    BY <1>4, <2>2, DropOK
  <2>4. c.resting = rest /\ c.next_priority_ = b.next_priority_
        /\ c.used_slots = b.used_slots
    BY <1>5 DEF Drop, Record!Remove
  <2>5. new \notin DOMAIN rest
    BY <2>2, <2>3, <2>4 DEF Dropped, Ids
  <2>6. ~Record(s)!Full(rest)
    <3>1. order_count(c) = order_count(b) - 1 /\ order_count(b) \in Nat
          /\ per_symbol_capacity \in Nat
      BY <1>4, <2>3, CountNat, MultiSymbolAssumption DEF Dropped
    <3>2. Record(s)!Full(rest) <=> order_count(c) >= per_symbol_capacity
      BY <2>4, SameSize DEF Record!Full, order_count, Ids
    <3> QED  BY <1>4, <3>1, <3>2
  <2>7. Record(s)!LevelRefused(rest, side, price)
          <=> LevelRefused(c, side, price, per_symbol_capacity)
    BY <1>4, <2>4, RecordedLevels
  <2> HIDE DEF c, rest, outcome, side
  <2>8. Record(s)!RestOutcome(rest, new, side, price, q) = outcome
    BY <1>2, <2>2, <2>5, <2>6, <2>7 DEF Record!RestOutcome, Ids
  <2>9. Record(s)!rest_order(rest, new, side, price, q)
    <3>1. CASE outcome = "Applied"
      <4>1. a \in Rest(c, new, side, price, q)
        BY <1>4, <3>1 DEF process_event, c, side, outcome
      <4>2. PICK used \in acquire_level(c, side, price) :
                 a = WithOrder(c, new, side, price, q, used)
        BY <4>1 DEF Rest
      <4>3. a.resting = Record(s)!Insert(rest, new, Record(s)!NewOrder(side, price, q))
        BY <1>4, <2>4, <4>2 DEF WithOrder, Ids, Record!Insert, Record!NewOrder
      <4>4. a.next_priority_ = b.next_priority_ + 1 /\ a.used_slots = used
        BY <2>4, <4>2 DEF WithOrder
      <4>5. Record(s)!acquire_level(rest, side, price)
        BY <1>4, <2>4, <4>4, RecordedLevels
      <4> QED  BY <1>4, <2>8, <3>1, <4>3, <4>4, <4>5 DEF Record!rest_order
    <3>2. CASE outcome = "CapacityExhausted"
      <4>1. a = c
        BY <1>4, <3>2 DEF process_event, c, outcome
      <4> QED  BY <1>4, <2>4, <2>8, <3>2, <4>1 DEF Record!rest_order
    <3> QED  BY <1>6, <3>1, <3>2
  <2> QED
    BY <1>1, <1>4, <2>2, <2>9 DEF Record!Replace, Ids, rest, side
<1>7. CASE outcome \notin {"Applied", "CapacityExhausted"}
  <2>1. outcome = IF q = 0 THEN "InvalidQuantity"
                  ELSE IF id \notin DOMAIN b.resting THEN "OrderNotFound"
                  ELSE "DuplicateOrderId"
    BY <1>2, <1>7
  <2>2. q = 0 \/ id \notin DOMAIN b.resting \/ (new # id /\ new \in DOMAIN b.resting)
    BY <1>2, <1>7
  <2> HIDE DEF outcome
  <2> QED
    BY <1>1, <1>3, <1>4, <1>7, <2>1, <2>2 DEF Record!Replace, Record!Refuse
<1> QED  BY <1>6, <1>7

(* Every event of a symbol in range is an action of its book of record. *)
LEMMA RecordedStep ==
  ASSUME NEW event \in Accepted, NEW b, NEW a, OwnStep(event, b, a)
  PROVE  Recorded(event)
<1>1. event.type \in {"Add", "Trade", "Reduce", "Cancel", "Replace"}
  BY EventFields DEF HasFields
<1> QED
  BY <1>1, RecordedAdd, RecordedCancel, RecordedTrade, RecordedReplace DEF Recorded

(* A turn of the per-symbol mode. *)
LEMMA OwnBookStep ==
  ASSUME Inv, DeliveredInv, BooksInv, StreamInv, NEW event \in Accepted, Turn(event)
  PROVE  OwnBookOnly
<1>1. event.symbol \in Nat /\ max_symbols \in Nat /\ per_symbol_capacity \in Nat
  BY EventFields, MultiSymbolAssumption DEF HasFields
<1>2. symbol_counts \in Counts /\ result # "matching" /\ Listed(multi)
  BY DEF BooksInv
<1>3. delivered'[Len(delivered')].event = event
  <2> DEFINE d == [sequence |-> sequence_ + 1, event |-> event]
  <2>1. d \in Delivery /\ d.event = event /\ delivered' = Append(delivered, d)
        /\ delivered \in Seq(Delivery)
    BY DEF DeliveredInv, Delivery, Turn, Delivers
  <2> HIDE DEF d
  <2>2. Len(delivered') = Len(delivered) + 1 /\ delivered'[Len(delivered) + 1] = d
    BY <2>1, AppendLast
  <2> QED  BY <2>1, <2>2
<1>4. \A e \in Events : Routes(e) => e = event
  BY <1>3 DEF Routes
<1>5. event \in Events
  BY DEF Accepted
<1>6. CASE Running(symbol_counts.decoded)
  <2>1. /\ multi' \in Route(multi, event) /\ result' = RouteOutcome(multi, event)
        /\ symbol_counts' = Count(symbol_counts, result')
    BY <1>6 DEF Turn, ApplySymbols
  <2>2. Routes(event)
    <3>1. symbol_counts'.decoded = symbol_counts.decoded + 1
          /\ symbol_counts.decoded \in Nat
      BY <1>2, <2>1, CountsStep DEF Counted, Counts
    <3> QED  BY <1>3, <3>1 DEF Routes
  <2>3. CASE event.symbol \notin Symbols
    <3>1. event.symbol >= max_symbols
      BY <1>1, <2>3 DEF Symbols
    <3>2. multi' = multi /\ result' = "CapacityExhausted"
      BY <2>1, <3>1 DEF Route, RouteOutcome
    <3> QED  BY <1>4, <2>3, <3>2 DEF OwnBookOnly
  <2>4. CASE event.symbol \in Symbols
    <3>1. event.symbol < max_symbols
      BY <1>1, <2>4 DEF Symbols
    <3>2. /\ DOMAIN multi'.books = DOMAIN multi.books \cup {event.symbol}
          /\ multi'.books[event.symbol]
               \in process_event(BookOf(multi, event.symbol), event, per_symbol_capacity)
          /\ \A s \in DOMAIN multi.books \ {event.symbol} : multi'.books[s] = multi.books[s]
      BY <1>1, <2>1, <3>1, RouteBooks
    <3>3. \A s : s # event.symbol => BookOf(multi', s) = BookOf(multi, s)
      BY <3>2 DEF BookOf
    <3> DEFINE b == BookOf(multi, event.symbol)
               a == BookOf(multi', event.symbol)
    <3>4. a \in process_event(b, event, per_symbol_capacity)
      BY <3>2 DEF BookOf
    <3>5. result' = Outcome(b, event, per_symbol_capacity)
      BY <1>1, <2>1, <3>1 DEF RouteOutcome, Slot
    <3>6. SymbolBook(b, event.symbol, delivered)
      BY BookOfOK
    <3> HIDE DEF a, b
    <3>7. b.next_priority_ < Longest
      <4>1. b.next_priority_ \in Nat /\ b.next_priority_ <= Len(delivered)
            /\ Len(delivered) < Len(stream) /\ Len(stream) <= Longest
        BY <3>6 DEF SymbolBook, GoodBook, Turn, Delivers, StreamInv
      <4>2. Len(stream) \in Nat /\ Len(delivered) \in Nat /\ Longest \in Nat
        BY LenProperties, LongestAssumption DEF Inv, TypeInv, DeliveredInv
      <4> QED  BY <4>1, <4>2
    <3>8. OwnStep(event, b, a)
      BY <1>2, <3>4, <3>5, <3>6, <3>7 DEF OwnStep, SymbolBook, a, b
    <3>9. Recorded(event)
      BY <3>8, RecordedStep
    <3>10. \A s \in Symbols :
             (\A e \in Events : Routes(e) => e.symbol # s)
               => BookOf(multi, s)' = BookOf(multi, s)
      BY <1>5, <2>2, <3>3
    <3> QED  BY <1>4, <2>4, <3>9, <3>10 DEF OwnBookOnly
  <2> QED  BY <2>3, <2>4
<1>7. CASE ~Running(symbol_counts.decoded)
  <2>1. multi' = multi /\ symbol_counts' = symbol_counts
    BY <1>7 DEF Turn, ApplySymbols
  <2> QED  BY <2>1 DEF OwnBookOnly, Routes
<1> QED  BY <1>6, <1>7

(* Whatever the feed, the number of symbols and the capacity of a book,    *)
(* MultiSymbolBook::process_event does to the event's own book what the    *)
(* book of record does, returns what it returns, and touches no other.     *)
THEOREM SymbolsApart == Spec => SymbolsDoNotInterfere
<1>1. ASSUME UNCHANGED program_vars
      PROVE  OwnBookOnly
  <2>1. multi' = multi /\ symbol_counts' = symbol_counts
    BY <1>1 DEF program_vars
  <2> QED  BY <2>1 DEF OwnBookOnly, Routes
<1>2. Inv /\ DeliveredInv /\ BooksInv /\ StreamInv /\ [Next]_vars => [OwnBookOnly]_vars
  BY <1>1, OwnBookStep, ProgramStep
<1> QED
  BY <1>2, BooksWellFormed, DeliveredInvariant, StreamInvariant, PTL
     DEF Spec, SymbolsDoNotInterfere

-----------------------------------------------------------------------------
(* The two modes of itch_replay. *)

SameOrder(p, q) == p.side = q.side /\ p.price = q.price /\ p.quantity = q.quantity

(* A symbol's book is a part of the single one, in the same order. *)
Matches(o, b) ==
  /\ Ids(o) \subseteq Ids(b)
  /\ \A i \in Ids(o) : SameOrder(o.resting[i], b.resting[i])
  /\ \A i, j \in Ids(o) : o.resting[i].priority < o.resting[j].priority
                            <=> b.resting[i].priority < b.resting[j].priority

(* An order rests in both: it is behind every other in both. *)
LEMMA MatchRested ==
  ASSUME NEW o, NEW b, GoodBook(o), GoodBook(b), Matches(o, b),
         NEW x, x \notin Ids(b), NEW e, NEW f, SameOrder(e, f),
         e.priority = o.next_priority_, f.priority = b.next_priority_,
         NEW p, NEW c, Rested(o, x, e, p), Rested(b, x, f, c)
  PROVE  Matches(p, c)
<1>1. /\ Ids(p) = Ids(o) \cup {x} /\ Ids(c) = Ids(b) \cup {x} /\ Ids(o) \subseteq Ids(b)
      /\ p.resting[x] = e /\ c.resting[x] = f
      /\ \A i \in Ids(o) : p.resting[i] = o.resting[i]
      /\ \A i \in Ids(b) : c.resting[i] = b.resting[i]
      /\ x \notin Ids(o)
  BY DEF Rested, Matches
<1>2. \A i \in Ids(o) : /\ o.resting[i].priority \in Nat /\ b.resting[i].priority \in Nat
                        /\ o.resting[i].priority < o.next_priority_
                        /\ b.resting[i].priority < b.next_priority_
  <2> SUFFICES ASSUME NEW i \in Ids(o)
               PROVE  /\ o.resting[i].priority \in Nat /\ b.resting[i].priority \in Nat
                      /\ o.resting[i].priority < o.next_priority_
                      /\ b.resting[i].priority < b.next_priority_
    OBVIOUS
  <2>1. i \in Ids(b)
    BY <1>1
  <2>2. o.resting[i].priority \in Nat /\ b.resting[i].priority \in Nat
    BY <2>1, QuantityNat
  <2> QED  BY <2>1, <2>2 DEF GoodBook
<1>3. o.next_priority_ \in Nat /\ b.next_priority_ \in Nat
  BY DEF GoodBook
<1>4. \A i \in Ids(p) : SameOrder(p.resting[i], c.resting[i])
  BY <1>1 DEF Matches
<1>5. ASSUME NEW i \in Ids(p), NEW j \in Ids(p)
      PROVE  p.resting[i].priority < p.resting[j].priority
               <=> c.resting[i].priority < c.resting[j].priority
  <2>1. CASE i = x /\ j = x
    BY <1>1, <1>3, <2>1
  <2>2. CASE i = x /\ j # x
    <3>1. j \in Ids(o) /\ j \in Ids(b)
      BY <1>1, <2>2
    <3>2. /\ p.resting[i].priority = o.next_priority_ /\ c.resting[i].priority = b.next_priority_
          /\ p.resting[j].priority = o.resting[j].priority
          /\ c.resting[j].priority = b.resting[j].priority
      BY <1>1, <2>2, <3>1
    <3> QED  BY <1>2, <1>3, <3>1, <3>2
  <2>3. CASE i # x /\ j = x
    <3>1. i \in Ids(o) /\ i \in Ids(b)
      BY <1>1, <2>3
    <3>2. /\ p.resting[j].priority = o.next_priority_ /\ c.resting[j].priority = b.next_priority_
          /\ p.resting[i].priority = o.resting[i].priority
          /\ c.resting[i].priority = b.resting[i].priority
      BY <1>1, <2>3, <3>1
    <3> QED  BY <1>2, <1>3, <3>1, <3>2
  <2>4. CASE i # x /\ j # x
    <3>1. i \in Ids(o) /\ j \in Ids(o) /\ i \in Ids(b) /\ j \in Ids(b)
      BY <1>1, <2>4
    <3> QED  BY <1>1, <3>1 DEF Matches
  <2> QED  BY <2>1, <2>2, <2>3, <2>4
<1> QED  BY <1>1, <1>4, <1>5 DEF Matches

(* An order leaves both. *)
LEMMA MatchDropped ==
  ASSUME NEW o, NEW b, Matches(o, b), NEW x,
         NEW p, NEW c, Dropped(o, x, p), Dropped(b, x, c)
  PROVE  Matches(p, c)
<1>1. /\ Ids(p) = Ids(o) \ {x} /\ Ids(c) = Ids(b) \ {x} /\ Ids(o) \subseteq Ids(b)
      /\ \A i \in Ids(p) : p.resting[i] = o.resting[i]
      /\ \A i \in Ids(c) : c.resting[i] = b.resting[i]
  BY DEF Dropped, Matches
<1>2. \A i \in Ids(p) : i \in Ids(o) /\ i \in Ids(c)
  BY <1>1
<1>3. \A i \in Ids(p) : SameOrder(p.resting[i], c.resting[i])
  BY <1>1, <1>2 DEF Matches
<1>4. \A i, j \in Ids(p) : p.resting[i].priority < p.resting[j].priority
                             <=> c.resting[i].priority < c.resting[j].priority
  BY <1>1, <1>2 DEF Matches
<1> QED  BY <1>2, <1>3, <1>4 DEF Matches

(* An order is reduced in both. *)
LEMMA MatchReduced ==
  ASSUME NEW o, NEW b, Matches(o, b), NEW x \in Ids(o), NEW q,
         NEW p, NEW c, Reduced(o, x, q, p), Reduced(b, x, q, c)
  PROVE  Matches(p, c)
<1>1. Ids(p) = Ids(o) /\ Ids(c) = Ids(b) /\ Ids(o) \subseteq Ids(b)
  BY DEF Reduced, Matches
<1>2. \A i \in Ids(o) : p.resting[i].priority = o.resting[i].priority
                        /\ c.resting[i].priority = b.resting[i].priority
  BY <1>1 DEF Reduced
<1>3. ASSUME NEW i \in Ids(p)
      PROVE  SameOrder(p.resting[i], c.resting[i])
  <2>1. CASE i = x
    BY <2>1 DEF Reduced, Matches, SameOrder
  <2>2. CASE i # x
    <3>1. p.resting[i] = o.resting[i] /\ c.resting[i] = b.resting[i] /\ i \in Ids(o)
      BY <1>1, <2>2 DEF Reduced
    <3> QED  BY <3>1 DEF Matches
  <2> QED  BY <2>1, <2>2
<1>4. \A i, j \in Ids(p) : p.resting[i].priority < p.resting[j].priority
                             <=> c.resting[i].priority < c.resting[j].priority
  BY <1>1, <1>2 DEF Matches
<1> QED  BY <1>1, <1>3, <1>4 DEF Matches

(* The single book changes only where a symbol's book has no order. *)
LEMMA MatchKept ==
  ASSUME NEW o, NEW b, NEW c, Matches(o, b),
         \A i \in Ids(o) : i \in Ids(c) /\ c.resting[i] = b.resting[i]
  PROVE  Matches(o, c)
  BY DEF Matches

(* The event finds the same in both: its orders, and room for an order and *)
(* its level.                                                              *)
SameView(o, b, event) ==
  /\ ~Saturated(o.used_slots, per_symbol_capacity)
  /\ ~Saturated(b.used_slots, max_orders)
  /\ \A i \in Used(event) : i \in Ids(o) <=> i \in Ids(b)
  /\ event.type = "Add" => /\ ~(order_count(o) >= per_symbol_capacity)
                           /\ ~(order_count(b) >= max_orders)

(* Two books that hold the same for an event give it one result. *)
LEMMA SameOutcome ==
  ASSUME NEW o, NEW b, GoodBook(o), GoodBook(b), Matches(o, b), NEW event \in Accepted, SameView(o, b, event)
  PROVE  Outcome(o, event, per_symbol_capacity) = Outcome(b, event, max_orders)
<1> DEFINE id == event.order_id
<1>1. event.type \in {"Add", "Trade", "Reduce", "Cancel", "Replace"}
  BY EventFields DEF HasFields
<1>2. id \in Ids(o) <=> id \in Ids(b)
  BY DEF SameView, Used
<1>3. id \in Ids(o) => o.resting[id].quantity = b.resting[id].quantity
  BY DEF Matches, SameOrder
<1>4. CASE event.type = "Add"
  BY <1>2, <1>4 DEF Outcome, SameView, LevelRefused
<1>5. CASE event.type = "Replace"
  <2>1. event.new_order_id \in Ids(o) <=> event.new_order_id \in Ids(b)
    BY <1>5 DEF SameView, Used
  <2>2. /\ id \in Ids(o) => Drop(o, id).used_slots = o.used_slots
        /\ id \in Ids(b) => Drop(b, id).used_slots = b.used_slots
    BY DropOK DEF Dropped
  <2>3. /\ id \in Ids(o) => \A side, price :
                           ~LevelRefused(Drop(o, id), side, price, per_symbol_capacity)
        /\ id \in Ids(b) => \A side, price :
                           ~LevelRefused(Drop(b, id), side, price, max_orders)
    BY <2>2 DEF LevelRefused, SameView
  <2> QED  BY <1>2, <1>5, <2>1, <2>3 DEF Outcome
<1>6. CASE event.type \in {"Trade", "Reduce", "Cancel"}
  BY <1>2, <1>3, <1>6 DEF Outcome
<1> QED  BY <1>1, <1>4, <1>5, <1>6

(* What an event does to a symbol's book and to the single one. *)
Paired(o, b, event, p, c) ==
  /\ Matches(p, c)
  /\ order_count(c) - order_count(b) = order_count(p) - order_count(o)
  /\ \A i \in Ids(c) : i \in Ids(p) \/ (i \in Ids(b) /\ i \notin Ids(o))
  /\ \A i \in Ids(b) : i \notin Used(event) => i \in Ids(c) /\ c.resting[i] = b.resting[i]

(* And they hold the same after it. *)
LEMMA PairStep ==
  ASSUME NEW o, NEW b, GoodBook(o), GoodBook(b), Matches(o, b),
         NEW event \in Accepted, SameView(o, b, event),
         NEW p \in process_event(o, event, per_symbol_capacity),
         NEW c \in process_event(b, event, max_orders)
  PROVE  Paired(o, b, event, p, c)
<1> DEFINE id == event.order_id
           q == event.quantity
           price == event.price_ticks
<1>1. Outcome(o, event, per_symbol_capacity) = Outcome(b, event, max_orders)
  BY SameOutcome
<1>2. HasFields(event) /\ order_count(o) \in Nat /\ order_count(b) \in Nat
  BY EventFields, CountNat
<1>3. CASE Outcome(b, event, max_orders) # "Applied"
  <2>1. p = o /\ c = b
    BY <1>1, <1>3, RefusedCases DEF Refusing, SameView
  <2> QED  BY <1>2, <2>1 DEF Paired
<1>4. CASE Outcome(b, event, max_orders) = "Applied"
  <2>1. Applying(o, event, p) /\ Applying(b, event, c)
    BY <1>1, <1>4, AppliedCases
  <2>2. /\ id \in Ids(o) <=> id \in Ids(b)
        /\ id \in Ids(o) => o.resting[id].quantity = b.resting[id].quantity
                            /\ o.resting[id].side = b.resting[id].side
    BY DEF SameView, Used, Matches, SameOrder
  <2>3. CASE event.type = "Add"
    <3>1. Adding(o, event, p) /\ Adding(b, event, c)
      BY <2>1, <2>3 DEF Applying, Replacing, Reducing, Removing
    <3> DEFINE e == NewEntry(o, event.side, price, q)
               f == NewEntry(b, event.side, price, q)
    <3>2. Rested(o, id, e, p) /\ Rested(b, id, f, c) /\ id \notin Ids(b)
      BY <1>2, <2>3, <3>1, RestOK DEF Adding, HasFields
    <3>3. SameOrder(e, f) /\ e.priority = o.next_priority_ /\ f.priority = b.next_priority_
      BY DEF NewEntry, SameOrder
    <3> HIDE DEF e, f
    <3>4. Matches(p, c)
      BY <3>2, <3>3, MatchRested
    <3> QED  BY <1>2, <2>3, <3>2, <3>4 DEF Paired, Rested, Used
  <2>4. CASE event.type = "Replace"
    <3>1. Replacing(o, event, p) /\ Replacing(b, event, c)
      BY <2>1, <2>4 DEF Applying, Adding, Reducing, Removing
    <3> DEFINE new == event.new_order_id
               o1 == Drop(o, id)
               b1 == Drop(b, id)
               e == NewEntry(o1, o.resting[id].side, price, q)
               f == NewEntry(b1, b.resting[id].side, price, q)
    <3>2. Dropped(o, id, o1) /\ Dropped(b, id, b1) /\ id \in Ids(o) /\ id \in Ids(b)
      BY <3>1, DropOK DEF Replacing
    <3>3. /\ p \in Rest(o1, new, o.resting[id].side, price, q)
          /\ c \in Rest(b1, new, b.resting[id].side, price, q)
          /\ new \notin Ids(o) \ {id} /\ new \notin Ids(b) \ {id}
      BY <3>1 DEF Replacing
    <3>4. SameOrder(e, f) /\ e.priority = o1.next_priority_ /\ f.priority = b1.next_priority_
      BY <2>2, <3>2 DEF NewEntry, SameOrder
    <3>5. o.resting[id].side \in {"Buy", "Sell"} /\ b.resting[id].side \in {"Buy", "Sell"}
      BY <3>2, QuantityNat
    <3> HIDE DEF o1, b1
    <3>6. /\ GoodBook(o1) /\ GoodBook(b1)
          /\ new \notin Ids(o1) /\ new \notin Ids(b1)
      BY <3>2, <3>3 DEF Dropped
    <3>7. Rested(o1, new, e, p) /\ Rested(b1, new, f, c)
      BY <1>2, <3>3, <3>5, <3>6, RestOK DEF HasFields
    <3> HIDE DEF e, f
    <3>8. Matches(o1, b1)
      BY <3>2, MatchDropped
    <3>9. Matches(p, c)
      BY <3>4, <3>6, <3>7, <3>8, MatchRested
    <3>10. order_count(c) - order_count(b) = order_count(p) - order_count(o)
      BY <1>2, <3>2, <3>7 DEF Rested, Dropped
    <3>11. \A i \in Ids(c) : i \in Ids(p) \/ (i \in Ids(b) /\ i \notin Ids(o))
      BY <3>2, <3>7 DEF Rested, Dropped
    <3>12. \A i \in Ids(b) : i \notin Used(event) => i \in Ids(c) /\ c.resting[i] = b.resting[i]
      BY <2>4, <3>2, <3>7 DEF Rested, Dropped, Used
    <3> QED  BY <3>9, <3>10, <3>11, <3>12 DEF Paired
  <2>5. CASE /\ event.type \in {"Trade", "Reduce"}
             /\ q < o.resting[id].quantity /\ id \in Ids(o)
    <3>1. Reducing(o, event, p) /\ Reducing(b, event, c)
      <4>1. o.resting[id].quantity \in Nat /\ q \in Nat
        BY <1>2, <2>5, QuantityNat DEF HasFields
      <4> QED  BY <2>1, <2>2, <2>5, <4>1 DEF Applying, Adding, Replacing, Removing
    <3>2. Reduced(o, id, q, p) /\ Reduced(b, id, q, c) /\ id \in Ids(b)
      <4>1. /\ q \in Nat /\ q <= o.resting[id].quantity /\ q <= b.resting[id].quantity
            /\ id \in Ids(b)
        BY <1>2, <2>2, <2>5, QuantityNat DEF HasFields
      <4> QED  BY <2>5, <3>1, <4>1, ReduceOK DEF Reducing
    <3>3. Matches(p, c)
      BY <2>5, <3>2, MatchReduced
    <3>4. order_count(c) = order_count(b) /\ order_count(p) = order_count(o)
      BY <3>2 DEF Reduced, order_count
    <3> QED  BY <1>2, <2>5, <3>2, <3>3, <3>4 DEF Paired, Reduced, Used
  <2>6. CASE /\ event.type \in {"Trade", "Reduce", "Cancel"}
             /\ ~(event.type # "Cancel" /\ q < o.resting[id].quantity /\ id \in Ids(o))
    <3>1. Removing(o, event, p) /\ Removing(b, event, c)
      BY <2>1, <2>2, <2>6 DEF Applying, Adding, Replacing, Reducing
    <3>2. Dropped(o, id, p) /\ Dropped(b, id, c)
      BY <3>1, DropOK DEF Removing
    <3>3. Matches(p, c)
      BY <3>2, MatchDropped
    <3> QED  BY <1>2, <2>6, <3>1, <3>2, <3>3 DEF Paired, Dropped, Used, Removing
  <2> QED  BY <1>2, <2>3, <2>4, <2>5, <2>6 DEF HasFields
<1> QED  BY <1>3, <1>4

(* A sum in which one item changes. *)
LEMMA OneItem ==
  ASSUME NEW S, IsFiniteSet(S), NEW f, NEW g, NEW k, k \in S,
         \A i \in S : f[i] \in Int /\ g[i] \in Int,
         \A i \in S \ {k} : f[i] = g[i]
  PROVE  SumFunctionOnSet(g, S) = SumFunctionOnSet(f, S) - f[k] + g[k]
  BY SumChange

(* total_orders() moves with the one book that does. *)
LEMMA TotalStep ==
  ASSUME NEW m, Listed(m), NEW event, event.symbol \in Nat, event.symbol < max_symbols,
         \A s \in DOMAIN m.books : order_count(m.books[s]) \in Nat,
         NEW r \in Route(m, event), order_count(r.books[event.symbol]) \in Nat
  PROVE  /\ total_orders(m) \in Int
         /\ total_orders(r) = total_orders(m) - order_count(BookOf(m, event.symbol))
                                + order_count(r.books[event.symbol])
<1> DEFINE s == event.symbol
           n == Len(m.seen_)
           f == [i \in DOMAIN m.seen_ |-> order_count(m.books[m.seen_[i]])]
           g == [i \in DOMAIN r.seen_ |-> order_count(r.books[r.seen_[i]])]
<1>1. /\ DOMAIN r.books = DOMAIN m.books \cup {s}
      /\ \A t \in DOMAIN m.books \ {s} : r.books[t] = m.books[t]
      /\ r.seen_ = IF s \in DOMAIN m.books THEN m.seen_ ELSE Append(m.seen_, s)
  BY RouteBooks
<1>2. /\ m.seen_ \in Seq(DOMAIN m.books) /\ n \in Nat /\ DOMAIN m.seen_ = 1 .. n
      /\ \A i \in 1 .. n : m.seen_[i] \in DOMAIN m.books
  <2>1. m.seen_ \in Seq(DOMAIN m.books)
    BY DEF Listed
  <2> QED  BY <2>1, ElementOfSeq, LenProperties
<1>3. total_orders(m) = SumFunctionOnSet(f, 1 .. n)
  BY <1>2 DEF total_orders, SumFunction
<1>4. \A i \in 1 .. n : f[i] \in Int /\ f[i] = order_count(m.books[m.seen_[i]])
  BY <1>2
<1>5. IsFiniteSet(1 .. n)
  BY <1>2, PositionsFinite
<1>6. total_orders(m) \in Int
  BY <1>3, <1>4, <1>5, SumInt
<1>7. total_orders(r) = SumFunctionOnSet(g, DOMAIN r.seen_)
  BY DEF total_orders, SumFunction
<1>8. \A i \in DOMAIN r.seen_ : g[i] = order_count(r.books[r.seen_[i]])
  OBVIOUS
<1>c. order_count(r.books[s]) \in Nat
  OBVIOUS
<1> SUFFICES total_orders(r) = total_orders(m) - order_count(BookOf(m, s))
                                 + order_count(r.books[s])
  BY <1>6
<1> HIDE DEF f, g, n
<1>9. CASE s \in DOMAIN m.books
  <2>1. r.seen_ = m.seen_ /\ DOMAIN r.seen_ = 1 .. n
    BY <1>1, <1>2, <1>9
  <2>2. PICK k : k \in 1 .. n /\ m.seen_[k] = s
    BY <1>9 DEF Listed, n
  <2>3. ASSUME NEW i \in 1 .. n, i # k
        PROVE  g[i] = f[i]
    <3>1. m.seen_[i] # s
      BY <2>2, <2>3 DEF Listed, n
    <3>2. m.seen_[i] \in DOMAIN m.books \ {s}
      BY <1>2, <3>1
    <3>3. r.books[m.seen_[i]] = m.books[m.seen_[i]]
      BY <1>1, <3>2
    <3>4. g[i] = order_count(r.books[m.seen_[i]])
      BY <1>8, <2>1
    <3> QED  BY <1>4, <3>3, <3>4
  <2>4. g[k] = order_count(r.books[s]) /\ f[k] = order_count(m.books[s])
        /\ g[k] \in Int /\ f[k] \in Int
    BY <1>4, <1>8, <1>c, <2>1, <2>2
  <2>5. \A i \in 1 .. n : f[i] \in Int /\ g[i] \in Int
    BY <1>4, <2>3, <2>4
  <2>6. \A i \in (1 .. n) \ {k} : f[i] = g[i]
    BY <2>3
  <2>7. SumFunctionOnSet(g, 1 .. n) = SumFunctionOnSet(f, 1 .. n) - f[k] + g[k]
    <3> DEFINE S == 1 .. n
    <3>1. IsFiniteSet(S) /\ k \in S
      BY <1>5, <2>2
    <3>2. \A i \in S : f[i] \in Int /\ g[i] \in Int
      BY <2>5
    <3>3. \A i \in S \ {k} : f[i] = g[i]
      BY <2>6
    <3> HIDE DEF S
    <3>4. SumFunctionOnSet(g, S) = SumFunctionOnSet(f, S) - f[k] + g[k]
      BY ONLY <3>1, <3>2, <3>3, OneItem
    <3> QED  BY <3>4 DEF S
  <2>8. BookOf(m, s) = m.books[s]
    BY <1>9 DEF BookOf
  <2> QED  BY <1>3, <1>7, <2>1, <2>4, <2>7, <2>8
<1>10. CASE s \notin DOMAIN m.books
  <2>1. r.seen_ = Append(m.seen_, s) /\ s \in DOMAIN r.books
    BY <1>1, <1>10
  <2>2. m.seen_ \in Seq(DOMAIN r.books)
    BY <1>1, <1>2
  <2> DEFINE R == DOMAIN r.books
             q == m.seen_
             p == r.seen_
  <2>3. q \in Seq(R) /\ s \in R /\ p = Append(q, s)
    BY <2>1, <2>2
  <2> HIDE DEF R, q, p
  <2>4. /\ p \in Seq(R) /\ Len(p) = Len(q) + 1
        /\ \A i \in 1 .. Len(q) : p[i] = q[i]
        /\ p[Len(q) + 1] = s
    BY <2>3, AppendLast
  <2>5. /\ DOMAIN r.seen_ = (1 .. n) \cup {n + 1}
        /\ \A i \in 1 .. n : r.seen_[i] = m.seen_[i]
        /\ r.seen_[n + 1] = s
    <3>1. DOMAIN p = 1 .. Len(p)
      BY <2>4, LenProperties
    <3>2. DOMAIN p = 1 .. n + 1
      BY <2>4, <3>1 DEF n, q
    <3> QED  BY <1>2, <2>4, <3>2 DEF n, p, q
  <2>6. ASSUME NEW i \in 1 .. n
        PROVE  f[i] = g[i]
    <3>1. m.seen_[i] \in DOMAIN m.books \ {s} /\ r.seen_[i] = m.seen_[i]
          /\ i \in DOMAIN r.seen_
      BY <1>2, <1>10, <2>5
    <3> QED  BY <1>1, <1>4, <1>8, <3>1
  <2>7. g[n + 1] = order_count(r.books[s]) /\ n + 1 \notin 1 .. n /\ g[n + 1] \in Int
    BY <1>2, <1>8, <1>c, <2>5
  <2>8. \A i \in (1 .. n) \cup {n + 1} : g[i] \in Int
    BY <1>4, <2>6, <2>7
  <2>9. SumFunctionOnSet(g, (1 .. n) \cup {n + 1}) = g[n + 1] + SumFunctionOnSet(g, 1 .. n)
    BY <1>5, <2>7, <2>8, SumAdd
  <2>10. SumFunctionOnSet(f, 1 .. n) = SumFunctionOnSet(g, 1 .. n)
    BY <1>5, <2>6, SumCong
  <2>11. order_count(BookOf(m, s)) = 0
    BY <1>10, EmptyOK DEF BookOf
  <2> QED  BY <1>3, <1>6, <1>7, <1>c, <2>5, <2>7, <2>9, <2>10, <2>11
<1> QED  BY <1>9, <1>10

(* A feed without the cases in which the modes may differ. *)
PlainFeed(D) ==
  /\ \A s, t, id : NamedFor(D, s, id) /\ NamedFor(D, t, id) => s = t
  /\ \A i \in DOMAIN D : D[i].event.symbol \in Symbols
  /\ \A s \in Symbols : Cardinality(AddsFor(D, s)) <= per_symbol_capacity
  /\ Cardinality(AddsIn(D)) <= max_orders

(* Plain, said of the feed. *)
LEMMA PlainMeans == Plain => PlainFeed(delivered)
<1> SUFFICES ASSUME Plain PROVE PlainFeed(delivered)
  OBVIOUS
<1>1. ASSUME NEW s, NEW t, NEW id, NamedFor(delivered, s, id), NamedFor(delivered, t, id),
             s # t
      PROVE  FALSE
  <2>1. PICK i \in DOMAIN delivered : /\ delivered[i].event.symbol = s
                                      /\ id \in Used(delivered[i].event)
    BY <1>1 DEF NamedFor
  <2>2. PICK j \in DOMAIN delivered : /\ delivered[j].event.symbol = t
                                      /\ id \in Used(delivered[j].event)
    BY <1>1 DEF NamedFor
  <2>3. Used(delivered[i].event) \cap Used(delivered[j].event) = {}
    BY <1>1, <2>1, <2>2 DEF Plain, Used
  <2> QED  BY <2>1, <2>2, <2>3
<1>2. \A i \in DOMAIN delivered : delivered[i].event.symbol \in Symbols
  BY DEF Plain
<1>3. ASSUME NEW s \in Symbols
      PROVE  Cardinality(AddsFor(delivered, s)) <= per_symbol_capacity
  <2>1. AddsFor(delivered, s)
          = {i \in DOMAIN delivered : /\ delivered[i].event.type = "Add"
                                      /\ delivered[i].event.symbol = s}
    BY DEF AddsFor
  <2> QED  BY <2>1 DEF Plain, Adds
<1>4. Cardinality(AddsIn(delivered)) <= max_orders
  <2>1. AddsIn(delivered) = {i \in DOMAIN delivered : delivered[i].event.type = "Add" /\ TRUE}
    BY DEF AddsIn
  <2> QED  BY <2>1 DEF Plain, Adds
<1> QED  BY <1>1, <1>2, <1>3, <1>4 DEF PlainFeed

(* A feed that is plain was plain before its last event. *)
LEMMA PlainBefore ==
  ASSUME NEW D \in Seq(Delivery), NEW event \in Accepted, NEW number \in Nat
  PROVE  PlainFeed(Append(D, [sequence |-> number, event |-> event]))
           => PlainFeed(D) /\ event.symbol \in Symbols
<1> SUFFICES ASSUME NEW after,
                    after = Append(D, [sequence |-> number, event |-> event]),
                    PlainFeed(after)
             PROVE  PlainFeed(D) /\ event.symbol \in Symbols
  OBVIOUS
<1>1. Grown(D, event, after)
  BY GrowLemma
<1> DEFINE d == [sequence |-> number, event |-> event]
           n == Len(D)
<1>2. d \in Delivery /\ d.event = event
  BY DEF Delivery
<1>3. after = Append(D, d)
  OBVIOUS
<1> HIDE DEF d
<1>4. /\ n \in Nat /\ DOMAIN D = 1 .. n /\ DOMAIN after = 1 .. n + 1
      /\ \A i \in 1 .. n : after[i] = D[i]
      /\ after[n + 1] = d
  <2>1. /\ after \in Seq(Delivery) /\ Len(D) \in Nat /\ Len(after) = Len(D) + 1
        /\ \A i \in 1 .. Len(D) : after[i] = D[i]
        /\ after[Len(D) + 1] = d
    BY <1>2, <1>3, AppendLast
  <2>2. DOMAIN D = 1 .. Len(D) /\ DOMAIN after = 1 .. Len(after)
    BY <2>1, LenProperties
  <2> QED  BY <2>1, <2>2
<1> HIDE DEF n
<1>5. event.symbol \in Symbols
  <2>1. n + 1 \in DOMAIN after
    BY <1>4
  <2> QED  BY <1>2, <1>4, <2>1 DEF PlainFeed
<1>6. \A i \in DOMAIN D : D[i].event.symbol \in Symbols
  <2> SUFFICES ASSUME NEW i \in DOMAIN D PROVE D[i].event.symbol \in Symbols
    OBVIOUS
  <2>1. i \in DOMAIN after /\ after[i] = D[i]
    BY <1>4
  <2> QED  BY <2>1 DEF PlainFeed
<1>7. \A s, t, id : NamedFor(D, s, id) /\ NamedFor(D, t, id) => s = t
  BY <1>1 DEF Grown, PlainFeed
<1>8. ASSUME NEW s \in Symbols
      PROVE  Cardinality(AddsFor(D, s)) <= per_symbol_capacity
  <2>1. /\ Cardinality(AddsFor(D, s)) \in Nat
        /\ Cardinality(AddsFor(after, s)) \in Nat
        /\ Cardinality(AddsFor(D, s)) <= Cardinality(AddsFor(after, s))
    BY <1>1 DEF Grown, One
  <2>2. Cardinality(AddsFor(after, s)) <= per_symbol_capacity
    BY DEF PlainFeed
  <2> QED  BY <2>1, <2>2, MultiSymbolAssumption
<1>9. Cardinality(AddsIn(D)) <= max_orders
  <2>1. /\ Cardinality(AddsIn(D)) \in Nat
        /\ Cardinality(AddsIn(after)) \in Nat
        /\ Cardinality(AddsIn(D)) <= Cardinality(AddsIn(after))
    BY <1>1 DEF Grown, One
  <2>2. Cardinality(AddsIn(after)) <= max_orders
    BY DEF PlainFeed
  <2> QED  BY <2>1, <2>2, ReplayAssumption
<1> QED  BY <1>5, <1>6, <1>7, <1>8, <1>9 DEF PlainFeed

(* The same of the event the connector returns. *)
LEMMA PlainDelivers ==
  ASSUME DeliveredInv, NEW event \in Accepted, Delivers(event), PlainFeed(delivered')
  PROVE  PlainFeed(delivered) /\ event.symbol \in Symbols
<1>1. delivered \in Seq(Delivery) /\ sequence_ + 1 \in Nat
      /\ delivered' = Append(delivered, [sequence |-> sequence_ + 1, event |-> event])
  BY DEF DeliveredInv, Delivers
<1>2. PlainFeed(Append(delivered, [sequence |-> sequence_ + 1, event |-> event]))
  BY <1>1, Zenon
<1> QED  BY <1>1, <1>2, PlainBefore, Zenon

(* What ModesAgree says, with every order of the single book in some       *)
(* symbol's.                                                               *)
Agree ==
  /\ counts.decoded = symbol_counts.decoded /\ counts.applied = symbol_counts.applied
  /\ counts.rejected = symbol_counts.rejected /\ symbol_counts.peak_orders = 0
  /\ \A s \in DOMAIN multi.books : Matches(multi.books[s], book)
  /\ \A i \in Ids(book) : \E s \in DOMAIN multi.books : i \in Ids(multi.books[s])
  /\ total_orders(multi) = order_count(book)

(* No level table is full of used slots. *)
Unsaturated ==
  /\ ~Saturated(book.used_slots, max_orders)
  /\ \A s \in DOMAIN multi.books :
       ~Saturated(multi.books[s].used_slots, per_symbol_capacity)

ModesInv == PlainFeed(delivered) /\ Unsaturated => Agree

(* A level table that is saturated stays so: a turn after which none is    *)
(* found none.                                                             *)
LEMMA UnsaturatedBefore ==
  ASSUME DeliveredInv, BooksInv, NEW event \in Accepted, Turn(event),
         event.symbol \in Symbols, Unsaturated'
  PROVE  /\ Unsaturated
         /\ Running(symbol_counts.decoded) =>
              ~Saturated(BookOf(multi, event.symbol).used_slots, per_symbol_capacity)
<1> DEFINE n == event.symbol
<1>1. /\ max_orders \in Nat /\ per_symbol_capacity \in Nat
      /\ n \in Nat /\ n < max_symbols
  BY MultiSymbolAssumption, ReplayAssumption DEF Symbols
<1>2. ~Saturated(book.used_slots, max_orders)
  <2>1. CASE Running(counts.decoded)
    <3>1. GoodBook(book) /\ book' \in process_event(book, event, max_orders)
      BY <2>1 DEF Turn, Apply, BooksInv
    <3>2. Moved(book, event, book', max_orders)
      BY <1>1, <3>1, BookStep
    <3> QED  BY <3>2 DEF Moved, Unsaturated
  <2>2. CASE ~Running(counts.decoded)
    <3>1. book' = book
      BY <2>2 DEF Turn, Apply
    <3> QED  BY <3>1 DEF Unsaturated
  <2> QED  BY <2>1, <2>2
<1>3. CASE Running(symbol_counts.decoded)
  <2>1. multi' \in Route(multi, event)
    BY <1>3 DEF Turn, ApplySymbols
  <2>2. /\ DOMAIN multi'.books = DOMAIN multi.books \cup {n}
        /\ multi'.books[n] \in process_event(BookOf(multi, n), event, per_symbol_capacity)
        /\ \A s \in DOMAIN multi.books \ {n} : multi'.books[s] = multi.books[s]
    BY <1>1, <2>1, RouteBooks
  <2>3. GoodBook(BookOf(multi, n))
    BY BookOfOK DEF SymbolBook
  <2>4. Moved(BookOf(multi, n), event, multi'.books[n], per_symbol_capacity)
    BY <1>1, <2>2, <2>3, BookStep
  <2>5. ~Saturated(BookOf(multi, n).used_slots, per_symbol_capacity)
    BY <2>2, <2>4 DEF Moved, Unsaturated
  <2>6. ASSUME NEW s \in DOMAIN multi.books
        PROVE  ~Saturated(multi.books[s].used_slots, per_symbol_capacity)
    <3>1. CASE s = n
      BY <2>5, <3>1 DEF BookOf
    <3>2. CASE s # n
      BY <2>2, <3>2 DEF Unsaturated
    <3> QED  BY <3>1, <3>2
  <2> QED  BY <1>2, <2>5, <2>6 DEF Unsaturated
<1>4. CASE ~Running(symbol_counts.decoded)
  <2>1. multi' = multi
    BY <1>4 DEF Turn, ApplySymbols
  <2> QED  BY <1>2, <1>4, <2>1 DEF Unsaturated
<1> QED  BY <1>3, <1>4

(* Before the first event both modes have nothing to report. *)
LEMMA ModesInit == Init => ModesInv
<1> SUFFICES ASSUME Init PROVE Agree
  BY DEF ModesInv
<1>1. /\ book = EmptyBook /\ multi = NoBooks
      /\ counts = NoCounts /\ symbol_counts = NoCounts
  BY DEF Init
<1>2. multi.books = <<>> /\ multi.seen_ = <<>>
  BY <1>1 DEF NoBooks
<1>3. DOMAIN multi.books = {} /\ DOMAIN multi.seen_ = {}
  BY <1>2
<1>4. Ids(book) = {} /\ order_count(book) = 0
  BY <1>1, EmptyOK
<1>5. total_orders(multi) = 0
  <2> DEFINE f == [i \in DOMAIN multi.seen_ |-> order_count(multi.books[multi.seen_[i]])]
  <2>1. total_orders(multi) = SumFunctionOnSet(f, DOMAIN f) /\ DOMAIN f = {}
    BY <1>3 DEF total_orders, SumFunction
  <2> HIDE DEF f
  <2> QED  BY <2>1, SumEmpty
<1>6. /\ counts.decoded = symbol_counts.decoded /\ counts.applied = symbol_counts.applied
      /\ counts.rejected = symbol_counts.rejected /\ symbol_counts.peak_orders = 0
  BY <1>1 DEF NoCounts
<1> QED  BY <1>3, <1>4, <1>5, <1>6 DEF Agree

(* The single book knows an order of a plain feed when the symbol's does,  *)
(* and neither has run out of room.                                        *)
LEMMA PlainView ==
  ASSUME DeliveredInv, BooksInv, Agree, NEW event \in Accepted,
         Delivers(event), PlainFeed(delivered'), Unsaturated,
         ~Saturated(BookOf(multi, event.symbol).used_slots, per_symbol_capacity)
  PROVE  SameView(BookOf(multi, event.symbol), book, event)
<1> DEFINE s == event.symbol
           o == BookOf(multi, s)
<1>1. Grown(delivered, event, delivered')
  <2>1. sequence_ + 1 \in Nat /\ delivered \in Seq(Delivery)
    BY DEF DeliveredInv
  <2> QED  BY <2>1, GrowLemma DEF Delivers
<1>2. SymbolBook(o, s, delivered) /\ GoodBook(book)
  BY BookOfOK DEF BooksInv
<1>3. ASSUME NEW i \in Used(event), i \in Ids(o)
      PROVE  i \in Ids(book)
  <2>1. s \in DOMAIN multi.books
    BY <1>3, EmptyOK DEF BookOf
  <2> QED  BY <1>3, <2>1 DEF Agree, Matches, BookOf
<1>4. ASSUME NEW i \in Used(event), i \in Ids(book)
      PROVE  i \in Ids(o)
  <2>1. PICK t \in DOMAIN multi.books : i \in Ids(multi.books[t])
    BY <1>4 DEF Agree
  <2>2. NamedFor(delivered, t, i)
    BY <2>1 DEF BooksInv, SymbolBook
  <2>3. NamedFor(delivered', t, i) /\ NamedFor(delivered', s, i)
    BY <1>1, <1>4, <2>2 DEF Grown
  <2>4. t = s
    BY <2>3 DEF PlainFeed
  <2> QED  BY <2>1, <2>4 DEF BookOf
<1>5. ASSUME event.type = "Add"
      PROVE  ~(order_count(o) >= per_symbol_capacity) /\ ~(order_count(book) >= max_orders)
  <2>1. /\ Cardinality(AddsFor(delivered', s)) = Cardinality(AddsFor(delivered, s)) + 1
        /\ Cardinality(AddsFor(delivered, s)) \in Nat
        /\ Cardinality(AddsIn(delivered')) = Cardinality(AddsIn(delivered)) + 1
        /\ Cardinality(AddsIn(delivered)) \in Nat
    BY <1>1, <1>5 DEF Grown, One
  <2>2. event.symbol \in Symbols
    BY PlainDelivers
  <2>3. /\ Cardinality(AddsFor(delivered', s)) <= per_symbol_capacity
        /\ Cardinality(AddsIn(delivered')) <= max_orders
    BY <2>2 DEF PlainFeed
  <2>4. /\ order_count(o) <= Cardinality(AddsFor(delivered, s)) /\ order_count(o) \in Nat
        /\ order_count(book) <= Cardinality(AddsIn(delivered)) /\ order_count(book) \in Nat
    BY <1>2, CountNat DEF SymbolBook, BooksInv
  <2>5. per_symbol_capacity \in Nat /\ max_orders \in Nat
    BY MultiSymbolAssumption, ReplayAssumption
  <2> HIDE DEF o
  <2> QED  BY <2>1, <2>3, <2>4, <2>5
<1> QED  BY <1>3, <1>4, <1>5 DEF SameView, Unsaturated

(* Both modes take the event. *)
LEMMA AgreeStep ==
  ASSUME DeliveredInv, BooksInv, Agree, NEW event \in Accepted, Turn(event),
         PlainFeed(delivered'), Unsaturated', Running(counts.decoded)
  PROVE  Agree'
<1> DEFINE s == event.symbol
           o == BookOf(multi, s)
           p == multi'.books[s]
           outcome == Outcome(book, event, max_orders)
<1>1. Running(symbol_counts.decoded)
  BY DEF Agree
<1>2. /\ book' \in process_event(book, event, max_orders)
      /\ counts' = [Count(counts, outcome)
                      EXCEPT !.peak_orders = Max({@, order_count(book')})]
  BY DEF Turn, Apply
<1>3. /\ multi' \in Route(multi, event) /\ result' = RouteOutcome(multi, event)
      /\ symbol_counts' = Count(symbol_counts, result')
  BY <1>1 DEF Turn, ApplySymbols
<1>4. /\ s \in Symbols /\ s \in Nat /\ s < max_symbols /\ max_symbols \in Nat
  <2>1. s \in Symbols
    <3>1. Delivers(event)
      BY DEF Turn
    <3> QED  BY <3>1, PlainDelivers
  <2> QED  BY <2>1, MultiSymbolAssumption DEF Symbols
<1>5. SymbolBook(o, s, delivered) /\ GoodBook(o) /\ GoodBook(book)
      /\ counts \in Counts /\ symbol_counts \in Counts /\ Listed(multi)
  BY BookOfOK DEF BooksInv, SymbolBook
<1>6. Matches(o, book)
  BY EmptyOK DEF Agree, BookOf, Matches
<1>7. SameView(o, book, event)
  BY <1>1, <1>4, UnsaturatedBefore, PlainView DEF Turn
<1>9. result' = outcome
  <2>1. result' = Outcome(o, event, per_symbol_capacity)
    BY <1>3, <1>4 DEF RouteOutcome, Slot
  <2> QED  BY <1>5, <1>6, <1>7, <2>1, SameOutcome
<1>10. /\ DOMAIN multi'.books = DOMAIN multi.books \cup {s}
       /\ p \in process_event(o, event, per_symbol_capacity)
       /\ \A t \in DOMAIN multi.books \ {s} : multi'.books[t] = multi.books[t]
  BY <1>3, <1>4, RouteBooks
<1>8. Paired(o, book, event, p, book')
  BY <1>2, <1>5, <1>6, <1>7, <1>10, PairStep
<1>11. Grown(delivered, event, delivered')
  <2>1. sequence_ + 1 \in Nat /\ delivered \in Seq(Delivery)
    BY DEF DeliveredInv
  <2> QED  BY <2>1, GrowLemma DEF Turn, Delivers
<1>12. /\ counts'.decoded = symbol_counts'.decoded
       /\ counts'.applied = symbol_counts'.applied
       /\ counts'.rejected = symbol_counts'.rejected /\ symbol_counts'.peak_orders = 0
  <2> DEFINE peak == Max({Count(counts, outcome).peak_orders, order_count(book')})
  <2>1. counts' = Counted(counts, outcome, peak)
    <3>1. counts' = [Count(counts, outcome) EXCEPT !.peak_orders = peak]
      BY <1>2
    <3> HIDE DEF peak
    <3> QED  BY <1>5, <3>1, CountsStep
  <2>2. symbol_counts' = Counted(symbol_counts, outcome, symbol_counts.peak_orders)
    BY <1>3, <1>5, <1>9, CountsStep
  <2> HIDE DEF peak, outcome
  <2> QED  BY <2>1, <2>2 DEF Counted, Agree
<1> HIDE DEF outcome
<1>13. ASSUME NEW t \in DOMAIN multi'.books
       PROVE  Matches(multi'.books[t], book')
  <2>1. CASE t = s
    BY <1>8, <1>10, <2>1 DEF Paired
  <2>2. CASE t # s
    <3>1. t \in DOMAIN multi.books /\ multi'.books[t] = multi.books[t]
      BY <1>10, <2>2
    <3>2. Matches(multi.books[t], book)
      BY <3>1 DEF Agree
    <3>3. \A i \in Ids(multi.books[t]) : i \in Ids(book') /\ book'.resting[i] = book.resting[i]
      <4> SUFFICES ASSUME NEW i \in Ids(multi.books[t])
                   PROVE  i \in Ids(book') /\ book'.resting[i] = book.resting[i]
        OBVIOUS
      <4>1. NamedFor(delivered', t, i)
        BY <1>11, <3>1 DEF Grown, BooksInv, SymbolBook
      <4>2. i \notin Used(event)
        BY <1>11, <2>2, <4>1 DEF Grown, PlainFeed
      <4>3. i \in Ids(book)
        BY <3>2 DEF Matches
      <4> QED  BY <1>8, <4>2, <4>3 DEF Paired
    <3> QED  BY <3>1, <3>2, <3>3, MatchKept
  <2> QED  BY <2>1, <2>2
<1>14. ASSUME NEW i \in Ids(book')
       PROVE  \E t \in DOMAIN multi'.books : i \in Ids(multi'.books[t])
  <2>1. CASE i \in Ids(p)
    BY <1>10, <2>1
  <2>2. CASE i \notin Ids(p)
    <3>1. i \in Ids(book) /\ i \notin Ids(o)
      BY <1>8, <2>2 DEF Paired
    <3>2. PICK t \in DOMAIN multi.books : i \in Ids(multi.books[t])
      BY <3>1 DEF Agree
    <3>3. t # s
      BY <3>1, <3>2 DEF BookOf
    <3> QED  BY <1>10, <3>2, <3>3
  <2> QED  BY <2>1, <2>2
<1>15. total_orders(multi') = order_count(book')
  <2>1. \A t \in DOMAIN multi.books : order_count(multi.books[t]) \in Nat
    BY CountNat DEF BooksInv, SymbolBook
  <2>2. GoodBook(p) /\ GoodBook(book')
    <3>1. per_symbol_capacity \in Nat /\ max_orders \in Nat
      BY MultiSymbolAssumption, ReplayAssumption
    <3> QED  BY <1>2, <1>5, <1>10, <3>1, BookStep DEF Moved
  <2>3. order_count(p) \in Nat /\ order_count(book') \in Nat /\ order_count(o) \in Nat
        /\ order_count(book) \in Nat
    BY <1>5, <2>2, CountNat
  <2>6. total_orders(multi') = total_orders(multi) - order_count(o) + order_count(p)
    BY <1>3, <1>4, <1>5, <2>1, <2>3, TotalStep
  <2> HIDE DEF o, p
  <2>7. total_orders(multi) = order_count(book)
    BY DEF Agree
  <2>8. order_count(book') - order_count(book) = order_count(p) - order_count(o)
    BY <1>8 DEF Paired
  <2> QED  BY <2>3, <2>6, <2>7, <2>8
<1> QED  BY <1>12, <1>13, <1>14, <1>15 DEF Agree

(* ModesAgree, from Agree. *)
LEMMA AgreeMeans ==
  ASSUME BooksInv, Agree
  PROVE  /\ [counts EXCEPT !.peak_orders = 0] = symbol_counts
         /\ total_orders(multi) = order_count(book)
         /\ \A s \in DOMAIN multi.books :
              LET own == multi.books[s].resting IN
              \A i, j \in DOMAIN own :
                /\ i \in Ids(book)
                /\ [own[i] EXCEPT !.priority = 0] = [book.resting[i] EXCEPT !.priority = 0]
                /\ own[i].priority < own[j].priority
                     <=> book.resting[i].priority < book.resting[j].priority
<1>1. [counts EXCEPT !.peak_orders = 0] = symbol_counts
  <2>1. /\ counts \in Counts /\ symbol_counts \in Counts
    BY DEF BooksInv
  <2> QED  BY <2>1 DEF Agree, Counts
<1>2. ASSUME NEW s \in DOMAIN multi.books, NEW i \in Ids(multi.books[s])
      PROVE  /\ i \in Ids(book)
             /\ [multi.books[s].resting[i] EXCEPT !.priority = 0]
                  = [book.resting[i] EXCEPT !.priority = 0]
  <2> DEFINE e == multi.books[s].resting[i]
             f == book.resting[i]
  <2>1. i \in Ids(book) /\ SameOrder(e, f)
    BY DEF Agree, Matches
  <2>2. e \in Entry /\ f \in Entry
    BY <2>1, QuantityNat DEF BooksInv, SymbolBook
  <2> HIDE DEF e, f
  <2>3. [e EXCEPT !.priority = 0] = [f EXCEPT !.priority = 0]
    BY <2>1, <2>2 DEF Entry, SameOrder
  <2> QED  BY <2>1, <2>3 DEF e, f
<1>3. \A s \in DOMAIN multi.books :
        \A i, j \in Ids(multi.books[s]) :
          multi.books[s].resting[i].priority < multi.books[s].resting[j].priority
            <=> book.resting[i].priority < book.resting[j].priority
  BY DEF Agree, Matches
<1>4. total_orders(multi) = order_count(book)
  BY DEF Agree
<1> QED  BY <1>1, <1>2, <1>3, <1>4 DEF Ids

(* itch_replay reports the same with and without --per-symbol, whatever    *)
(* the number of symbols and orders, as long as the feed keeps to what     *)
(* Plain says: no id for two symbols, no symbol out of range, no book that *)
(* fills up and no level table each of whose slots has been used.          *)
THEOREM ModesReportTheSame == Spec => []ModesAgree
<1>1. ASSUME ModesInv, Silent, UNCHANGED program_vars
      PROVE  ModesInv'
  <2>1. /\ book' = book /\ counts' = counts /\ multi' = multi
        /\ symbol_counts' = symbol_counts /\ delivered' = delivered
    BY <1>1 DEF program_vars, Silent
  <2> QED  BY <1>1, <2>1 DEF ModesInv, Agree, Unsaturated
<1>2. ASSUME DeliveredInv, BooksInv, ModesInv, NEW event \in Accepted, Turn(event)
      PROVE  ModesInv'
  <2> SUFFICES ASSUME PlainFeed(delivered'), Unsaturated' PROVE Agree'
    BY DEF ModesInv
  <2>1. PlainFeed(delivered) /\ Unsaturated
    <3>1. Delivers(event)
      BY <1>2 DEF Turn
    <3>2. PlainFeed(delivered) /\ event.symbol \in Symbols
      BY <1>2, <3>1, PlainDelivers
    <3> QED  BY <1>2, <3>2, UnsaturatedBefore
  <2>2. Agree
    BY <1>2, <2>1 DEF ModesInv
  <2>3. CASE Running(counts.decoded)
    BY <1>2, <2>2, <2>3, AgreeStep
  <2>4. CASE ~Running(counts.decoded)
    <3>1. book' = book /\ counts' = counts
      BY <1>2, <2>4 DEF Turn, Apply
    <3>2. ~Running(symbol_counts.decoded)
      BY <2>2, <2>4 DEF Agree
    <3>3. multi' = multi /\ symbol_counts' = symbol_counts
      BY <1>2, <3>2 DEF Turn, ApplySymbols
    <3> QED  BY <2>2, <3>1, <3>3 DEF Agree
  <2> QED  BY <2>3, <2>4
<1>3. Inv /\ DeliveredInv /\ BooksInv /\ ModesInv /\ [Next]_vars => ModesInv'
  BY <1>1, <1>2, ProgramStep
<1>4. Plain => Unsaturated
  BY DEF Plain, Unsaturated
<1>5. BooksInv /\ ModesInv => ModesAgree
  BY <1>4, AgreeMeans, PlainMeans DEF ModesAgree, ModesInv
<1> QED
  BY <1>3, <1>5, ModesInit, BooksWellFormed, DeliveredInvariant, PTL DEF Spec
=============================================================================
