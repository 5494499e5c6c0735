---------------------- MODULE MoldUdp64Connector_proofs ----------------------
(***************************************************************************)
(* Proofs about MoldUdp64Connector, for every stream of the exchange, every *)
(* packet size and every order in which the network delivers.              *)
(*                                                                         *)
(* DecodedInOrder and LossesAreCounted are not inductive: they need to     *)
(* know where the connector stands in its packet.  LoopInv says it: the    *)
(* next message of the live packet is the one at the frontier, or, during  *)
(* a recovery, the one right after the gap.                                *)
(***************************************************************************)
EXTENDS MoldUdp64Connector, SequenceTheorems, TLAPS

LoopInv ==
  /\ offset_ = local_index_
  /\ recover_next_ <= recover_end_
  /\ have_packet_ =>
       /\ packet_ \in Datagram
       /\ packet_.sequence + local_index_ =
            IF recovering_ THEN recover_end_ ELSE Frontier
  /\ recovering_ => /\ have_packet_ /\ local_index_ = 0
                    /\ expected_ <= recover_next_
  /\ ~recovering_ /\ ~ended => recover_next_ <= expected_

(* Until the first packet nothing has happened, and that packet is not     *)
(* left without a message decoded from it.                                 *)
StartInv ==
  /\ initialized_ <=> expected_ > 0
  /\ ~initialized_ => /\ decoded = <<>> /\ ~have_packet_ /\ recover_next_ = 0
                      /\ messages_missed_ = 0 /\ last_sequence_ = 0
  /\ initialized_ /\ decoded = <<>> /\ ~ended =>
       have_packet_ /\ local_index_ = 0 /\ ~recovering_
  /\ initialized_ => last_sequence_ < Frontier

(* A recovery follows a gap. *)
GapInv == recovering_ => gaps_detected_ > 0

Inv == /\ MoldTypeOK /\ LoopInv /\ StartInv /\ GapInv
       /\ DecodedInOrder /\ LossesAreCounted

-----------------------------------------------------------------------------
(* The connector starts with Inv: nothing received, nothing decoded.       *)
LEMMA InvInit == Init => Inv
<1>. SUFFICES ASSUME Init PROVE Inv
  OBVIOUS
<1>. USE StreamAssumption DEF Init
<1>1. Len(Stream) \in Nat
  OBVIOUS
<1>2. packet_ \in Control
  BY DEF Control
<1>3. decoded \in Seq([sequence : Sequence, message : Sequence])
  OBVIOUS
<1>4. MoldTypeOK
  <2>1. /\ retransmit_ \in BOOLEAN /\ initialized_ \in BOOLEAN
        /\ have_packet_ \in BOOLEAN /\ recovering_ \in BOOLEAN
        /\ failed_ \in BOOLEAN /\ end_of_session_ \in BOOLEAN
        /\ ended \in BOOLEAN
    OBVIOUS
  <2>2. /\ offset_ \in 0 .. MaxCount /\ local_index_ \in 0 .. MaxCount
        /\ expected_ \in 0 .. Len(Stream) + 1
        /\ recover_next_ \in 0 .. Len(Stream)
        /\ recover_end_ \in 0 .. Len(Stream)
        /\ last_sequence_ \in 0 .. Len(Stream)
        /\ received \in 0 .. MaxDatagrams
        /\ gaps_detected_ \in Nat /\ messages_missed_ \in Nat
        /\ messages_decoded_ \in Nat
    BY <1>1
  <2>. QED BY <1>2, <1>3, <2>1, <2>2 DEF MoldTypeOK
<1>5. LoopInv /\ StartInv /\ GapInv
  BY DEF LoopInv, StartInv, GapInv
<1>6. DecodedInOrder /\ LossesAreCounted
  BY DEF DecodedInOrder, LossesAreCounted, Frontier
<1>. QED BY <1>4, <1>5, <1>6 DEF Inv

(* The numbers of the decoded messages are numbers. *)
LEMMA DecodedNumbers ==
  ASSUME Inv
  PROVE  \A i \in DOMAIN decoded : decoded[i].sequence \in Nat
<1>1. decoded \in Seq([sequence : Sequence, message : Sequence])
  BY DEF Inv, MoldTypeOK
<1>2. SUFFICES ASSUME NEW i \in DOMAIN decoded
               PROVE  decoded[i].sequence \in Nat
  OBVIOUS
<1>3. i \in 1 .. Len(decoded)
  BY <1>1, <1>2
<1>4. decoded[i] \in [sequence : Sequence, message : Sequence]
  BY <1>1, <1>3, ElementOfSeq
<1>. QED BY <1>4, StreamAssumption DEF Sequence

(* What appending a message at the frontier does to the record of decoded  *)
(* messages: the step shared by live and recovered messages.               *)
LEMMA DecodeKeeps ==
  ASSUME Inv, NEW s \in Sequence, s = Frontier,
         decoded' = Append(decoded, [sequence |-> s, message |-> s]),
         Frontier' = s + 1, messages_missed_' = messages_missed_,
         gaps_detected_' = gaps_detected_
  PROVE  /\ decoded' \in Seq([sequence : Sequence, message : Sequence])
         /\ decoded' # <<>>
         /\ DecodedInOrder' /\ LossesAreCounted'
<1>1. /\ decoded \in Seq([sequence : Sequence, message : Sequence])
      /\ messages_missed_ \in Nat
  BY DEF Inv, MoldTypeOK
<1>2. s \in Nat /\ Len(decoded) \in Nat
  BY <1>1, StreamAssumption, LenProperties DEF Sequence
<1>3. /\ decoded' \in Seq([sequence : Sequence, message : Sequence])
      /\ decoded' # <<>>
      /\ Len(decoded') = Len(decoded) + 1
      /\ decoded'[Len(decoded) + 1] = [sequence |-> s, message |-> s]
      /\ \A i \in DOMAIN decoded : decoded'[i] = decoded[i]
      /\ DOMAIN decoded' = 1 .. Len(decoded) + 1
      /\ DOMAIN decoded = 1 .. Len(decoded)
  BY <1>1, <1>2
<1>4. DecodedInOrder'
  <2>. SUFFICES ASSUME NEW i \in 1 .. Len(decoded) + 1
                PROVE  /\ decoded'[i].sequence = decoded'[i].message
                       /\ decoded'[i].sequence < s + 1
                       /\ i > 1 => decoded'[i - 1].sequence < decoded'[i].sequence
    BY <1>3 DEF DecodedInOrder
  <2>1. \A j \in DOMAIN decoded : /\ decoded[j].sequence = decoded[j].message
                                  /\ decoded[j].sequence < s
                                  /\ decoded[j].sequence \in Nat
    BY DecodedNumbers DEF Inv, DecodedInOrder
  <2>2. CASE i \in DOMAIN decoded
    BY <1>1, <1>2, <1>3, <2>1, <2>2 DEF Inv, DecodedInOrder
  <2>3. CASE i = Len(decoded) + 1
    <3>1. decoded'[i] = [sequence |-> s, message |-> s]
      BY <1>3, <2>3
    <3>2. i > 1 => i - 1 \in 1 .. Len(decoded)
      BY <1>2, <2>3
    <3>3. i > 1 => decoded'[i - 1] = decoded[i - 1]
      BY <1>3, <3>2
    <3>. QED BY <1>2, <1>3, <2>1, <3>1, <3>2, <3>3
  <2>. QED BY <1>1, <1>3, <2>2, <2>3
<1>5. LossesAreCounted'
  <2>1. CASE decoded = <<>>
    <3>1. Len(decoded) = 0 /\ messages_missed_ = 0
      BY <1>1, <1>2, <2>1 DEF Inv, LossesAreCounted
    <3>2. decoded'[1].sequence = s
      BY <1>3, <3>1
    <3>. QED BY <1>2, <1>3, <3>1, <3>2 DEF Inv, LossesAreCounted
  <2>2. CASE decoded # <<>>
    <3>1. 1 \in DOMAIN decoded /\ decoded[1].sequence \in Nat
      BY <1>1, <2>2, DecodedNumbers
    <3>2. Len(decoded) + messages_missed_ = s - decoded[1].sequence
      BY <2>2 DEF Inv, LossesAreCounted
    <3>3. gaps_detected_ = 0 => messages_missed_ = 0
      BY DEF Inv, LossesAreCounted
    <3>4. /\ decoded'[1].sequence = decoded[1].sequence
          /\ Len(decoded') = Len(decoded) + 1
      BY <1>3, <3>1
    <3>5. Len(decoded') + messages_missed_' = Frontier' - decoded'[1].sequence
      <4>1. (Len(decoded) + 1) + messages_missed_ = (s + 1) - decoded[1].sequence
        BY <1>1, <1>2, <3>1, <3>2
      <4>. QED BY <3>4, <4>1
    <3>. QED BY <1>3, <3>3, <3>5 DEF LossesAreCounted
  <2>. QED BY <2>1, <2>2
<1>. QED BY <1>3, <1>4, <1>5

(* A step that decodes nothing and passes n numbers it counts as missed.   *)
LEMMA PassKeeps ==
  ASSUME Inv, NEW n \in Nat, UNCHANGED decoded,
         Frontier' = Frontier + n, messages_missed_' = messages_missed_ + n,
         decoded = <<>> => n = 0,
         n > 0 => gaps_detected_' > 0,
         gaps_detected_' >= gaps_detected_
  PROVE  DecodedInOrder' /\ LossesAreCounted'
<1>1. /\ decoded \in Seq([sequence : Sequence, message : Sequence])
      /\ messages_missed_ \in Nat /\ gaps_detected_ \in Nat
      /\ Frontier \in Nat /\ Len(decoded) \in Nat
  BY StreamAssumption, LenProperties DEF Inv, MoldTypeOK, Frontier
<1>2. \A i \in DOMAIN decoded : decoded[i].sequence \in Nat
  BY DecodedNumbers
<1>3. DecodedInOrder'
  BY <1>1, <1>2 DEF Inv, DecodedInOrder
<1>4. LossesAreCounted'
  <2>1. CASE decoded = <<>>
    BY <1>1, <2>1 DEF Inv, LossesAreCounted
  <2>2. CASE decoded # <<>>
    <3>1. decoded[1].sequence \in Nat
      BY <1>1, <1>2, <2>2
    <3>2. Len(decoded) + messages_missed_ = Frontier - decoded[1].sequence
      BY <2>2 DEF Inv, LossesAreCounted
    <3>3. Len(decoded) + messages_missed_' = Frontier' - decoded[1].sequence
      BY <1>1, <3>1, <3>2
    <3>4. gaps_detected_' = 0 => messages_missed_' = 0
      BY <1>1 DEF Inv, LossesAreCounted
    <3>. QED BY <2>2, <3>3, <3>4 DEF LossesAreCounted
  <2>. QED BY <2>1, <2>2
<1>. QED BY <1>3, <1>4

-----------------------------------------------------------------------------
(* The types of the numbers the steps below compute with. *)
Typed ==
  /\ Len(Stream) \in Nat /\ MaxCount \in Nat /\ MaxDatagrams \in Nat
  /\ expected_ \in Nat /\ recover_next_ \in Nat /\ recover_end_ \in Nat
  /\ local_index_ \in Nat /\ offset_ \in Nat /\ last_sequence_ \in Nat
  /\ messages_decoded_ \in Nat /\ messages_missed_ \in Nat
  /\ gaps_detected_ \in Nat /\ received \in Nat

(* They follow from the type invariant. *)
LEMMA Numbers == Inv => Typed
BY StreamAssumption DEF Inv, MoldTypeOK, Typed

(* The header of a datagram is consistent with the stream. *)
LEMMA DatagramNumbers ==
  ASSUME NEW d \in Datagram
  PROVE  /\ d.sequence \in Nat \ {0} /\ d.count \in Nat \ {0}
         /\ d.blocks \in Nat /\ d.count <= MaxCount /\ d.blocks <= d.count
         /\ d.sequence + d.count - 1 <= Len(Stream)
         /\ d.sequence \in 0 .. Len(Stream)
         /\ d.sequence \in 0 .. Len(Stream) + 1
BY StreamAssumption DEF Datagram, Sequence

(* So is that of the live packet. *)
LEMMA PacketNumbers ==
  ASSUME Inv, have_packet_
  PROVE  /\ packet_.sequence \in Nat \ {0} /\ packet_.count \in Nat \ {0}
         /\ packet_.blocks \in Nat /\ packet_.count <= MaxCount
         /\ packet_.blocks <= packet_.count
         /\ packet_.sequence + packet_.count - 1 <= Len(Stream)
<1>1. packet_ \in Datagram
  BY DEF Inv, LoopInv
<1>. QED BY <1>1, DatagramNumbers

(* What decoding may do to the flags. *)
LEMMA DecodeFlags ==
  ASSUME Inv, NEW s, NEW m, Decode(s, m)
  PROVE  failed_' \in BOOLEAN /\ ended' \in BOOLEAN
<1>1. CASE Stream[m] = "Malformed"
  BY <1>1 DEF Decode, Fail
<1>2. CASE Stream[m] # "Malformed"
  BY <1>2 DEF Decode, Inv, MoldTypeOK
<1>. QED BY <1>1, <1>2

(* A recovered message keeps Inv. *)
LEMMA RecoverMessageInv == Inv /\ RecoverMessage => Inv'
<1>. SUFFICES ASSUME Inv, RecoverMessage PROVE Inv'
  OBVIOUS
<1>n. Typed
  BY Numbers
<1>a. recovering_ /\ ~ended /\ recover_next_ < recover_end_
  BY DEF RecoverMessage, Recovering
<1>b. /\ have_packet_ /\ expected_ <= recover_next_ /\ local_index_ = 0
      /\ packet_.sequence + 0 = recover_end_
  BY <1>a DEF Inv, LoopInv
<1>0. /\ recovering_ /\ have_packet_ /\ recover_next_ < recover_end_ /\ ~ended
      /\ expected_ <= recover_next_ /\ initialized_
      /\ recover_next_ > 0 /\ recover_end_ <= Len(Stream)
      /\ local_index_ = 0 /\ packet_.sequence = recover_end_
  BY <1>n, PacketNumbers, <1>a, <1>b DEF Inv, StartInv, MoldTypeOK, Typed
<1>1. recover_next_ \in Sequence /\ recover_next_ = Frontier
  BY <1>n, <1>0 DEF Frontier, Sequence, Typed
<1>2. Frontier' = recover_next_ + 1
  BY <1>n, <1>0 DEF RecoverMessage, Frontier, Typed
<1>3. /\ decoded' \in Seq([sequence : Sequence, message : Sequence])
      /\ decoded' # <<>> /\ DecodedInOrder' /\ LossesAreCounted'
  BY <1>1, <1>2, DecodeKeeps DEF RecoverMessage, Decode
<1>4. /\ messages_decoded_' \in Nat
      /\ last_sequence_' \in {last_sequence_, recover_next_}
      /\ failed_' \in BOOLEAN /\ ended' \in BOOLEAN
  <2>1. messages_decoded_' \in Nat
    BY <1>n DEF RecoverMessage, Decode, Typed
  <2>2. last_sequence_' \in {last_sequence_, recover_next_}
    BY DEF RecoverMessage
  <2>3. failed_' \in BOOLEAN /\ ended' \in BOOLEAN
    BY DecodeFlags DEF RecoverMessage
  <2>. QED BY <2>1, <2>2, <2>3
<1>5. MoldTypeOK'
  BY <1>n, <1>0, <1>3, <1>4 DEF RecoverMessage, packet_vars, Inv, MoldTypeOK, Typed
<1>6. LoopInv' /\ GapInv'
  BY <1>n, <1>0 DEF RecoverMessage, packet_vars, Inv, LoopInv, GapInv, Typed
<1>7. StartInv'
  BY <1>n, <1>0, <1>1, <1>2, <1>3, <1>4
     DEF RecoverMessage, packet_vars, Inv, StartInv, Typed
<1>. QED BY <1>3, <1>5, <1>6, <1>7 DEF Inv

(* A number that cannot be recovered keeps Inv. *)
LEMMA RecoverNothingInv == Inv /\ RecoverNothing => Inv'
<1>. SUFFICES ASSUME Inv, RecoverNothing PROVE Inv'
  OBVIOUS
<1>n. Typed
  BY Numbers
<1>0. /\ recovering_ /\ have_packet_ /\ recover_next_ < recover_end_ /\ ~ended
      /\ expected_ <= recover_next_ /\ initialized_
      /\ recover_end_ <= Len(Stream) /\ decoded # <<>>
  BY <1>n DEF RecoverNothing, Recovering, Inv, LoopInv, StartInv, MoldTypeOK, Typed
<1>a. Frontier = recover_next_
  BY <1>n, <1>0 DEF Frontier, Typed
<1>b. Frontier' = recover_next_ + 1
  BY <1>n, <1>0 DEF RecoverNothing, Frontier, Typed
<1>1. Frontier' = Frontier + 1 /\ Frontier = recover_next_
  BY <1>a, <1>b
<1>2. gaps_detected_ > 0
  BY <1>n, <1>0 DEF Inv, GapInv, Typed
<1>3. DecodedInOrder' /\ LossesAreCounted'
  BY <1>n, <1>0, <1>1, <1>2, PassKeeps DEF RecoverNothing, Typed
<1>4. MoldTypeOK'
  BY <1>n, <1>0 DEF RecoverNothing, packet_vars, Inv, MoldTypeOK, Typed
<1>5. LoopInv' /\ GapInv'
  BY <1>n, <1>0 DEF RecoverNothing, packet_vars, Inv, LoopInv, GapInv, Typed
<1>6. StartInv'
  BY <1>n, <1>0, <1>1 DEF RecoverNothing, packet_vars, Inv, StartInv, Typed
<1>. QED BY <1>3, <1>4, <1>5, <1>6 DEF Inv

(* A message of the live packet keeps Inv. *)
LEMMA ReadBlockInv == Inv /\ ReadBlock => Inv'
<1>. SUFFICES ASSUME Inv, ReadBlock PROVE Inv'
  OBVIOUS
<1>n. Typed
  BY Numbers
<1>. DEFINE s == packet_.sequence + local_index_
<1>a. have_packet_ /\ ~ended /\ ~(local_index_ >= packet_.count)
  BY DEF ReadBlock, Live, PacketDone
<1>b. recovering_ => recover_next_ = recover_end_
  BY <1>n DEF ReadBlock, Live, Inv, LoopInv, Typed
<1>0. /\ have_packet_ /\ ~ended /\ local_index_ < packet_.count
      /\ packet_.sequence + offset_ = s
      /\ recovering_ => recover_next_ = recover_end_
  BY <1>n, PacketNumbers, <1>a, <1>b DEF Inv, LoopInv, Typed
<1>c. s \in Nat /\ 1 <= s /\ s <= Len(Stream)
  <2>1. /\ packet_.sequence \in Nat \ {0} /\ packet_.count \in Nat \ {0}
        /\ packet_.sequence + packet_.count - 1 <= Len(Stream)
    BY PacketNumbers, <1>0
  <2>2. local_index_ \in Nat /\ Len(Stream) \in Nat /\ local_index_ < packet_.count
    BY <1>n, <1>0 DEF Typed
  <2>. QED BY <2>1, <2>2
<1>d. s = Frontier /\ s >= recover_next_
  <2>1. CASE recovering_
    BY <1>n, PacketNumbers, <1>0, <2>1 DEF Inv, LoopInv, Frontier, Typed
  <2>2. CASE ~recovering_
    BY <1>n, PacketNumbers, <1>0, <2>2 DEF Inv, LoopInv, Frontier, Typed
  <2>. QED BY <2>1, <2>2
<1>e. initialized_
  BY <1>0 DEF Inv, StartInv
<1>1. s \in Sequence /\ s = Frontier /\ s >= recover_next_ /\ initialized_
  BY <1>n, <1>c, <1>d, <1>e DEF Sequence, Typed
<1>2. expected_' = s + 1 /\ last_sequence_' = s /\ recovering_' = FALSE
  BY DEF ReadBlock
<1>3. Frontier' = s + 1
  <2>1. recover_next_' = recover_next_
    BY DEF ReadBlock
  <2>. QED BY <1>n, <1>1, <1>2, <1>c, <2>1 DEF Frontier, Typed
<1>4. /\ decoded' \in Seq([sequence : Sequence, message : Sequence])
      /\ decoded' # <<>> /\ DecodedInOrder' /\ LossesAreCounted'
  BY <1>0, <1>1, <1>3, DecodeKeeps DEF ReadBlock, Decode
<1>5. messages_decoded_' \in {messages_decoded_, messages_decoded_ + 1}
  BY DEF ReadBlock, Decode
<1>6. failed_' \in BOOLEAN /\ ended' \in BOOLEAN
  BY DecodeFlags DEF ReadBlock
<1>i. /\ UNCHANGED <<retransmit_, packet_, have_packet_, initialized_,
                       recover_next_, recover_end_, end_of_session_,
                       gaps_detected_, messages_missed_, received>>
       /\ offset_' = offset_ + 1 /\ local_index_' = local_index_ + 1
  BY DEF ReadBlock
<1>h. /\ packet_.sequence \in Nat /\ packet_.count \in Nat
       /\ packet_.count <= MaxCount /\ local_index_ < packet_.count
  BY PacketNumbers, <1>0
<1>j. local_index_ + 1 <= MaxCount
  BY <1>n, <1>h DEF Typed
<1>k. offset_ = local_index_ /\ recover_next_ <= recover_end_ /\ packet_ \in Datagram
  BY <1>0 DEF Inv, LoopInv
<1>l. s + 1 = packet_.sequence + (local_index_ + 1)
  BY <1>n, <1>h DEF Typed
<1>. HIDE DEF s
<1>7. MoldTypeOK'
  <2>1. /\ offset_' \in 0 .. MaxCount /\ local_index_' \in 0 .. MaxCount
        /\ expected_' \in 0 .. Len(Stream) + 1
        /\ last_sequence_' \in 0 .. Len(Stream)
        /\ messages_decoded_' \in Nat
    BY <1>n, <1>2, <1>5, <1>i, <1>c, <1>j, <1>k DEF Typed
  <2>. QED BY <1>2, <1>4, <1>6, <1>i, <2>1 DEF Inv, MoldTypeOK
<1>8. LoopInv' /\ GapInv'
  BY <1>n, <1>1, <1>2, <1>3, <1>i, <1>c, <1>j, <1>k, <1>l DEF LoopInv, GapInv, Typed
<1>9. StartInv'
  BY <1>1, <1>2, <1>3, <1>4, <1>c, <1>i DEF StartInv
<1>. QED BY <1>4, <1>7, <1>8, <1>9 DEF Inv

(* Stopping at a truncated packet or at the end of the source keeps Inv. *)
LEMMA StopInv ==
  Inv /\ (ReadTruncated \/ LoadUnparsable \/ \E f \in BOOLEAN : SourceEnds(f))
    => Inv'
<1>. SUFFICES ASSUME Inv,
                     \/ ReadTruncated
                     \/ LoadUnparsable
                     \/ \E f \in BOOLEAN : SourceEnds(f)
              PROVE  Inv'
  OBVIOUS
<1>n. Typed
  BY Numbers
<1>0. Live /\ (recovering_ => recover_next_ = recover_end_)
  BY <1>n DEF ReadTruncated, LoadUnparsable, SourceEnds, Receive, Live,
                 Inv, LoopInv, Typed
<1>1. /\ UNCHANGED <<retransmit_, packet_, offset_, local_index_, initialized_,
                     expected_, recover_next_, recover_end_, end_of_session_,
                     gaps_detected_, messages_missed_, messages_decoded_,
                     last_sequence_, decoded>>
      /\ have_packet_' = have_packet_ \/ have_packet_' = FALSE
      /\ recovering_' = FALSE
      /\ received' \in 0 .. MaxDatagrams
  <2>1. CASE ReadTruncated
    BY <2>1 DEF ReadTruncated, packet_vars, counters, Inv, MoldTypeOK
  <2>2. CASE LoadUnparsable
    BY <2>2, <1>n DEF LoadUnparsable, Receive, Typed
  <2>3. CASE \E f \in BOOLEAN : SourceEnds(f)
    BY <2>3 DEF SourceEnds, counters, Inv, MoldTypeOK
  <2>. QED BY <2>1, <2>2, <2>3
<1>1a. failed_' \in BOOLEAN /\ ended' = TRUE
  BY Zenon DEF ReadTruncated, LoadUnparsable, SourceEnds, Fail
<1>2. Frontier' = Frontier
  BY <1>1 DEF Frontier
<1>3. DecodedInOrder' /\ LossesAreCounted'
  BY <1>1, <1>2 DEF Inv, DecodedInOrder, LossesAreCounted
<1>4. MoldTypeOK'
  BY <1>1, <1>1a DEF Inv, MoldTypeOK
<1>5. LoopInv' /\ GapInv'
  <2>1. have_packet_' => /\ packet_ \in Datagram
                         /\ packet_.sequence + local_index_ = Frontier
    <3>1. CASE recovering_
      BY <1>0, <1>1, <3>1, <1>n DEF Inv, LoopInv, Frontier, Typed
    <3>2. CASE ~recovering_
      BY <1>1, <3>2 DEF Inv, LoopInv
    <3>. QED BY <3>1, <3>2
  <2>. QED BY <1>1, <1>1a, <1>2, <2>1 DEF Inv, LoopInv, GapInv
<1>6. StartInv'
  <2>1. ~have_packet_ => ~have_packet_'
    BY <1>1
  <2>. QED BY <1>1, <1>1a, <1>2, <2>1 DEF Inv, StartInv
<1>. QED BY <1>3, <1>4, <1>5, <1>6 DEF Inv

-----------------------------------------------------------------------------
(* Where the connector stands when it takes a datagram: no recovery is     *)
(* pending, and the frontier is expected_.                                 *)
LEMMA ReceiveFacts ==
  ASSUME Inv, Receive
  PROVE  /\ ~recovering_ /\ ~ended /\ recover_next_ <= expected_
         /\ Frontier = expected_
         /\ initialized_ => decoded # <<>> /\ expected_ > 0
         /\ received' \in 0 .. MaxDatagrams
         /\ UNCHANGED <<retransmit_, messages_decoded_, last_sequence_, decoded>>
<1>n. Typed
  BY Numbers
<1>1. ~ended /\ PacketDone
  BY DEF Receive, Live
<1>2. ~recovering_
  <2>. SUFFICES ASSUME recovering_ PROVE FALSE
    OBVIOUS
  <2>1. have_packet_ /\ local_index_ = 0
    BY DEF Inv, LoopInv
  <2>2. packet_.count \in Nat \ {0}
    BY <2>1, PacketNumbers
  <2>. QED BY <1>1, <2>1, <2>2 DEF PacketDone
<1>3. recover_next_ <= expected_
  BY <1>1, <1>2 DEF Inv, LoopInv
<1>4. Frontier = expected_
  BY <1>3, <1>n DEF Frontier, Typed
<1>5. initialized_ => decoded # <<>> /\ expected_ > 0
  <2>. SUFFICES ASSUME initialized_ PROVE decoded # <<>> /\ expected_ > 0
    OBVIOUS
  <2>1. expected_ > 0
    BY DEF Inv, StartInv
  <2>. SUFFICES ASSUME decoded = <<>> PROVE FALSE
    BY <2>1
  <2>2. have_packet_ /\ local_index_ = 0
    BY <1>1 DEF Inv, StartInv
  <2>3. packet_.count \in Nat \ {0}
    BY <2>2, PacketNumbers
  <2>. QED BY <1>1, <2>2, <2>3 DEF PacketDone
<1>6. /\ received' \in 0 .. MaxDatagrams
      /\ UNCHANGED <<retransmit_, messages_decoded_, last_sequence_, decoded>>
  BY <1>n DEF Receive, Typed
<1>. QED BY <1>1, <1>2, <1>3, <1>4, <1>5, <1>6

(* A heartbeat or an end of session keeps Inv. *)
LEMMA LoadControlInv ==
  ASSUME Inv, NEW d \in Control, LoadControl(d)
  PROVE  Inv'
<1>n. Typed
  BY Numbers
<1>0. /\ ~recovering_ /\ ~ended /\ recover_next_ <= expected_
      /\ initialized_ => decoded # <<>>
      /\ received' \in 0 .. MaxDatagrams
      /\ UNCHANGED <<retransmit_, messages_decoded_, last_sequence_, decoded>>
  BY ReceiveFacts DEF LoadControl
<1>1. /\ packet_' = d /\ have_packet_' = FALSE /\ offset_' = 0
      /\ local_index_' = 0 /\ recovering_' = FALSE
      /\ UNCHANGED <<initialized_, expected_, recover_next_, recover_end_,
                     failed_, gaps_detected_, messages_missed_, ended>>
  BY DEF LoadControl, Install
<1>2. end_of_session_' \in BOOLEAN
  BY DEF LoadControl, Inv, MoldTypeOK
<1>3. Frontier' = Frontier
  BY <1>1 DEF Frontier
<1>4. DecodedInOrder' /\ LossesAreCounted'
  BY <1>0, <1>1, <1>3 DEF Inv, DecodedInOrder, LossesAreCounted
<1>5. MoldTypeOK'
  <2>1. offset_' \in 0 .. MaxCount /\ local_index_' \in 0 .. MaxCount
    BY <1>n, <1>1 DEF Typed
  <2>. QED BY <1>0, <1>1, <1>2, <2>1 DEF Inv, MoldTypeOK
<1>6. LoopInv' /\ GapInv'
  BY <1>0, <1>1 DEF Inv, LoopInv, GapInv
<1>7. StartInv'
  BY <1>0, <1>1, <1>3 DEF Inv, StartInv
<1>. QED BY <1>4, <1>5, <1>6, <1>7 DEF Inv

(* A packet in order, the first one included, keeps Inv. *)
LEMMA LoadInOrderInv ==
  ASSUME Inv, NEW d \in Datagram, LoadInOrder(d)
  PROVE  Inv'
<1>n. Typed
  BY Numbers
<1>0. /\ ~recovering_ /\ ~ended /\ recover_next_ <= expected_
      /\ Frontier = expected_
      /\ initialized_ => decoded # <<>> /\ expected_ > 0
      /\ received' \in 0 .. MaxDatagrams
      /\ UNCHANGED <<retransmit_, messages_decoded_, last_sequence_, decoded>>
  BY ReceiveFacts DEF LoadInOrder
<1>1. /\ packet_' = d /\ have_packet_' = TRUE /\ offset_' = 0
      /\ local_index_' = 0 /\ recovering_' = FALSE
      /\ initialized_' = TRUE /\ expected_' = d.sequence
      /\ UNCHANGED <<recover_next_, recover_end_, failed_, end_of_session_,
                     gaps_detected_, messages_missed_, ended>>
  BY DEF LoadInOrder, Install
<1>2. /\ d.sequence \in Nat \ {0} /\ d.count \in Nat \ {0}
      /\ d.sequence + d.count - 1 <= Len(Stream)
  BY DatagramNumbers
<1>3. /\ recover_next_ <= d.sequence
      /\ last_sequence_ < d.sequence
      /\ DecodedInOrder' /\ LossesAreCounted'
      /\ Frontier' = d.sequence
  <2>1. CASE initialized_
    <3>1. d.sequence = expected_
      BY <2>1 DEF LoadInOrder, Expected
    <3>2. Frontier' = Frontier
      BY <1>1, <3>1 DEF Frontier
    <3>. QED BY <1>0, <1>1, <2>1, <3>1, <3>2
             DEF Inv, StartInv, DecodedInOrder, LossesAreCounted
  <2>2. CASE ~initialized_
    <3>1. /\ decoded = <<>> /\ recover_next_ = 0 /\ messages_missed_ = 0
          /\ last_sequence_ = 0
      BY <2>2 DEF Inv, StartInv
    <3>2. Frontier' = d.sequence
      BY <1>1, <1>2, <3>1 DEF Frontier
    <3>3. DecodedInOrder'
      BY <1>0, <3>1 DEF DecodedInOrder
    <3>4. LossesAreCounted'
      BY <1>0, <1>1, <1>2, <3>1, <3>2 DEF LossesAreCounted
    <3>. QED BY <1>2, <3>1, <3>2, <3>3, <3>4
  <2>. QED BY <2>1, <2>2
<1>4. MoldTypeOK'
  <2>1. offset_' \in 0 .. MaxCount /\ local_index_' \in 0 .. MaxCount
    BY <1>n, <1>1 DEF Typed
  <2>2. d.sequence \in 0 .. Len(Stream) + 1
    BY DatagramNumbers
  <2>. QED BY <1>0, <1>1, <2>1, <2>2 DEF Inv, MoldTypeOK
<1>5. LoopInv' /\ GapInv'
  BY <1>1, <1>2, <1>3 DEF Inv, LoopInv, GapInv
<1>6. StartInv'
  BY <1>0, <1>1, <1>2, <1>3 DEF StartInv
<1>. QED BY <1>3, <1>4, <1>5, <1>6 DEF Inv

(* A gap keeps Inv, whether it is to be recovered or counted. *)
LEMMA LoadGapInv ==
  ASSUME Inv, NEW d \in Datagram, LoadGap(d)
  PROVE  Inv'
<1>n. Typed
  BY Numbers
<1>0. /\ ~recovering_ /\ ~ended /\ recover_next_ <= expected_
      /\ Frontier = expected_
      /\ initialized_ => decoded # <<>> /\ expected_ > 0
      /\ received' \in 0 .. MaxDatagrams
      /\ UNCHANGED <<retransmit_, messages_decoded_, last_sequence_, decoded>>
  BY ReceiveFacts DEF LoadGap
<1>1. /\ packet_' = d /\ have_packet_' = TRUE /\ offset_' = 0
      /\ local_index_' = 0 /\ recovering_' = retransmit_
      /\ gaps_detected_' = gaps_detected_ + 1
      /\ UNCHANGED <<initialized_, failed_, end_of_session_, ended>>
  BY DEF LoadGap, Install
<1>2. /\ d.sequence \in Nat /\ d.sequence \in 0 .. Len(Stream)
      /\ d.sequence \in 0 .. Len(Stream) + 1
  BY DatagramNumbers
<1>3. initialized_ /\ d.sequence > expected_ /\ decoded # <<>> /\ expected_ > 0
  BY <1>0, <1>2 DEF LoadGap, Expected
<1>4. retransmit_ => /\ recover_next_' = expected_ /\ recover_end_' = d.sequence
                     /\ UNCHANGED <<expected_, messages_missed_>>
  BY DEF LoadGap
<1>5. ~retransmit_ =>
        /\ messages_missed_' = messages_missed_ + (d.sequence - expected_)
        /\ expected_' = d.sequence
        /\ UNCHANGED <<recover_next_, recover_end_>>
  BY <1>n, <1>2 DEF LoadGap, Typed
<1>6. PICK missed \in Nat : /\ Frontier' = Frontier + missed
                            /\ messages_missed_' = messages_missed_ + missed
  <2>1. CASE retransmit_
    <3>1. Frontier' = Frontier + 0
      BY <1>n, <1>0, <1>4, <2>1 DEF Frontier, Typed
    <3>. QED BY <1>n, <1>4, <2>1, <3>1 DEF Typed
  <2>2. CASE ~retransmit_
    <3>. DEFINE width == d.sequence - expected_
    <3>1. width \in Nat
      BY <1>n, <1>2, <1>3 DEF Typed
    <3>2. Frontier' = d.sequence
      BY <1>n, <1>0, <1>2, <1>3, <1>5, <2>2 DEF Frontier, Typed
    <3>3. Frontier' = Frontier + width
      BY <1>n, <1>0, <1>2, <3>2 DEF Typed
    <3>. QED BY <1>5, <2>2, <3>1, <3>3
  <2>. QED BY <2>1, <2>2
<1>7. DecodedInOrder' /\ LossesAreCounted'
  <2>1. gaps_detected_' > 0 /\ gaps_detected_' >= gaps_detected_
    BY <1>n, <1>1 DEF Typed
  <2>2. UNCHANGED decoded /\ decoded # <<>>
    BY <1>0, <1>3
  <2>. QED BY <1>6, <2>1, <2>2, PassKeeps
<1>8. MoldTypeOK'
  <2>1. offset_' \in 0 .. MaxCount /\ local_index_' \in 0 .. MaxCount
    BY <1>n, <1>1 DEF Typed
  <2>2. expected_' \in 0 .. Len(Stream) + 1
    BY <1>2, <1>4, <1>5 DEF Inv, MoldTypeOK
  <2>3. recover_next_' \in 0 .. Len(Stream) /\ recover_end_' \in 0 .. Len(Stream)
    <3>1. expected_ \in 0 .. Len(Stream)
      BY <1>n, <1>2, <1>3 DEF Typed
    <3>. QED BY <1>2, <1>4, <1>5, <3>1 DEF Inv, MoldTypeOK
  <2>4. messages_missed_' \in Nat /\ gaps_detected_' \in Nat
    BY <1>n, <1>1, <1>6 DEF Typed
  <2>. QED BY <1>0, <1>1, <2>1, <2>2, <2>3, <2>4 DEF Inv, MoldTypeOK
<1>9. LoopInv' /\ GapInv'
  <2>1. CASE retransmit_
    BY <1>n, <1>0, <1>1, <1>2, <1>3, <1>4, <2>1 DEF Inv, LoopInv, GapInv, Typed
  <2>2. CASE ~retransmit_
    <3>1. Frontier' = d.sequence /\ recover_next_' <= expected_'
      BY <1>n, <1>0, <1>2, <1>3, <1>5, <2>2 DEF Frontier, Typed
    <3>. QED BY <1>1, <1>2, <1>5, <2>2, <3>1 DEF Inv, LoopInv, GapInv
  <2>. QED BY <2>1, <2>2
<1>10. StartInv'
  <2>1. expected_' > 0
    BY <1>n, <1>2, <1>3, <1>4, <1>5 DEF Typed
  <2>2. last_sequence_' < Frontier'
    <3>1. last_sequence_ < expected_
      BY <1>0, <1>3 DEF Inv, StartInv
    <3>. QED BY <1>n, <1>0, <1>6, <3>1 DEF Typed
  <2>. QED BY <1>0, <1>1, <1>3, <2>1, <2>2 DEF StartInv
<1>. QED BY <1>7, <1>8, <1>9, <1>10 DEF Inv

(* A repeat, whole or in part, keeps Inv. *)
LEMMA LoadOverlapInv ==
  ASSUME Inv, NEW d \in Datagram, LoadOverlap(d)
  PROVE  Inv'
<1>n. Typed
  BY Numbers
<1>0. /\ ~recovering_ /\ ~ended /\ recover_next_ <= expected_
      /\ Frontier = expected_
      /\ initialized_ => decoded # <<>> /\ expected_ > 0
      /\ received' \in 0 .. MaxDatagrams
      /\ UNCHANGED <<retransmit_, messages_decoded_, last_sequence_, decoded>>
  BY ReceiveFacts DEF LoadOverlap
<1>1. /\ packet_' = d /\ recovering_' = FALSE
      /\ UNCHANGED <<initialized_, expected_, recover_next_, recover_end_,
                     end_of_session_, gaps_detected_, messages_missed_>>
  BY DEF LoadOverlap, Install
<1>2. /\ d.sequence \in Nat /\ d.count \in Nat /\ d.blocks \in Nat
      /\ d.count <= MaxCount /\ d.blocks <= d.count
  BY DatagramNumbers
<1>3. initialized_ /\ d.sequence < expected_ /\ decoded # <<>> /\ expected_ > 0
  BY <1>0, <1>2 DEF LoadOverlap, Expected
<1>4. /\ offset_' = local_index_' /\ local_index_' \in 0 .. MaxCount
      /\ have_packet_' \in BOOLEAN
      /\ have_packet_' => d.sequence + local_index_' = expected_
      /\ failed_' \in BOOLEAN /\ ended' \in BOOLEAN
  <2>. DEFINE already_seen == expected_ - d.sequence
              skipped == IF already_seen < d.count THEN already_seen ELSE d.count
  <2>1. /\ skipped \in Nat /\ skipped <= MaxCount
        /\ skipped < d.count => d.sequence + skipped = expected_
    <3>1. expected_ \in Nat /\ MaxCount \in Nat
      BY <1>n DEF Typed
    <3>2. CASE already_seen < d.count
      BY <1>2, <1>3, <3>1, <3>2
    <3>3. CASE ~(already_seen < d.count)
      BY <1>2, <1>3, <3>1, <3>3
    <3>. QED BY <3>2, <3>3
  <2>2. CASE skipped > d.blocks
    <3>1. Fail /\ Install(d, d.blocks, FALSE)
      BY <2>2 DEF LoadOverlap
    <3>2. d.blocks \in 0 .. MaxCount
      BY <1>n, <1>2 DEF Typed
    <3>3. failed_' = TRUE /\ ended' = TRUE
      BY <3>1 DEF Fail
    <3>4. /\ have_packet_' = FALSE
          /\ offset_' = d.blocks /\ local_index_' = d.blocks
      BY <3>1 DEF Install
    <3>. QED BY <3>2, <3>3, <3>4
  <2>3. CASE ~(skipped > d.blocks)
    <3>1. Install(d, skipped, skipped < d.count) /\ UNCHANGED <<failed_, ended>>
      BY <2>3 DEF LoadOverlap
    <3>. HIDE DEF skipped
    <3>2. /\ offset_' = skipped /\ local_index_' = skipped
          /\ have_packet_' = (skipped < d.count)
      BY <3>1 DEF Install
    <3>3. local_index_' \in 0 .. MaxCount
      BY <1>n, <2>1, <3>2 DEF Typed
    <3>4. failed_' \in BOOLEAN /\ ended' \in BOOLEAN
      BY <3>1 DEF Inv, MoldTypeOK
    <3>5. have_packet_' \in BOOLEAN
      BY <3>2
    <3>6. have_packet_' => d.sequence + local_index_' = expected_
      BY <2>1, <3>2
    <3>. QED BY <3>2, <3>3, <3>4, <3>5, <3>6
  <2>. QED BY <2>2, <2>3
<1>5. Frontier' = Frontier
  BY <1>1 DEF Frontier
<1>6. DecodedInOrder' /\ LossesAreCounted'
  BY <1>0, <1>1, <1>5 DEF Inv, DecodedInOrder, LossesAreCounted
<1>7. MoldTypeOK'
  BY <1>0, <1>1, <1>4 DEF Inv, MoldTypeOK
<1>8. LoopInv' /\ GapInv'
  BY <1>0, <1>1, <1>4, <1>5 DEF Inv, LoopInv, GapInv
<1>9. StartInv'
  BY <1>0, <1>1, <1>3, <1>5 DEF Inv, StartInv
<1>. QED BY <1>6, <1>7, <1>8, <1>9 DEF Inv

-----------------------------------------------------------------------------
(* Every step of the connector keeps Inv. *)
LEMMA InvNext == Inv /\ [Next]_vars => Inv'
<1>. SUFFICES ASSUME Inv, [Next]_vars PROVE Inv'
  OBVIOUS
<1>1. CASE UNCHANGED vars
  BY <1>1 DEF vars, packet_vars, recovery_vars, counters, Inv, MoldTypeOK,
              LoopInv, StartInv, GapInv, DecodedInOrder, LossesAreCounted,
              Frontier
<1>2. CASE RecoverMessage
  BY <1>2, RecoverMessageInv
<1>3. CASE RecoverNothing
  BY <1>3, RecoverNothingInv
<1>4. CASE ReadBlock
  BY <1>4, ReadBlockInv
<1>5. CASE \/ ReadTruncated
           \/ LoadUnparsable
           \/ \E source_failed \in BOOLEAN : SourceEnds(source_failed)
  BY <1>5, StopInv
<1>6. CASE \E d \in Control : LoadControl(d)
  BY <1>6, LoadControlInv
<1>7. CASE \E d \in Datagram : LoadInOrder(d) \/ LoadGap(d) \/ LoadOverlap(d)
  BY <1>7, LoadInOrderInv, LoadGapInv, LoadOverlapInv
<1>. QED BY <1>1, <1>2, <1>3, <1>4, <1>5, <1>6, <1>7 DEF Next

(* The invariant holds in every run of the connector. *)
THEOREM Invariant == Spec => []Inv
BY InvInit, InvNext, PTL DEF Spec

(* The connector's members keep their types: in particular no index runs   *)
(* past the packet and no recovery past the stream.                        *)
THEOREM TypeCorrect == Spec => []MoldTypeOK
<1>1. Inv => MoldTypeOK
  BY DEF Inv
<1>. QED BY <1>1, Invariant, PTL

(* next() delivers each message at most once, in the exchange's order and  *)
(* under its own number, whatever the network and the retransmit source    *)
(* do.                                                                     *)
THEOREM OrderedDelivery == Spec => []DecodedInOrder
<1>1. Inv => DecodedInOrder
  BY DEF Inv
<1>. QED BY <1>1, Invariant, PTL

(* messages_missed() is exact: it is the number of messages between the    *)
(* first one and the frontier that next() has not decoded.                 *)
THEOREM ExactLossCount == Spec => []LossesAreCounted
<1>1. Inv => LossesAreCounted
  BY DEF Inv
<1>. QED BY <1>1, Invariant, PTL

(* A late or repeated datagram never takes the connector back: the         *)
(* frontier and the numbers of the events delivered only grow.             *)
THEOREM Monotone == Spec => NeverGoesBack
<1>. DEFINE Step == /\ Frontier' >= Frontier
                    /\ messages_decoded_' > messages_decoded_
                         => last_sequence_' > last_sequence_
<1>1. ASSUME Inv, Inv', Next PROVE Step
  <2>n. Typed
    BY <1>1, Numbers
  <2>0. Frontier \in Nat
    BY <1>1, <2>n DEF Frontier, Typed
  <2>1. CASE RecoverMessage
    <3>1. recovering_ /\ initialized_ /\ expected_ <= recover_next_
      BY <1>1, <2>1 DEF RecoverMessage, Recovering, Inv, LoopInv, StartInv
    <3>2. Frontier = recover_next_
      BY <1>1, <3>1, <2>n DEF Frontier, Typed
    <3>3. Frontier' = recover_next_ + 1
      BY <1>1, <2>1, <3>1, <2>n DEF RecoverMessage, Frontier, Typed
    <3>4. last_sequence_ < recover_next_
      BY <1>1, <3>1, <3>2 DEF Inv, StartInv
    <3>5. messages_decoded_' > messages_decoded_ => last_sequence_' = recover_next_
      BY <1>1, <2>1, <2>n DEF RecoverMessage, Decode, Typed
    <3>6. recover_next_ \in Nat /\ last_sequence_ \in Nat
      BY <1>1, <2>n DEF Typed
    <3>. QED BY <3>2, <3>3, <3>4, <3>5, <3>6
  <2>2. CASE RecoverNothing
    <3>1. Frontier' >= Frontier
      BY <1>1, <2>2, <2>n DEF RecoverNothing, Frontier, Typed
    <3>. QED BY <1>1, <2>2, <3>1, <2>n DEF RecoverNothing, Typed
  <2>3. CASE ReadBlock
    <3>1. have_packet_ /\ Live
      BY <2>3 DEF ReadBlock, PacketDone
    <3>2. packet_.sequence + local_index_ = Frontier /\ initialized_
      <4>1. CASE recovering_
        BY <1>1, <3>1, <4>1, <2>n DEF Live, Inv, LoopInv, StartInv, Frontier, Typed
      <4>2. CASE ~recovering_
        BY <1>1, <3>1, <4>2 DEF Inv, LoopInv, StartInv
      <4>. QED BY <4>1, <4>2
    <3>3. last_sequence_' = Frontier /\ expected_' = Frontier + 1
      BY <2>3, <3>2 DEF ReadBlock
    <3>4. Frontier' >= expected_'
      BY <1>1, <2>n DEF Frontier, Inv, MoldTypeOK, Typed
    <3>5. last_sequence_ < Frontier
      BY <1>1, <3>2 DEF Inv, StartInv
    <3>6. Frontier' \in Nat
      BY <1>1, StreamAssumption DEF Frontier, Inv, MoldTypeOK
    <3>. QED BY <1>1, <2>0, <3>3, <3>4, <3>5, <3>6, <2>n DEF Typed
  <2>4. CASE \/ ReadTruncated
             \/ LoadUnparsable
             \/ \E f \in BOOLEAN : SourceEnds(f)
             \/ \E d \in Control : LoadControl(d)
    <3>1. UNCHANGED <<expected_, recover_next_, messages_decoded_>>
      BY <2>4 DEF ReadTruncated, LoadUnparsable, SourceEnds, LoadControl,
                  Receive, packet_vars, counters
    <3>. QED BY <1>1, <2>0, <3>1, <2>n DEF Frontier, Typed
  <2>5. ASSUME NEW d \in Datagram, LoadInOrder(d) \/ LoadGap(d) \/ LoadOverlap(d)
        PROVE  Step
    <3>1. /\ Receive
          /\ expected_' = expected_ \/ expected_' = d.sequence
      BY <2>5 DEF LoadInOrder, LoadGap, LoadOverlap
    <3>2. messages_decoded_' = messages_decoded_ /\ Frontier = expected_
      BY <1>1, <3>1, ReceiveFacts
    <3>3. d.sequence \in Nat
      BY DatagramNumbers
    <3>4. expected_' = d.sequence => d.sequence >= expected_
      <4>1. CASE ~initialized_
        BY <1>1, <3>3, <4>1, <2>n DEF Inv, StartInv, Typed
      <4>2. CASE initialized_ /\ (LoadInOrder(d) \/ LoadGap(d))
        <5>1. Expected(d) = expected_
          BY <4>2 DEF Expected
        <5>2. d.sequence = expected_ \/ d.sequence > expected_
          BY <4>2, <5>1 DEF LoadInOrder, LoadGap
        <5>. QED BY <1>1, <3>3, <5>2, <2>n DEF Typed
      <4>3. CASE LoadOverlap(d)
        <5>1. expected_' = expected_
          BY <4>3 DEF LoadOverlap
        <5>. QED BY <1>1, <3>3, <5>1, <2>n DEF Typed
      <4>. QED BY <2>5, <4>1, <4>2, <4>3
    <3>5. expected_' >= expected_
      BY <1>1, <3>1, <3>4, <2>n DEF Typed
    <3>6. Frontier' >= expected_'
      BY <1>1, <2>n, StreamAssumption DEF Frontier, Inv, MoldTypeOK, Typed
    <3>7. expected_' \in Nat /\ Frontier' \in Nat
      BY <1>1, StreamAssumption DEF Frontier, Inv, MoldTypeOK
    <3>. QED BY <1>1, <3>2, <3>5, <3>6, <3>7, <2>n DEF Typed
  <2>. QED BY <1>1, <2>1, <2>2, <2>3, <2>4, <2>5 DEF Next
<1>2. Inv /\ Inv' /\ [Next]_vars => [Step]_vars
  BY <1>1
<1>. QED BY <1>2, Invariant, PTL DEF Spec, NeverGoesBack
=============================================================================
