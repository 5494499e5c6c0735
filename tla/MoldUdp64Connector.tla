------------------------- MODULE MoldUdp64Connector -------------------------
(***************************************************************************)
(* src/MoldUdp64Connector.cpp: the connector that turns MoldUDP64          *)
(* datagrams into a sequenced stream of book events.  The exchange numbers *)
(* its messages 1, 2, ...; a datagram carries a run of them.  The network  *)
(* loses, repeats, reorders and delays datagrams, so the connector may get *)
(* any datagram next.                                                      *)
(*                                                                         *)
(* A call of next() is unfolded into the turns of its loops.  The caller   *)
(* calls again at once after `true` and stops at the first `false`, as     *)
(* apply_all of ItchReplay.cpp does.                                       *)
(***************************************************************************)
EXTENDS Integers, Sequences

CONSTANTS Stream,        \* the DecodeStatus of each message of the exchange
          MaxCount,      \* the most messages a datagram carries
          MaxDatagrams   \* bound on the datagrams received

ASSUME StreamAssumption ==
  /\ Stream \in Seq({"Event", "Skipped", "Malformed"})
  /\ MaxCount \in Nat \ {0} /\ MaxDatagrams \in Nat

Sequence == 1 .. Len(Stream)

kMoldEndOfSession == 65535

(* What the header of a datagram says and how many message blocks can be   *)
(* read from the rest: fewer than count when the datagram is cut short.    *)
(* The first block is message `sequence`.                                  *)
Datagram ==
  {d \in [sequence : Sequence, count : 1 .. MaxCount, blocks : 0 .. MaxCount] :
     d.blocks <= d.count /\ d.sequence + d.count - 1 <= Len(Stream)}

Control == [sequence : {0}, count : {0, kMoldEndOfSession}, blocks : {0}]

VARIABLES
  retransmit_,      \* whether there is a RetransmitSource
  packet_, have_packet_,
  offset_,          \* where read_block is in packet_, counted in blocks
  local_index_,     \* how many messages of packet_ are accounted for
  initialized_, expected_,
  recovering_, recover_next_, recover_end_,
  failed_, end_of_session_,
  gaps_detected_, messages_missed_, messages_decoded_, last_sequence_,
  received,         \* how many datagrams the source has returned
  ended,            \* next() has returned false
  decoded           \* the calls of decode_message: the number the connector
                    \* gives the message, and which message it is

packet_vars == <<packet_, have_packet_, offset_, local_index_>>
recovery_vars == <<recovering_, recover_next_, recover_end_>>
counters == <<gaps_detected_, messages_missed_, messages_decoded_,
              last_sequence_>>
vars == <<retransmit_, packet_vars, initialized_, expected_, recovery_vars,
          failed_, end_of_session_, counters, received, ended, decoded>>

Init ==
  /\ retransmit_ \in BOOLEAN
  /\ packet_ = [sequence |-> 0, count |-> 0, blocks |-> 0]
  /\ have_packet_ = FALSE /\ offset_ = 0 /\ local_index_ = 0
  /\ initialized_ = FALSE /\ expected_ = 0
  /\ recovering_ = FALSE /\ recover_next_ = 0 /\ recover_end_ = 0
  /\ failed_ = FALSE /\ end_of_session_ = FALSE
  /\ gaps_detected_ = 0 /\ messages_missed_ = 0 /\ messages_decoded_ = 0
  /\ last_sequence_ = 0
  /\ received = 0 /\ ended = FALSE /\ decoded = <<>>

-----------------------------------------------------------------------------
(* failed_ = true; return false *)
Fail == failed_' = TRUE /\ ended' = TRUE

(* decode_message on message m, which the connector numbers `sequence`.    *)
(* event.sequence is that number.                                          *)
Decode(sequence, m) ==
  /\ decoded' = Append(decoded, [sequence |-> sequence, message |-> m])
  /\ messages_decoded_' = IF Stream[m] = "Event" THEN messages_decoded_ + 1
                                                 ELSE messages_decoded_
  /\ IF Stream[m] = "Malformed" THEN Fail ELSE UNCHANGED <<failed_, ended>>

-----------------------------------------------------------------------------
(* Gap recovery, the first half of next() *)

(* Mutant: the end of the gap is taken to be part of it. *)
Recovering_Inclusive == ~ended /\ recovering_ /\ recover_next_ <= recover_end_

Recovering == ~ended /\ recovering_ /\ recover_next_ < recover_end_

(* retransmit_->recover has the message. *)
RecoverMessage ==
  /\ Recovering
  /\ recover_next_' = recover_next_ + 1
  /\ Decode(recover_next_, recover_next_)
  /\ last_sequence_' = IF Stream[recover_next_] = "Event" THEN recover_next_
                                                          ELSE last_sequence_
  /\ UNCHANGED <<retransmit_, packet_vars, initialized_, expected_,
                 recovering_, recover_end_, end_of_session_, gaps_detected_,
                 messages_missed_, received>>

(* Mutant: a number that cannot be recovered is not counted. *)
RecoverNothing_Silent ==
  /\ Recovering
  /\ recover_next_' = recover_next_ + 1
  /\ UNCHANGED <<retransmit_, packet_vars, initialized_, expected_,
                 recovering_, recover_end_, failed_, end_of_session_,
                 counters, received, ended, decoded>>

(* It does not. *)
RecoverNothing ==
  /\ Recovering
  /\ recover_next_' = recover_next_ + 1
  /\ messages_missed_' = messages_missed_ + 1
  /\ UNCHANGED <<retransmit_, packet_vars, initialized_, expected_,
                 recovering_, recover_end_, failed_, end_of_session_,
                 gaps_detected_, messages_decoded_, last_sequence_, received,
                 ended, decoded>>

-----------------------------------------------------------------------------
(* The live packet, the second half *)

(* Past the recovery test, which resets recovering_. *)
Live == ~ended /\ (recovering_ => recover_next_ >= recover_end_)

PacketDone == ~have_packet_ \/ local_index_ >= packet_.count

(* read_block succeeds and the message is decoded. *)
ReadBlock ==
  /\ Live /\ ~PacketDone /\ offset_ < packet_.blocks
  /\ LET message_sequence == packet_.sequence + local_index_ IN
     /\ expected_' = message_sequence + 1
     /\ last_sequence_' = message_sequence
     /\ Decode(message_sequence, packet_.sequence + offset_)
  /\ offset_' = offset_ + 1 /\ local_index_' = local_index_ + 1
  /\ recovering_' = FALSE
  /\ UNCHANGED <<retransmit_, packet_, have_packet_, initialized_,
                 recover_next_, recover_end_, end_of_session_, gaps_detected_,
                 messages_missed_, received>>

(* read_block finds the framing cut short. *)
ReadTruncated ==
  /\ Live /\ ~PacketDone /\ offset_ >= packet_.blocks
  /\ Fail
  /\ recovering_' = FALSE
  /\ UNCHANGED <<retransmit_, packet_vars, initialized_, expected_,
                 recover_next_, recover_end_, end_of_session_, counters,
                 received, decoded>>

-----------------------------------------------------------------------------
(* load_next_packet: one turn of its loop *)

(* source_->next_datagram() returns a datagram. *)
Receive == /\ Live /\ PacketDone
           /\ received < MaxDatagrams /\ received' = received + 1
           /\ UNCHANGED <<retransmit_, messages_decoded_, last_sequence_,
                          decoded>>

(* It is too small for a header. *)
LoadUnparsable ==
  /\ Receive
  /\ Fail
  /\ have_packet_' = FALSE /\ recovering_' = FALSE
  /\ UNCHANGED <<packet_, offset_, local_index_, initialized_, expected_,
                 recover_next_, recover_end_, end_of_session_, gaps_detected_,
                 messages_missed_>>

(* Mutant: skipped messages are not read past. *)
Install_OffsetAtStart(d, index, have) ==
  /\ packet_' = d /\ have_packet_' = have
  /\ offset_' = 0 /\ local_index_' = index

(* It becomes packet_, read up to its index-th message; have_packet_ is    *)
(* whether load_next_packet returns it.                                    *)
Install(d, index, have) ==
  /\ packet_' = d /\ have_packet_' = have
  /\ offset_' = index /\ local_index_' = index

(* A heartbeat or an end of session; the loop goes on. *)
LoadControl(d) ==
  /\ Receive
  /\ Install(d, 0, FALSE)
  /\ end_of_session_' = (end_of_session_ \/ d.count = kMoldEndOfSession)
  /\ recovering_' = FALSE
  /\ UNCHANGED <<initialized_, expected_, recover_next_, recover_end_,
                 failed_, gaps_detected_, messages_missed_, ended>>

(* Mutant: every packet sets it. *)
Expected_Always(d) == d.sequence

(* The number the connector waits for; the first packet sets it. *)
Expected(d) == IF initialized_ THEN expected_ ELSE d.sequence

LoadInOrder(d) ==
  /\ Receive
  /\ d.sequence = Expected(d)
  /\ Install(d, 0, TRUE)
  /\ initialized_' = TRUE /\ expected_' = d.sequence
  /\ recovering_' = FALSE
  /\ UNCHANGED <<recover_next_, recover_end_, failed_, end_of_session_,
                 gaps_detected_, messages_missed_, ended>>

(* Numbers were skipped: recover them first, or count them as missed. *)
LoadGap(d) ==
  /\ Receive
  /\ d.sequence > Expected(d)
  /\ Install(d, 0, TRUE)
  /\ gaps_detected_' = gaps_detected_ + 1
  /\ recovering_' = retransmit_
  /\ IF retransmit_
       THEN /\ recover_next_' = expected_ /\ recover_end_' = d.sequence
            /\ UNCHANGED <<expected_, messages_missed_>>
       ELSE /\ messages_missed_' = messages_missed_ + d.sequence - expected_
            /\ expected_' = d.sequence
            /\ UNCHANGED <<recover_next_, recover_end_>>
  /\ UNCHANGED <<initialized_, failed_, end_of_session_, ended>>

(* Numbers come again: their blocks are read and dropped, and a packet     *)
(* with nothing new is passed over.                                        *)
LoadOverlap(d) ==
  /\ Receive
  /\ d.sequence < Expected(d)
  /\ LET already_seen == expected_ - d.sequence
         skipped == IF already_seen < d.count THEN already_seen ELSE d.count
     IN  IF skipped > d.blocks
           THEN Fail /\ Install(d, d.blocks, FALSE)
           ELSE /\ Install(d, skipped, skipped < d.count)
                /\ UNCHANGED <<failed_, ended>>
  /\ recovering_' = FALSE
  /\ UNCHANGED <<initialized_, expected_, recover_next_, recover_end_,
                 end_of_session_, gaps_detected_, messages_missed_>>

(* next_datagram() returns nothing: the end, or the source failed. *)
SourceEnds(source_failed) ==
  /\ Live /\ PacketDone
  /\ failed_' = (failed_ \/ source_failed)
  /\ ended' = TRUE
  /\ have_packet_' = FALSE /\ recovering_' = FALSE
  /\ UNCHANGED <<retransmit_, packet_, offset_, local_index_, initialized_,
                 expected_, recover_next_, recover_end_, end_of_session_,
                 counters, received, decoded>>

-----------------------------------------------------------------------------
Next ==
  \/ RecoverMessage \/ RecoverNothing
  \/ ReadBlock \/ ReadTruncated
  \/ LoadUnparsable
  \/ \E d \in Control : LoadControl(d)
  \/ \E d \in Datagram : LoadInOrder(d) \/ LoadGap(d) \/ LoadOverlap(d)
  \/ \E source_failed \in BOOLEAN : SourceEnds(source_failed)

Spec == Init /\ [][Next]_vars

-----------------------------------------------------------------------------
MoldTypeOK ==
  /\ retransmit_ \in BOOLEAN /\ initialized_ \in BOOLEAN
  /\ packet_ \in Datagram \cup Control
  /\ have_packet_ \in BOOLEAN
  /\ offset_ \in 0 .. MaxCount /\ local_index_ \in 0 .. MaxCount
  /\ expected_ \in 0 .. Len(Stream) + 1
  /\ recovering_ \in BOOLEAN
  /\ recover_next_ \in 0 .. Len(Stream) /\ recover_end_ \in 0 .. Len(Stream)
  /\ failed_ \in BOOLEAN /\ end_of_session_ \in BOOLEAN /\ ended \in BOOLEAN
  /\ gaps_detected_ \in Nat /\ messages_missed_ \in Nat
  /\ messages_decoded_ \in Nat
  /\ last_sequence_ \in 0 .. Len(Stream)
  /\ received \in 0 .. MaxDatagrams
  /\ decoded \in Seq([sequence : Sequence, message : Sequence])

(* The first number not yet dealt with: expected_ only follows a recovery  *)
(* when the first block of the live packet is read.                        *)
Frontier == IF recover_next_ > expected_ THEN recover_next_ ELSE expected_

(* Whatever arrives, in whatever order and however often: a message is     *)
(* decoded at most once and in the exchange's order, recovered messages    *)
(* spliced in before the packet that revealed the gap, and the number an   *)
(* event carries is the number of the message it was decoded from.         *)
DecodedInOrder ==
  \A i \in DOMAIN decoded :
    /\ decoded[i].sequence = decoded[i].message
    /\ decoded[i].sequence < Frontier
    /\ i > 1 => decoded[i - 1].sequence < decoded[i].sequence

(* From the first message on nothing is lost in silence: every number that *)
(* was passed over was decoded or is counted in messages_missed(), and a   *)
(* loss shows as a gap.  (README.md:115-119)                               *)
LossesAreCounted ==
  LET first == IF decoded = <<>> THEN Frontier ELSE decoded[1].sequence IN
  /\ Len(decoded) + messages_missed_ = Frontier - first
  /\ gaps_detected_ = 0 => messages_missed_ = 0

(* Once passed, a number is never gone back to: a late or repeated         *)
(* datagram neither moves the connector back nor makes it deliver again,   *)
(* and the numbers of delivered events only grow.                          *)
NeverGoesBack ==
  [][/\ Frontier' >= Frontier
     /\ messages_decoded_' > messages_decoded_ => last_sequence_' > last_sequence_
    ]_vars
=============================================================================
