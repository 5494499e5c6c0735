--------------------------- MODULE ReplayPipeline ---------------------------
(***************************************************************************)
(* src/Main.cpp: market_replay.  A producer thread reads the CSV file      *)
(* through CSVReplayConnector and pushes its events into the SPSC queue; a *)
(* consumer thread pops them and applies them to the order book until the  *)
(* queue looks empty and producer_done is set; main joins both and prints  *)
(* the counters, or the producer's error.                                  *)
(*                                                                         *)
(* The queue is SpscQueue, step for step.  An event is its ordinal; what   *)
(* the book does with it is the business of OrderBook, so `processed`      *)
(* stands for the counters (applied + rejected is its length).             *)
(***************************************************************************)
EXTENDS SpscQueue

CONSTANTS Files,      \* the input files: sequences of lines
          Comment,    \* a line next() skips: blank, '#' or header
          Malformed   \* a line parse_csv_event throws on

(* A line is one of the two above or an event. *)
ASSUME FilesAssumption ==
  /\ Comment \notin Item /\ Malformed \notin Item
  /\ \A f \in Files : f \in Seq(Item \cup {Comment, Malformed})

VARIABLES
  file,            \* the input of this run
  line_number_,    \* how many lines the connector has read
  producer_pc, consumer_pc, main_pc,
  event,           \* the producer's local event
  producer_done, producer_error,
  processed        \* the events process_event has been called with, in order

pipeline_vars == <<file, line_number_, producer_pc, consumer_pc, main_pc,
                   event, producer_done, producer_error, processed>>
vars == <<queue_vars, pipeline_vars>>

Init ==
  /\ QueueInit
  /\ file \in Files
  /\ line_number_ = 0
  /\ producer_pc = "next" /\ consumer_pc = "pop" /\ main_pc = "join"
  /\ event = push_item
  /\ producer_done = FALSE /\ producer_error = FALSE
  /\ processed = <<>>

-----------------------------------------------------------------------------
(* The line next() stops at: the first one it does not skip, or the end. *)
NextLine ==
  CHOOSE n \in line_number_ + 1 .. Len(file) + 1 :
    /\ n <= Len(file) => file[n] # Comment
    /\ \A m \in line_number_ + 1 .. n - 1 : file[m] = Comment

(* Mutant: a malformed line is passed on as an event. *)
ReadEvent_NoThrow ==
  /\ producer_pc = "next"
  /\ line_number_' = NextLine
  /\ IF NextLine > Len(file)
       THEN producer_pc' = "done" /\ UNCHANGED event
       ELSE producer_pc' = "push" /\ event' = file[NextLine]
  /\ UNCHANGED <<queue_vars, file, consumer_pc, main_pc, producer_done,
                 producer_error, processed>>

(* connector.next(event), and the catch around the producer's loop.  Of    *)
(* parse_csv_event and its helpers only the outcome is kept: an event or   *)
(* an exception, fixed line by line in the file.  The constructor's throw  *)
(* on a file it cannot open is caught there too, with the effect of a file *)
(* whose first line is malformed.                                          *)
ReadEvent ==
  /\ producer_pc = "next"
  /\ line_number_' = NextLine
  /\ IF NextLine > Len(file)
       THEN producer_pc' = "done" /\ UNCHANGED <<event, producer_error>>
       ELSE IF file[NextLine] = Malformed
         THEN /\ producer_pc' = "done"
              /\ producer_error' = TRUE
              /\ UNCHANGED event
         ELSE /\ producer_pc' = "push"
              /\ event' = file[NextLine]
              /\ UNCHANGED producer_error
  /\ UNCHANGED <<queue_vars, file, consumer_pc, main_pc, producer_done,
                 processed>>

(* Mutant: one try_push without the retry loop, its result ignored. *)
TryPush_NoRetry(tail) ==
  /\ producer_pc = "push"
  /\ \/ PushFull(tail) /\ producer_pc' = "next"
     \/ PushRoom(event, tail) /\ UNCHANGED producer_pc
  /\ UNCHANGED <<file, line_number_, consumer_pc, main_pc, event,
                 producer_done, producer_error, processed>>

(* One try_push of the retry loop; a failing one yields and tries again. *)
TryPush(tail) ==
  /\ producer_pc = "push"
  /\ PushFull(tail) \/ PushRoom(event, tail)
  /\ UNCHANGED pipeline_vars

PushStore == PushWrite /\ UNCHANGED pipeline_vars

PushDone ==
  /\ PushPublish
  /\ producer_pc' = "next"
  /\ UNCHANGED <<file, line_number_, consumer_pc, main_pc, event,
                 producer_done, producer_error, processed>>

(* Mutant: producer_done is stored inside the try block. *)
StoreProducerDone_NotOnError ==
  /\ producer_pc = "done"
  /\ producer_done' = ~producer_error
  /\ producer_pc' = "exited"
  /\ UNCHANGED <<queue_vars, file, line_number_, consumer_pc, main_pc, event,
                 producer_error, processed>>

StoreProducerDone ==
  /\ producer_pc = "done"
  /\ producer_done' = TRUE
  /\ producer_pc' = "exited"
  /\ UNCHANGED <<queue_vars, file, line_number_, consumer_pc, main_pc, event,
                 producer_error, processed>>

-----------------------------------------------------------------------------
TryPop(head) ==
  /\ consumer_pc = "pop"
  /\ \/ PopReady(head) /\ UNCHANGED consumer_pc
     \/ PopEmpty(head) /\ consumer_pc' = "check"
  /\ UNCHANGED <<file, line_number_, producer_pc, main_pc, event,
                 producer_done, producer_error, processed>>

PopLoadItem == PopRead /\ UNCHANGED pipeline_vars

PopDone ==
  /\ PopPublish
  /\ consumer_pc' = "process"
  /\ UNCHANGED <<file, line_number_, producer_pc, main_pc, event,
                 producer_done, producer_error, processed>>

(* book.process_event(event), and the counter that goes with its result. *)
ProcessEvent ==
  /\ consumer_pc = "process"
  /\ processed' = Append(processed, pop_item)
  /\ consumer_pc' = "pop"
  /\ UNCHANGED <<queue_vars, file, line_number_, producer_pc, main_pc, event,
                 producer_done, producer_error>>

(* The load of producer_done after a failed pop, which may still return    *)
(* the initial value: break, or yield and pop again.                       *)
LoadProducerDone(done) ==
  /\ consumer_pc = "check"
  /\ done => producer_done
  /\ consumer_pc' = IF done THEN "exited" ELSE "pop"
  /\ UNCHANGED <<queue_vars, file, line_number_, producer_pc, main_pc, event,
                 producer_done, producer_error, processed>>

(* Both joins, then the report on stdout or the rethrown error. *)
JoinAndReport ==
  /\ main_pc = "join"
  /\ producer_pc = "exited" /\ consumer_pc = "exited"
  /\ main_pc' = IF producer_error THEN "error" ELSE "report"
  /\ UNCHANGED <<queue_vars, file, line_number_, producer_pc, consumer_pc,
                 event, producer_done, producer_error, processed>>

-----------------------------------------------------------------------------
Producer == \/ ReadEvent \/ PushStore \/ PushDone \/ StoreProducerDone
            \/ \E tail \in Index : TryPush(tail)
Consumer == \/ PopLoadItem \/ PopDone \/ ProcessEvent
            \/ \E head \in Index : TryPop(head)
            \/ \E done \in BOOLEAN : LoadProducerDone(done)
Exited == main_pc # "join" /\ UNCHANGED vars

Next == Producer \/ Consumer \/ JoinAndReport \/ Exited

(* The scheduler runs every runnable thread, and a store becomes visible   *)
(* to a thread that keeps loading (C++ [atomics.order]: "within a          *)
(* reasonable amount of time"), so a spinning load is not stale for ever.  *)
Fairness ==
  /\ WF_vars(Producer) /\ WF_vars(Consumer) /\ WF_vars(JoinAndReport)
  /\ SF_vars(TryPush(tail_))
  /\ SF_vars(TryPop(head_))
  /\ SF_vars(LoadProducerDone(producer_done))

Spec == Init /\ [][Next]_vars /\ Fairness

-----------------------------------------------------------------------------
PipelineTypeOK ==
  /\ QueueTypeOK
  /\ line_number_ \in 0 .. Len(file) + 1
  /\ producer_pc \in {"next", "push", "done", "exited"}
  /\ consumer_pc \in {"pop", "check", "process", "exited"}
  /\ main_pc \in {"join", "report", "error"}
  /\ event \in Item
  /\ producer_done \in BOOLEAN /\ producer_error \in BOOLEAN
  /\ processed \in Seq(Item)

(* The events of the first n lines of a file, for every n. *)
Events(lines) ==
  LET upto[n \in 0 .. Len(lines)] ==
        IF n = 0 THEN <<>>
        ELSE IF lines[n] \in Item THEN Append(upto[n - 1], lines[n])
        ELSE upto[n - 1]
  IN  upto

(* The events of the lines the connector has read. *)
EventsRead ==
  Events(file)[IF line_number_ <= Len(file) THEN line_number_ ELSE Len(file)]

(* Where an event read from the file is: processed, popped but not yet     *)
(* processed, in the ring, or held by the producer.                        *)
InTransit ==
  (IF consumer_pc = "process" THEN <<pop_item>> ELSE <<>>)
    \o Contents
    \o (IF producer_pc = "push" THEN <<event>> ELSE <<>>)

(* At every moment the events read from the file are, in file order, those *)
(* processed followed by those in transit: the two threads, the queue and  *)
(* the retry loop of the producer lose, repeat and reorder nothing, on the *)
(* error path of a malformed line either.                                  *)
EveryEventAccountedFor == processed \o InTransit = EventsRead

(* market_replay ends, with a report or with an error, whatever the file   *)
(* and however full the queue gets: a producer waiting for room and a      *)
(* consumer waiting for events never wait for each other.                  *)
Terminates == <>(main_pc # "join")

(* README.md:3-5: the replay is deterministic, "transfers normalized       *)
(* events through a bounded SPSC queue, and applies them".  When it        *)
(* reports, it has applied every event of the file.                        *)
ReportCoversFile ==
  main_pc = "report" => processed = Events(file)[Len(file)]
=============================================================================
