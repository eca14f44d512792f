---------------------------- MODULE AsyncLogger ----------------------------
(***************************************************************************)
(* hp::base::AsyncLogger: producers put records into a ring of slots, one   *)
(* consumer thread takes them in batches and writes them to a stream.       *)
(* Stopping refuses further records, lets the consumer empty the ring and   *)
(* joins it.                                                                *)
(***************************************************************************)
EXTENDS Integers, Sequences

CONSTANTS
  Slots,          \* size of slots_, kCapacity
  kBatchRecords,
  Stoppers,       \* threads that call stopAsyncLogging
  MaxSubmitted    \* bound of the model on calls of submitLogRecord

ASSUME LoggerAssumption ==
  Slots \in Nat \ {0} /\ kBatchRecords \in Nat \ {0} /\ MaxSubmitted \in Nat

VARIABLES
  slots, head, size, accepting, stats,   \* members guarded by mutex_
  consumer,   \* the consumer thread: "test", "asleep", "write", "settle", "over"
  batch,      \* recordBatch
  written,    \* result of writeRecordBatch
  sink,       \* what the stream has taken
  broken,     \* the stream has failed, and stays so
  stopper     \* per thread: "idle", "told", "joining", "returned"

vars == <<slots, head, size, accepting, stats, consumer, batch, written, sink, broken, stopper>>

Records == [id : 1 .. MaxSubmitted, truncated : BOOLEAN]
NoRecord == [id |-> 0, truncated |-> FALSE]

Init ==
  /\ slots = [i \in 0 .. Slots - 1 |-> NoRecord] /\ head = 0 /\ size = 0
  /\ accepting = TRUE
  /\ stats = [submitted |-> 0, accepted |-> 0, droppedFull |-> 0, rejectedStopped |-> 0,
              truncated |-> 0, written |-> 0, failed |-> 0, pending |-> 0]
  /\ consumer = "test" /\ batch = << >> /\ written = FALSE
  /\ sink = << >> /\ broken = FALSE
  /\ stopper = [t \in Stoppers |-> "idle"]

(* notify_one; a thread that is not waiting hears nothing.                  *)
Notified == IF consumer = "asleep" THEN "test" ELSE consumer

(* The slot behind the last record.                                         *)
LastSlot == (head + size - 1) % Slots
NextSlot == (head + size) % Slots

Full    == size = Slots

(* submitLogRecord: a record too long for its slot is cut.                  *)
submitLogRecord(long) ==
  /\ stats.submitted < MaxSubmitted
  /\ LET s == [stats EXCEPT !.submitted = @ + 1]
     IN IF ~accepting
        THEN stats' = [s EXCEPT !.rejectedStopped = @ + 1] /\ UNCHANGED <<slots, size, consumer>>
        ELSE IF Full
        THEN stats' = [s EXCEPT !.droppedFull = @ + 1] /\ UNCHANGED <<slots, size, consumer>>
        ELSE /\ slots' = [slots EXCEPT ![NextSlot] = [id |-> s.submitted, truncated |-> long]]
             /\ stats' = [s EXCEPT !.accepted = @ + 1, !.pending = @ + 1,
                                   !.truncated = IF long THEN @ + 1 ELSE @]
             /\ size' = size + 1
             /\ consumer' = Notified
  /\ UNCHANGED <<head, accepting, batch, written, sink, broken, stopper>>

recordsReady == size # 0 \/ ~accepting

(* The consumer holds the mutex and looks: it sleeps, or ends, or takes up  *)
(* to a batch.                                                              *)
EndsWhenStopped == ~accepting
MayEnd == size = 0

consumeRecords ==
  /\ consumer = "test"
  /\ IF ~recordsReady
     THEN consumer' = "asleep" /\ UNCHANGED <<head, size, batch>>
     ELSE IF MayEnd
     THEN consumer' = "over" /\ UNCHANGED <<head, size, batch>>
     ELSE LET n == IF size < kBatchRecords THEN size ELSE kBatchRecords
          IN /\ batch' = [i \in 1 .. n |-> slots[(head + i - 1) % Slots]]
             /\ head' = (head + n) % Slots
             /\ size' = size - n
             /\ consumer' = "write"
  /\ UNCHANGED <<slots, accepting, stats, written, sink, broken, stopper>>

(* Without the mutex: the stream takes the batch or fails.                  *)
writeRecordBatch ==
  /\ consumer = "write"
  /\ consumer' = "settle"
  /\ \/ ~broken /\ sink' = sink \o batch /\ written' = TRUE /\ UNCHANGED broken
     \/ broken' = TRUE /\ written' = FALSE /\ UNCHANGED sink
  /\ UNCHANGED <<slots, head, size, accepting, stats, batch, stopper>>

(* With the mutex again: the batch is accounted for.                        *)
Settled ==
  LET n == Len(batch)
  IN [stats EXCEPT !.written = IF written THEN @ + n ELSE @,
                   !.failed = IF written THEN @ ELSE @ + n,
                   !.pending = @ - n]

SettleBatch ==
  /\ consumer = "settle"
  /\ stats' = Settled
  /\ batch' = << >> /\ written' = FALSE
  /\ consumer' = "test"
  /\ UNCHANGED <<slots, head, size, accepting, sink, broken, stopper>>

(* A condition variable may wake a thread for no reason.                    *)
SpuriousWakeup ==
  /\ consumer = "asleep"
  /\ consumer' = "test"
  /\ UNCHANGED <<slots, head, size, accepting, stats, batch, written, sink, broken, stopper>>

(* stopAsyncLogging: under mutex_ the flag; then, under joinMutex_, the     *)
(* first thread joins and the others find nothing left to join.             *)
StopQuietly == consumer
StopNotified == Notified

stopAsyncLogging(t) ==
  /\ stopper[t] = "idle"
  /\ accepting' = FALSE
  /\ consumer' = StopNotified
  /\ stopper' = [stopper EXCEPT ![t] = "told"]
  /\ UNCHANGED <<slots, head, size, stats, batch, written, sink, broken>>

LockJoin(t) ==
  /\ stopper[t] = "told" /\ \A u \in Stoppers : stopper[u] # "joining"
  /\ stopper' = [stopper EXCEPT ![t] = "joining"]
  /\ UNCHANGED <<slots, head, size, accepting, stats, consumer, batch, written, sink, broken>>

Join(t) ==
  /\ stopper[t] = "joining" /\ consumer = "over"
  /\ stopper' = [stopper EXCEPT ![t] = "returned"]
  /\ UNCHANGED <<slots, head, size, accepting, stats, consumer, batch, written, sink, broken>>

Consumer == consumeRecords \/ writeRecordBatch \/ SettleBatch

Next ==
  \/ \E long \in BOOLEAN : submitLogRecord(long)
  \/ Consumer \/ SpuriousWakeup
  \/ \E t \in Stoppers : stopAsyncLogging(t) \/ LockJoin(t) \/ Join(t)
  \/ (\A t \in Stoppers : stopper[t] = "returned") /\ UNCHANGED vars

Spec == Init /\ [][Next]_vars

(* The consumer thread runs; a thread that has begun to stop goes on.       *)
FairSpec ==
  Spec /\ WF_vars(Consumer) /\ \A t \in Stoppers : WF_vars(LockJoin(t)) /\ WF_vars(Join(t))

-----------------------------------------------------------------------------
(* What must hold.                                                          *)

Counts == LET Count == 0 .. MaxSubmitted
          IN [submitted : Count, accepted : Count, droppedFull : Count, rejectedStopped : Count,
              truncated : Count, written : Count, failed : Count, pending : Count]

TypeOK ==
  /\ slots \in [0 .. Slots - 1 -> Records \cup {NoRecord}]
  /\ head \in 0 .. Slots - 1 /\ size \in 0 .. Slots
  /\ accepting \in BOOLEAN /\ written \in BOOLEAN /\ broken \in BOOLEAN
  /\ stats \in Counts
  /\ consumer \in {"test", "asleep", "write", "settle", "over"}
  /\ batch \in Seq(Records) /\ Len(batch) <= kBatchRecords
  /\ sink \in Seq(Records)
  /\ stopper \in [Stoppers -> {"idle", "told", "joining", "returned"}]

(* The published counters always add up, also while a batch is out of the   *)
(* ring and not yet accounted for: no record is counted twice or forgotten. *)
(* When a call of stopAsyncLogging has returned, every accepted record has  *)
(* been written or reported as failed, and the sink holds all of them       *)
(* unless it failed.                                                        *)
StopFlushes ==
  /\ TypeOK
  /\ stats.submitted = stats.accepted + stats.droppedFull + stats.rejectedStopped
  /\ stats.accepted = stats.written + stats.failed + stats.pending
  /\ stats.pending = size + Len(batch)
  /\ (\E t \in Stoppers : stopper[t] = "returned") =>
       stats.pending = 0 /\ (~broken => Len(sink) = stats.accepted)

(* Ring, batch and stream together implement the queue of LogQueue.         *)
Waiting == [i \in 1 .. size |-> slots[(head + i - 1) % Slots]]

Abstract == INSTANCE LogQueue WITH
  Capacity <- Slots, Line <- Records, broken <- broken, sink <- sink,
  queue <- (IF consumer = "settle" THEN << >> ELSE batch) \o Waiting

QueueImplemented == Abstract!Spec

(* A call of stopAsyncLogging returns, however many records are waiting and *)
(* whoever else is stopping the logger.                                     *)
StopReturns == \A t \in Stoppers : stopper[t] = "told" ~> stopper[t] = "returned"

=============================================================================
