--------------------------- MODULE AsyncLoggerProofs ---------------------------
(***************************************************************************)
(* Why the asynchronous logger loses no accepted record when it is stopped, *)
(* and why its ring, batch and stream are a FIFO queue, for any size of the *)
(* ring and of a batch, any number of records and of stopping threads.      *)
(***************************************************************************)
EXTENDS AsyncLogger, SequenceTheorems, TLAPS

(* The counters add up; the record set of the counters alone bounds them.   *)
Counted ==
  /\ stats.submitted = stats.accepted + stats.droppedFull + stats.rejectedStopped
  /\ stats.accepted = stats.written + stats.failed + stats.pending
  /\ stats.pending = size + Len(batch)
  /\ stats.truncated <= stats.accepted

(* What the places of the threads say about what they share.                *)
Places ==
  /\ batch # << >> <=> consumer \in {"write", "settle"}
  /\ Len(batch) <= Slots
  /\ consumer = "over" => size = 0 /\ ~accepting
  /\ \A t \in Stoppers : /\ stopper[t] # "idle" => ~accepting
                         /\ stopper[t] = "returned" => consumer = "over"

(* A stream that has not failed has taken what was counted as written, and  *)
(* the batch that is about to be.                                           *)
Flushed ==
  ~broken => /\ stats.failed = 0
             /\ consumer = "settle" => written
             /\ Len(sink) = stats.written + (IF consumer = "settle" THEN Len(batch) ELSE 0)

(* The slots between head and tail hold records.                            *)
Filled == \A i \in 1 .. size : slots[(head + i - 1) % Slots] \in Records

Inv == TypeOK /\ Counted /\ Places /\ Flushed /\ Filled

-----------------------------------------------------------------------------
(* An index of the ring wraps at most once.                                 *)
LEMMA Wrap ==
  ASSUME NEW a \in Nat, a < Slots + Slots
  PROVE  a % Slots = IF a < Slots THEN a ELSE a - Slots
<1>1. Slots \in Nat /\ Slots > 0
  BY LoggerAssumption
<1>2. CASE a < Slots
  BY <1>1, <1>2
<1>3. CASE a >= Slots
  BY <1>1, <1>3
<1>. QED
  BY <1>1, <1>2, <1>3

(* Two of the first Slots places behind head are two slots.                 *)
LEMMA SlotsApart ==
  ASSUME NEW h \in 0 .. Slots - 1, NEW i \in 0 .. Slots - 1, NEW j \in 0 .. Slots - 1, i # j
  PROVE  /\ (h + i) % Slots \in 0 .. Slots - 1
         /\ (h + i) % Slots # (h + j) % Slots
<1>1. Slots \in Nat /\ Slots > 0
  BY LoggerAssumption
<1>2. h + i \in Nat /\ h + i < Slots + Slots /\ h + j \in Nat /\ h + j < Slots + Slots
  BY <1>1
<1>. QED
  BY <1>1, <1>2, Wrap

(* Advancing head by n and then going i on is going n + i on.               *)
LEMMA Advance ==
  ASSUME NEW h \in 0 .. Slots - 1, NEW n \in Nat, NEW i \in Nat, n + i < Slots
  PROVE  /\ (h + n) % Slots \in 0 .. Slots - 1
         /\ (((h + n) % Slots) + i) % Slots = (h + (n + i)) % Slots
<1>1. Slots \in Nat /\ Slots > 0
  BY LoggerAssumption
<1>2. /\ h + n \in Nat /\ h + n < Slots + Slots
      /\ h + (n + i) \in Nat /\ h + (n + i) < Slots + Slots
  BY <1>1
<1>3. (h + n) % Slots = IF h + n < Slots THEN h + n ELSE h + n - Slots
  BY <1>1, <1>2, Wrap
<1>4. (h + n) % Slots \in 0 .. Slots - 1
  BY <1>1, <1>2, <1>3
<1>5. ((h + n) % Slots) + i \in Nat /\ ((h + n) % Slots) + i < Slots + Slots
  BY <1>1, <1>4
<1>. DEFINE there == ((h + n) % Slots) + i
<1>6. there % Slots = IF there < Slots THEN there ELSE there - Slots
  BY <1>1, <1>5, Wrap
<1>7. (h + (n + i)) % Slots = IF h + (n + i) < Slots THEN h + (n + i) ELSE h + (n + i) - Slots
  BY <1>1, <1>2, Wrap
<1>. QED
  BY <1>1, <1>3, <1>4, <1>6, <1>7

(* The logger starts with an empty ring.                                    *)
LEMMA InitInv == Init => Inv
<1>. SUFFICES ASSUME Init PROVE Inv
  OBVIOUS
<1>. USE DEF Init
<1>0. Slots \in Nat /\ Slots > 0 /\ kBatchRecords \in Nat /\ MaxSubmitted \in Nat
  BY LoggerAssumption
<1>1. stats \in Counts
  BY <1>0 DEF Counts
<1>2. TypeOK
  BY SMTT(30), <1>0, <1>1 DEF TypeOK
<1>3. Counted /\ Flushed
  BY DEF Counted, Flushed
<1>4. Places /\ Filled
  BY <1>0 DEF Places, Filled
<1>. QED
  BY <1>2, <1>3, <1>4 DEF Inv

(* Ring, batch and stream have sizes.                                       *)
Sizes ==
  /\ Slots \in Nat /\ Slots > 0 /\ kBatchRecords \in Nat /\ kBatchRecords > 0 /\ MaxSubmitted \in Nat
  /\ head \in 0 .. Slots - 1 /\ size \in 0 .. Slots /\ Len(batch) \in Nat /\ Len(sink) \in Nat

(* The counters are numbers, and the calls are bounded.                     *)
Sums ==
  /\ MaxSubmitted \in Nat /\ stats.submitted <= MaxSubmitted
  /\ stats.submitted \in Nat /\ stats.accepted \in Nat /\ stats.droppedFull \in Nat
  /\ stats.rejectedStopped \in Nat /\ stats.truncated \in Nat /\ stats.written \in Nat
  /\ stats.failed \in Nat /\ stats.pending \in Nat

(* The invariant gives both.                                                *)
LEMMA Numbers == Inv => Sizes /\ Sums
BY LoggerAssumption DEF Inv, TypeOK, Counts, Sizes, Sums

(* No counter exceeds the number of calls, nor does one a batch is added to.*)
LEMMA Totals ==
  ASSUME Counted, Sizes, Sums
  PROVE  /\ stats.accepted + stats.droppedFull + stats.rejectedStopped <= MaxSubmitted
         /\ stats.pending - Len(batch) \in 0 .. MaxSubmitted
         /\ stats.written + Len(batch) \in 0 .. MaxSubmitted
         /\ stats.failed + Len(batch) \in 0 .. MaxSubmitted
<1>1. stats.accepted + stats.droppedFull + stats.rejectedStopped <= MaxSubmitted
  BY DEF Counted, Sums
<1>2. stats.pending \in Nat /\ Len(batch) \in Nat /\ Len(batch) <= stats.pending
  BY DEF Counted, Sizes, Sums
<1>3. stats.written + stats.failed + stats.pending <= MaxSubmitted
  BY SMTT(30) DEF Counted, Sums
<1>4. stats.pending <= MaxSubmitted
  BY <1>2, <1>3 DEF Sums
<1>5. /\ stats.written + Len(batch) \in Nat /\ stats.written + Len(batch) <= MaxSubmitted
      /\ stats.failed + Len(batch) \in Nat /\ stats.failed + Len(batch) <= MaxSubmitted
  <2>1. stats.written + stats.pending <= MaxSubmitted /\ stats.failed + stats.pending <= MaxSubmitted
    BY <1>3 DEF Sums
  <2>2. stats.written \in Nat /\ stats.failed \in Nat /\ MaxSubmitted \in Nat
    BY DEF Sums
  <2>. QED
    BY SMTT(30), <1>2, <2>1, <2>2
<1>6. stats.pending - Len(batch) \in Nat /\ stats.pending - Len(batch) <= MaxSubmitted
  BY <1>2, <1>4 DEF Sums
<1>. QED
  BY <1>1, <1>5, <1>6 DEF Sums

(* submitLogRecord: every outcome is counted once, and a record that is     *)
(* accepted goes into the slot behind the last one.                         *)
LEMMA SubmitInv ==
  ASSUME Inv, NEW long \in BOOLEAN, submitLogRecord(long)
  PROVE  Inv'
<1>0. Sizes /\ Sums /\ Counted
  BY Numbers DEF Inv
<1>. DEFINE once == [stats EXCEPT !.submitted = @ + 1]
<1>1. stats.submitted < MaxSubmitted
      /\ UNCHANGED <<head, accepting, batch, written, sink, broken, stopper>>
  BY DEF submitLogRecord
<1>2. \/ /\ stats' = [once EXCEPT !.rejectedStopped = @ + 1] \/ stats' = [once EXCEPT !.droppedFull = @ + 1]
         /\ UNCHANGED <<slots, size, consumer>>
      \/ /\ accepting /\ size # Slots /\ size' = size + 1 /\ consumer' = Notified
         /\ slots' = [slots EXCEPT ![(head + size) % Slots] = [id |-> once.submitted, truncated |-> long]]
         /\ stats' = [once EXCEPT !.accepted = @ + 1, !.pending = @ + 1,
                                  !.truncated = IF long THEN @ + 1 ELSE @]
  BY DEF submitLogRecord, Full, NextSlot
<1>3. /\ once \in Counts /\ once.submitted = stats.submitted + 1 /\ once.accepted = stats.accepted
      /\ once.droppedFull = stats.droppedFull /\ once.rejectedStopped = stats.rejectedStopped
      /\ once.truncated = stats.truncated /\ once.pending = stats.pending
      /\ once.written = stats.written /\ once.failed = stats.failed
  <2>1. stats.submitted + 1 \in 0 .. MaxSubmitted
    BY <1>0, <1>1 DEF Sums
  <2>. QED
    BY Zenon, <2>1 DEF Inv, TypeOK, Counts
<1>. HIDE DEF once
<1>4. CASE /\ \/ stats' = [once EXCEPT !.rejectedStopped = @ + 1]
              \/ stats' = [once EXCEPT !.droppedFull = @ + 1]
           /\ UNCHANGED <<slots, size, consumer>>
  <2>1. /\ stats'.submitted = stats.submitted + 1 /\ stats'.accepted = stats.accepted
        /\ \/ stats'.droppedFull = stats.droppedFull + 1 /\ stats'.rejectedStopped = stats.rejectedStopped
           \/ stats'.droppedFull = stats.droppedFull /\ stats'.rejectedStopped = stats.rejectedStopped + 1
        /\ stats'.truncated = stats.truncated /\ stats'.pending = stats.pending
        /\ stats'.written = stats.written /\ stats'.failed = stats.failed
    BY <1>3, <1>4 DEF Counts
  <2>2. Counted'
    <3>1. (stats.submitted = stats.accepted + stats.droppedFull + stats.rejectedStopped)'
      <4>1. stats.submitted = stats.accepted + stats.droppedFull + stats.rejectedStopped
        BY <1>0 DEF Counted
      <4>2. stats.accepted \in Nat /\ stats.droppedFull \in Nat /\ stats.rejectedStopped \in Nat
        BY <1>0 DEF Sums
      <4>. QED
        BY <2>1, <4>1, <4>2
    <3>2. (stats.accepted = stats.written + stats.failed + stats.pending)'
      BY <1>0, <2>1 DEF Counted
    <3>3. (stats.pending = size + Len(batch))'
      BY <1>0, <1>1, <1>4, <2>1 DEF Counted
    <3>4. (stats.truncated <= stats.accepted)'
      BY <1>0, <2>1 DEF Counted
    <3>. QED
      BY <3>1, <3>2, <3>3, <3>4 DEF Counted
  <2>3. once.rejectedStopped + 1 \in 0 .. MaxSubmitted /\ once.droppedFull + 1 \in 0 .. MaxSubmitted
    <3>1. stats.accepted + stats.droppedFull + stats.rejectedStopped < MaxSubmitted
      BY <1>0, <1>1 DEF Counted
    <3>. QED
      BY <1>0, <1>3, <3>1 DEF Sums
  <2>4. stats' \in Counts
    BY <1>3, <1>4, <2>3 DEF Counts
  <2>5. TypeOK' /\ Filled'
    BY <1>1, <1>4, <2>4 DEF Inv, TypeOK, Filled
  <2>6. Places' /\ Flushed'
    BY <1>1, <1>4, <2>1 DEF Inv, Places, Flushed
  <2>. QED
    BY <2>2, <2>5, <2>6 DEF Inv
<1>5. CASE /\ accepting /\ size # Slots /\ size' = size + 1 /\ consumer' = Notified
           /\ slots' = [slots EXCEPT ![(head + size) % Slots] = [id |-> once.submitted, truncated |-> long]]
           /\ stats' = [once EXCEPT !.accepted = @ + 1, !.pending = @ + 1,
                                    !.truncated = IF long THEN @ + 1 ELSE @]
  <2>. DEFINE record == [id |-> once.submitted, truncated |-> long]
              cut == IF long THEN once.truncated + 1 ELSE once.truncated
  <2>1. record \in Records
    BY <1>0, <1>1, <1>3 DEF Sums, Records
  <2>2. cut \in {stats.truncated, stats.truncated + 1}
    BY <1>3
  <2>3. stats' = [once EXCEPT !.accepted = @ + 1, !.pending = @ + 1, !.truncated = cut]
    BY <1>5
  <2>. HIDE DEF record, cut
  <2>4. /\ stats'.submitted = stats.submitted + 1 /\ stats'.accepted = stats.accepted + 1
        /\ stats'.droppedFull = stats.droppedFull /\ stats'.rejectedStopped = stats.rejectedStopped
        /\ stats'.truncated = cut /\ stats'.pending = stats.pending + 1
        /\ stats'.written = stats.written /\ stats'.failed = stats.failed
    BY <1>3, <2>3 DEF Counts
  <2>5. Counted'
    <3>1. (stats.submitted = stats.accepted + stats.droppedFull + stats.rejectedStopped)'
      <4>1. stats.submitted = stats.accepted + stats.droppedFull + stats.rejectedStopped
        BY <1>0 DEF Counted
      <4>2. stats.accepted \in Nat /\ stats.droppedFull \in Nat /\ stats.rejectedStopped \in Nat
        BY <1>0 DEF Sums
      <4>. QED
        BY <2>4, <4>1, <4>2
    <3>2. (stats.accepted = stats.written + stats.failed + stats.pending)'
      <4>1. stats.accepted = stats.written + stats.failed + stats.pending
        BY <1>0 DEF Counted
      <4>2. stats.written \in Nat /\ stats.failed \in Nat /\ stats.pending \in Nat
        BY <1>0 DEF Sums
      <4>. QED
        BY <2>4, <4>1, <4>2
    <3>3. (stats.pending = size + Len(batch))'
      <4>1. stats.pending = size + Len(batch) /\ size \in Nat /\ Len(batch) \in Nat
        BY <1>0 DEF Sizes, Counted
      <4>2. size' = size + 1 /\ batch' = batch
        BY <1>1, <1>5
      <4>. QED
        BY <2>4, <4>1, <4>2
    <3>4. (stats.truncated <= stats.accepted)'
      <4>1. stats.truncated <= stats.accepted /\ stats.truncated \in Nat /\ stats.accepted \in Nat
        BY <1>0 DEF Sums, Counted
      <4>. QED
        BY <2>2, <2>4, <4>1
    <3>. QED
      BY <3>1, <3>2, <3>3, <3>4 DEF Counted
  <2>6. /\ once.accepted + 1 \in 0 .. MaxSubmitted /\ once.pending + 1 \in 0 .. MaxSubmitted
        /\ cut \in 0 .. MaxSubmitted
    <3>1. stats.accepted + stats.droppedFull + stats.rejectedStopped < MaxSubmitted
      BY <1>0, <1>1 DEF Counted
    <3>2. stats.accepted < MaxSubmitted
      BY <1>0, <3>1 DEF Sums
    <3>3. stats.truncated <= stats.accepted /\ stats.pending <= stats.accepted
      BY <1>0 DEF Sums, Counted
    <3>4. /\ stats.accepted \in Nat /\ stats.truncated \in Nat /\ stats.pending \in Nat
          /\ MaxSubmitted \in Nat
      BY <1>0 DEF Sums
    <3>. QED
      BY <1>3, <2>2, <3>2, <3>3, <3>4
  <2>7. stats' \in Counts
    BY Zenon, <1>3, <2>3, <2>6 DEF Counts
  <2>8. /\ size' \in 0 .. Slots
        /\ slots' \in [0 .. Slots - 1 -> Records \cup {NoRecord}]
    BY <1>0, <1>5, <2>1 DEF record, Inv, TypeOK, Sizes
  <2>9. consumer' = consumer \/ (consumer = "asleep" /\ consumer' = "test")
    BY <1>5 DEF Notified
  <2>10. TypeOK'
    BY <1>1, <2>7, <2>8, <2>9 DEF Inv, TypeOK
  <2>11. Filled'
    <3>. SUFFICES ASSUME NEW i \in 1 .. size + 1
                  PROVE  slots'[(head + i - 1) % Slots] \in Records
      BY <1>1, <1>5 DEF Filled
    <3>1. head + i - 1 = head + (i - 1) /\ i - 1 \in 0 .. Slots - 1 /\ size \in 0 .. Slots - 1
      BY SMTT(30), <1>0, <1>5 DEF Sizes
    <3>2. CASE i = size + 1
      <4>1. head + i - 1 = head + size /\ (head + size) % Slots \in 0 .. Slots - 1
        BY <1>0, <3>1, <3>2 DEF Sizes
      <4>. QED
        BY <1>5, <2>1, <4>1 DEF Inv, TypeOK, record
    <3>3. CASE i \in 1 .. size
      <4>1. i - 1 # size
        BY <1>0, <3>3 DEF Sizes
      <4>2. /\ (head + i - 1) % Slots \in 0 .. Slots - 1
            /\ (head + i - 1) % Slots # (head + size) % Slots
        BY <1>0, <3>1, <4>1, SlotsApart DEF Sizes
      <4>3. slots'[(head + i - 1) % Slots] = slots[(head + i - 1) % Slots]
        BY <1>5, <4>2 DEF Inv, TypeOK
      <4>. QED
        BY <3>3, <4>3 DEF Inv, Filled
    <3>. QED
      BY <1>0, <3>2, <3>3 DEF Sizes
  <2>12. Places' /\ Flushed'
    BY <1>1, <1>5, <2>4, <2>9 DEF Inv, Places, Flushed
  <2>. QED
    BY <2>5, <2>10, <2>11, <2>12 DEF Inv
<1>. QED
  BY <1>2, <1>4, <1>5

(* SettleBatch: the batch leaves the pending records and is counted as      *)
(* written or as failed.                                                    *)
LEMMA SettleInv ==
  ASSUME Inv, SettleBatch
  PROVE  Inv'
<1>1. /\ consumer = "settle" /\ consumer' = "test" /\ batch' = << >> /\ written' = FALSE
      /\ UNCHANGED <<slots, head, size, accepting, sink, broken, stopper>> /\ stats' = Settled
  BY DEF SettleBatch
<1>2. \/ written /\ stats' = [[stats EXCEPT !.written = @ + Len(batch)] EXCEPT !.pending = @ - Len(batch)]
      \/ ~written /\ stats' = [[stats EXCEPT !.failed = @ + Len(batch)] EXCEPT !.pending = @ - Len(batch)]
  BY Zenon, <1>1 DEF Settled, Inv, TypeOK, Counts
<1>3. /\ stats'.submitted = stats.submitted /\ stats'.accepted = stats.accepted
      /\ stats'.droppedFull = stats.droppedFull /\ stats'.rejectedStopped = stats.rejectedStopped
      /\ stats'.truncated = stats.truncated /\ stats'.pending = stats.pending - Len(batch)
      /\ \/ written /\ stats'.written = stats.written + Len(batch) /\ stats'.failed = stats.failed
         \/ ~written /\ stats'.written = stats.written /\ stats'.failed = stats.failed + Len(batch)
  BY ZenonT(60), <1>2 DEF Inv, TypeOK, Counts
<1>4. Len(batch') = 0 /\ Sizes /\ Sums /\ Counted
  BY <1>1, Numbers DEF Inv
<1>5. Counted'
  <2>1. (stats.submitted = stats.accepted + stats.droppedFull + stats.rejectedStopped)'
    BY <1>3, <1>4 DEF Counted
  <2>2. (stats.accepted = stats.written + stats.failed + stats.pending)'
    <3>1. stats.accepted = stats.written + stats.failed + stats.pending
      BY <1>4 DEF Counted
    <3>2. stats.written \in Nat /\ stats.failed \in Nat /\ stats.pending \in Nat /\ Len(batch) \in Nat
      BY <1>4 DEF Sums, Sizes
    <3>. QED
      BY <1>3, <3>1, <3>2
  <2>3. (stats.pending = size + Len(batch))'
    <3>1. stats.pending = size + Len(batch) /\ size \in Nat /\ Len(batch) \in Nat
      BY <1>4 DEF Sizes, Counted
    <3>. QED
      BY <1>1, <1>3, <1>4, <3>1
  <2>4. (stats.truncated <= stats.accepted)'
    BY <1>3, <1>4 DEF Counted
  <2>. QED
    BY <2>1, <2>2, <2>3, <2>4 DEF Counted
<1>6. stats' \in Counts
  <2>1. /\ stats.pending - Len(batch) \in 0 .. MaxSubmitted
        /\ stats.written + Len(batch) \in 0 .. MaxSubmitted
        /\ stats.failed + Len(batch) \in 0 .. MaxSubmitted
    BY <1>4, Totals
  <2>. QED
    BY Zenon, <1>2, <2>1 DEF Inv, TypeOK, Counts
<1>7. TypeOK' /\ Filled'
  <2>1. batch' \in Seq(Records) /\ Len(batch') <= kBatchRecords
    BY <1>1, <1>4 DEF Sizes
  <2>. QED
    BY Zenon, <1>1, <1>6, <2>1 DEF Inv, TypeOK, Filled
<1>8. Places'
  BY <1>1, <1>4 DEF Inv, Places, Sizes
<1>9. Flushed'
  <2>. SUFFICES ASSUME ~broken PROVE stats'.failed = 0 /\ Len(sink) = stats'.written
    BY <1>1 DEF Flushed
  <2>. QED
    BY <1>1, <1>3, <1>4 DEF Inv, Flushed, Sums
<1>. QED
  BY <1>5, <1>7, <1>8, <1>9 DEF Inv

(* writeRecordBatch: the stream takes the whole batch, or has failed.       *)
LEMMA WriteInv ==
  ASSUME Inv, writeRecordBatch
  PROVE  Inv'
<1>1. /\ consumer = "write" /\ consumer' = "settle"
      /\ UNCHANGED <<slots, head, size, accepting, stats, batch, stopper>>
  BY DEF writeRecordBatch
<1>2. CASE ~broken /\ sink' = sink \o batch /\ written' = TRUE /\ UNCHANGED broken
  <2>1. sink' \in Seq(Records) /\ Len(sink') = Len(sink) + Len(batch)
    BY <1>2 DEF Inv, TypeOK
  <2>2. TypeOK' /\ Counted' /\ Filled'
    BY <1>1, <1>2, <2>1 DEF Inv, TypeOK, Counted, Filled
  <2>3. Places'
    BY <1>1 DEF Inv, Places
  <2>4. Flushed'
    <3>1. stats.failed = 0 /\ Len(sink) = stats.written
      BY <1>1, <1>2, Numbers DEF Inv, Flushed, Sums
    <3>. QED
      BY <1>1, <1>2, <2>1, <3>1 DEF Flushed
  <2>. QED
    BY <2>2, <2>3, <2>4 DEF Inv
<1>3. CASE broken' = TRUE /\ written' = FALSE /\ UNCHANGED sink
  BY Zenon, <1>1, <1>3 DEF Inv, TypeOK, Counted, Filled, Places, Flushed
<1>. QED
  BY Zenon, <1>2, <1>3 DEF writeRecordBatch

(* The wakeups and the stopping threads: mutex_ orders them with the others.*)
LEMMA StopInv ==
  ASSUME Inv,
         \/ SpuriousWakeup \/ UNCHANGED vars
         \/ \E t \in Stoppers : stopAsyncLogging(t) \/ LockJoin(t) \/ Join(t)
  PROVE  Inv'
<1>. USE DEF SpuriousWakeup, stopAsyncLogging, LockJoin, Join, vars, StopNotified, Notified
<1>1. UNCHANGED <<slots, head, size, stats, batch, written, sink, broken>>
  OBVIOUS
<1>2. consumer' = consumer \/ (consumer = "asleep" /\ consumer' = "test")
  OBVIOUS
<1>8. accepting' = accepting \/ accepting' = FALSE
  OBVIOUS
<1>3. stopper' \in [Stoppers -> {"idle", "told", "joining", "returned"}]
  BY DEF Inv, TypeOK
<1>4. \A t \in Stoppers : stopper'[t] # "idle" => ~accepting'
  BY DEF Inv, TypeOK, Places
<1>5. \A t \in Stoppers : stopper'[t] = "returned" => consumer' = "over"
  BY DEF Inv, TypeOK, Places
<1>6. TypeOK' /\ Counted' /\ Filled'
  BY Zenon, <1>1, <1>2, <1>3, <1>8 DEF Inv, TypeOK, Counted, Filled
<1>7. Places' /\ Flushed'
  BY <1>1, <1>2, <1>4, <1>5, <1>8 DEF Inv, Places, Flushed
<1>. QED
  BY <1>6, <1>7 DEF Inv

(* What consumeRecords takes: the records next to head, no more than fit in *)
(* a batch.                                                                 *)
Taken(n) ==
  /\ n \in 1 .. size /\ n <= kBatchRecords
  /\ batch' = [i \in 1 .. n |-> slots[(head + i - 1) % Slots]]
  /\ head' = (head + n) % Slots /\ size' = size - n /\ consumer' = "write"

(* consumeRecords sleeps, ends, or takes a batch.                           *)
LEMMA Takes ==
  ASSUME Inv, consumeRecords
  PROVE  /\ UNCHANGED <<slots, accepting, stats, written, sink, broken, stopper>>
         /\ consumer = "test" /\ batch = << >>
         /\ \/ consumer' = "asleep" /\ UNCHANGED <<head, size, batch>>
            \/ consumer' = "over" /\ size = 0 /\ ~accepting /\ UNCHANGED <<head, size, batch>>
            \/ \E n \in Nat : Taken(n)
<1>1. /\ UNCHANGED <<slots, accepting, stats, written, sink, broken, stopper>>
      /\ consumer = "test" /\ batch = << >>
  BY DEF consumeRecords, Inv, Places
<1>. DEFINE n == IF size < kBatchRecords THEN size ELSE kBatchRecords
<1>2. CASE ~recordsReady
  BY <1>1, <1>2 DEF consumeRecords
<1>3. CASE recordsReady /\ size = 0
  BY <1>1, <1>3 DEF consumeRecords, recordsReady, MayEnd
<1>4. CASE recordsReady /\ size # 0
  <2>1. n \in Nat /\ n \in 1 .. size /\ n <= kBatchRecords
    BY <1>4, Numbers DEF Sizes
  <2>2. /\ batch' = [i \in 1 .. n |-> slots[(head + i - 1) % Slots]]
        /\ head' = (head + n) % Slots /\ size' = size - n /\ consumer' = "write"
    BY <1>4 DEF consumeRecords, MayEnd
  <2>. HIDE DEF n
  <2>. QED
    BY <1>1, <2>1, <2>2 DEF Taken
<1>. QED
  BY <1>2, <1>3, <1>4

(* What it leaves in the ring are the records behind the batch.             *)
LEMMA Leaves ==
  ASSUME Inv, NEW n \in Nat, Taken(n), UNCHANGED slots
  PROVE  /\ head' \in 0 .. Slots - 1 /\ size' \in 0 .. Slots
         /\ batch' \in Seq(Records) /\ Len(batch') = n
         /\ \A i \in 1 .. n : batch'[i] = slots[(head + i - 1) % Slots]
         /\ \A i \in 1 .. size' : /\ n + i \in 1 .. size
                                 /\ slots'[(head' + i - 1) % Slots] = slots[(head + (n + i) - 1) % Slots]
<1>0. Sizes /\ Filled
  BY Numbers DEF Inv
<1>1. head' \in 0 .. Slots - 1 /\ size' \in 0 .. Slots
  <2>1. head + n \in Nat /\ head + n < Slots + Slots
    BY <1>0 DEF Taken, Sizes
  <2>. QED
    BY <1>0, <2>1, Wrap DEF Taken, Sizes
<1>2. ASSUME NEW i \in 1 .. n
      PROVE  slots[(head + i - 1) % Slots] \in Records
  <2>1. i \in 1 .. size
    BY <1>0 DEF Taken, Sizes
  <2>. QED
    BY <1>0, <2>1 DEF Filled
<1>3. /\ batch' \in Seq(Records) /\ Len(batch') = n
      /\ \A i \in 1 .. n : batch'[i] = slots[(head + i - 1) % Slots]
  <2>. DEFINE at(i) == slots[(head + i - 1) % Slots]
  <2>1. batch' = [i \in 1 .. n |-> at(i)] /\ \A i \in 1 .. n : at(i) \in Records
    BY <1>2 DEF Taken
  <2>. HIDE DEF at
  <2>2. batch' \in Seq(Records) /\ Len(batch') = n /\ \A i \in 1 .. n : batch'[i] = at(i)
    BY <2>1
  <2>. QED
    BY <2>2 DEF at
<1>4. ASSUME NEW i \in 1 .. size'
      PROVE  /\ n + i \in 1 .. size
             /\ slots'[(head' + i - 1) % Slots] = slots[(head + (n + i) - 1) % Slots]
  <2>1. n + i \in 1 .. size /\ i - 1 \in Nat /\ n + (i - 1) < Slots
    BY <1>0 DEF Taken, Sizes
  <2>2. (((head + n) % Slots) + (i - 1)) % Slots = (head + (n + (i - 1))) % Slots
    BY <1>0, <2>1, Advance DEF Sizes
  <2>3. head' + i - 1 = ((head + n) % Slots) + (i - 1) /\ head + (n + i) - 1 = head + (n + (i - 1))
    BY <1>0, <1>1 DEF Taken, Sizes
  <2>. QED
    BY <2>1, <2>2, <2>3
<1>. QED
  BY <1>1, <1>3, <1>4

(* consumeRecords: nothing is counted yet, the batch is still pending.      *)
LEMMA TakeInv ==
  ASSUME Inv, consumeRecords
  PROVE  Inv'
<1>1. /\ UNCHANGED <<slots, accepting, stats, written, sink, broken, stopper>>
      /\ consumer = "test" /\ batch = << >>
  BY Takes
<1>2. CASE \/ consumer' = "asleep" /\ UNCHANGED <<head, size, batch>>
           \/ consumer' = "over" /\ size = 0 /\ ~accepting /\ UNCHANGED <<head, size, batch>>
  BY Zenon, <1>1, <1>2 DEF Inv, TypeOK, Counted, Places, Flushed, Filled
<1>3. ASSUME NEW n \in Nat, Taken(n)
      PROVE  Inv'
  <2>1. /\ head' \in 0 .. Slots - 1 /\ size' \in 0 .. Slots
        /\ batch' \in Seq(Records) /\ Len(batch') = n
        /\ \A i \in 1 .. size' : /\ n + i \in 1 .. size
                                /\ slots'[(head' + i - 1) % Slots] = slots[(head + (n + i) - 1) % Slots]
    BY Zenon, <1>1, <1>3, Leaves
  <2>2. /\ n \in 1 .. size /\ n <= kBatchRecords /\ size' = size - n /\ consumer' = "write" /\ Sizes
        /\ Len(batch) = 0
    BY <1>1, <1>3, Numbers DEF Taken
  <2>3. TypeOK'
    BY <1>1, <2>1, <2>2 DEF Inv, TypeOK
  <2>4. Counted'
    BY <1>1, <2>1, <2>2 DEF Inv, Counted, Sizes
  <2>5. Places'
    <3>1. n > 0 /\ n <= Slots /\ batch' # << >>
      BY <2>1, <2>2 DEF Sizes
    <3>. QED
      BY <1>1, <2>1, <2>2, <3>1 DEF Inv, Places
  <2>6. Flushed'
    BY <1>1, <2>2 DEF Inv, Flushed
  <2>7. Filled'
    BY <2>1 DEF Inv, Filled
  <2>. QED
    BY <2>3, <2>4, <2>5, <2>6, <2>7 DEF Inv
<1>. QED
  BY <1>2, <1>3, Takes

(* The invariant holds, however the producers, the consumer and the threads *)
(* that stop the logger interleave.                                         *)
THEOREM InvHolds == Spec => []Inv
<1>1. Inv /\ [Next]_vars => Inv'
  BY SubmitInv, TakeInv, WriteInv, SettleInv, StopInv DEF Next, Consumer
<1>. QED
  BY <1>1, InitInv, PTL DEF Spec

(* The counters always add up, and once a call of stopAsyncLogging returned *)
(* every accepted record was written or reported as failed: the sink holds  *)
(* all of them unless it failed.                                            *)
THEOREM StopAlwaysFlushes == Spec => []StopFlushes
<1>1. Inv => StopFlushes
  <2>. SUFFICES ASSUME Inv PROVE StopFlushes
    OBVIOUS
  <2>1. ASSUME NEW t \in Stoppers, stopper[t] = "returned"
        PROVE  stats.pending = 0 /\ (~broken => Len(sink) = stats.accepted)
    <3>1. consumer = "over" /\ size = 0 /\ batch = << >> /\ Len(batch) = 0
      BY <2>1 DEF Inv, Places
    <3>2. stats.pending = 0
      BY <3>1 DEF Inv, Counted
    <3>3. ~broken => stats.failed = 0 /\ Len(sink) = stats.written
      BY <3>1, Numbers DEF Inv, Flushed, Sums
    <3>. QED
      BY SMTT(30), <3>2, <3>3, Numbers DEF Inv, Counted, Sums
  <2>. QED
    BY <2>1 DEF Inv, Counted, StopFlushes
<1>. QED
  BY <1>1, InvHolds, PTL

-----------------------------------------------------------------------------
(* The queue of LogQueue that ring and batch stand for.                     *)
Out == IF consumer = "settle" THEN << >> ELSE batch
Queue == Out \o Waiting

(* The n places behind head as a sequence.                                  *)
LEMMA RingIs ==
  ASSUME NEW ring, NEW h, NEW n \in Nat,
         \A i \in 1 .. n : ring[(h + i - 1) % Slots] \in Records
  PROVE  LET line == [i \in 1 .. n |-> ring[(h + i - 1) % Slots]]
         IN  /\ line \in Seq(Records) /\ Len(line) = n
             /\ \A i \in 1 .. n : line[i] = ring[(h + i - 1) % Slots]
<1>. DEFINE at(i) == ring[(h + i - 1) % Slots]
            line == [i \in 1 .. n |-> at(i)]
<1>1. \A i \in 1 .. n : at(i) \in Records
  OBVIOUS
<1>. HIDE DEF at
<1>2. line \in Seq(Records) /\ Len(line) = n /\ \A i \in 1 .. n : line[i] = at(i)
  BY <1>1
<1>. QED
  BY <1>2 DEF at

(* The records that wait in the ring, before a step.                        *)
LEMMA WaitingIs ==
  ASSUME Inv
  PROVE  /\ Waiting \in Seq(Records) /\ Len(Waiting) = size
         /\ \A i \in 1 .. size : Waiting[i] = slots[(head + i - 1) % Slots]
         /\ Out \in Seq(Records)
<1>1. size \in Nat
  BY Numbers DEF Sizes
<1>2. Out \in Seq(Records)
  BY DEF Out, Inv, TypeOK
<1>. QED
  BY <1>1, <1>2, RingIs DEF Waiting, Inv, Filled

(* The same after it.                                                       *)
LEMMA WaitingNext ==
  ASSUME Inv'
  PROVE  /\ Waiting' \in Seq(Records) /\ Len(Waiting') = size'
         /\ \A i \in 1 .. size' : Waiting'[i] = slots'[(head' + i - 1) % Slots]
<1>1. size' \in Nat
  BY LoggerAssumption DEF Inv, TypeOK
<1>. QED
  BY <1>1, RingIs DEF Waiting, Inv, Filled

(* submitLogRecord appends to the queue, or leaves it alone.                *)
LEMMA SubmitQueues ==
  ASSUME Inv, Inv', NEW long \in BOOLEAN, submitLogRecord(long)
  PROVE  [Abstract!Next]_<<Queue, sink, broken>>
<1>. DEFINE record == [id |-> stats.submitted + 1, truncated |-> long]
<1>1. UNCHANGED <<head, batch, sink, broken>> /\ Sizes /\ stats.submitted < MaxSubmitted
  BY Numbers DEF submitLogRecord
<1>2. CASE UNCHANGED <<slots, size, consumer>>
  BY <1>1, <1>2 DEF Queue, Out, Waiting
<1>3. CASE /\ size # Slots /\ size' = size + 1 /\ consumer' = Notified
           /\ slots' = [slots EXCEPT ![(head + size) % Slots] = record]
  <2>1. record \in Records
    BY <1>1, Numbers DEF Sums, Records
  <2>. HIDE DEF record
  <2>2. Out' = Out /\ Out \in Seq(Records)
    BY <1>1, <1>3, WaitingIs DEF Out, Notified
  <2>3. Waiting' = Append(Waiting, record)
    <3>1. /\ Waiting \in Seq(Records) /\ Len(Waiting) = size
          /\ \A i \in 1 .. size : Waiting[i] = slots[(head + i - 1) % Slots]
      BY WaitingIs
    <3>2. /\ Waiting' \in Seq(Records) /\ Len(Waiting') = size + 1
          /\ \A i \in 1 .. size + 1 : Waiting'[i] = slots'[(head + i - 1) % Slots]
      BY <1>1, <1>3, WaitingNext
    <3>3. ASSUME NEW i \in 1 .. size + 1
          PROVE  slots'[(head + i - 1) % Slots] = Append(Waiting, record)[i]
      <4>1. /\ head + i - 1 = head + (i - 1) /\ i - 1 \in 0 .. Slots - 1 /\ size \in 0 .. Slots - 1
            /\ head \in 0 .. Slots - 1
        BY <1>1, <1>3 DEF Sizes
      <4>2. CASE i = size + 1
        <5>1. head + i - 1 = head + size /\ (head + size) % Slots \in 0 .. Slots - 1
          BY <1>1, <4>1, <4>2 DEF Sizes
        <5>2. slots'[(head + size) % Slots] = record
          BY <1>3, <5>1 DEF Inv, TypeOK
        <5>. QED
          BY <2>1, <3>1, <4>2, <5>1, <5>2
      <4>3. CASE i \in 1 .. size
        <5>1. i - 1 # size
          BY <1>1, <4>3 DEF Sizes
        <5>2. (head + i - 1) % Slots # (head + size) % Slots
          BY <4>1, <5>1, SlotsApart
        <5>3. slots'[(head + i - 1) % Slots] = slots[(head + i - 1) % Slots]
          BY <1>3, <4>1, <5>1, <5>2, SlotsApart DEF Inv, TypeOK
        <5>. QED
          BY <2>1, <3>1, <4>3, <5>3
      <4>4. i = size + 1 \/ i \in 1 .. size
        BY <4>1
      <4>. QED
        BY Zenon, <4>2, <4>3, <4>4
    <3>. QED
      BY <2>1, <3>1, <3>2, <3>3, SeqEqual
  <2>4. Queue' = Append(Queue, record)
    BY <2>1, <2>2, <2>3, WaitingIs, AppendIsConcat, ConcatAssociative DEF Queue
  <2>5. Abstract!Accept(record)
    BY Zenon, <1>1, <2>4 DEF Abstract!Accept, Queue, Out
  <2>. QED
    BY <2>1, <2>5 DEF Abstract!Next
<1>. QED
  BY <1>2, <1>3 DEF submitLogRecord, Full, NextSlot

(* consumeRecords only moves records from the ring to the batch.            *)
LEMMA TakeQueues ==
  ASSUME Inv, Inv', consumeRecords
  PROVE  UNCHANGED <<Queue, sink, broken>>
<1>1. UNCHANGED <<slots, sink, broken>> /\ consumer = "test" /\ batch = << >>
  BY Takes
<1>2. CASE consumer' \in {"asleep", "over"} /\ UNCHANGED <<head, size, batch>>
  BY <1>1, <1>2 DEF Queue, Out, Waiting
<1>3. ASSUME NEW n \in Nat, Taken(n)
      PROVE  Queue' = Queue
  <2>1. /\ batch' \in Seq(Records) /\ Len(batch') = n
        /\ \A i \in 1 .. n : batch'[i] = slots[(head + i - 1) % Slots]
        /\ \A i \in 1 .. size' : /\ n + i \in 1 .. size
                                /\ slots'[(head' + i - 1) % Slots] = slots[(head + (n + i) - 1) % Slots]
    BY <1>1, <1>3, Leaves
  <2>2. /\ n \in 1 .. size /\ size' = size - n /\ consumer' = "write" /\ size \in Nat
    BY <1>3, Numbers DEF Taken, Sizes
  <2>3. /\ Waiting \in Seq(Records) /\ Len(Waiting) = size
        /\ \A i \in 1 .. size : Waiting[i] = slots[(head + i - 1) % Slots]
    BY WaitingIs
  <2>4. /\ Waiting' \in Seq(Records) /\ Len(Waiting') = size'
        /\ \A i \in 1 .. size' : Waiting'[i] = slots'[(head' + i - 1) % Slots]
    BY WaitingNext
  <2>5. Queue = Waiting /\ Queue' = batch' \o Waiting'
    BY <1>1, <2>2, <2>3 DEF Queue, Out
  <2>6. /\ batch' \o Waiting' \in Seq(Records) /\ Len(batch' \o Waiting') = size
        /\ \A i \in 1 .. size : (batch' \o Waiting')[i] = IF i <= n THEN batch'[i] ELSE Waiting'[i - n]
    <3>1. Len(batch') + Len(Waiting') = size
      BY <2>1, <2>2, <2>4
    <3>. QED
      BY ZenonT(60), <2>1, <2>4, <3>1, ConcatProperties
  <2>7. ASSUME NEW i \in 1 .. size
        PROVE  (batch' \o Waiting')[i] = Waiting[i]
    <3>1. CASE i <= n
      <4>1. i \in 1 .. n
        BY <2>2, <3>1
      <4>. QED
        BY Zenon, <2>1, <2>3, <2>6, <3>1, <4>1
    <3>2. CASE ~(i <= n)
      <4>1. i - n \in 1 .. size' /\ n + (i - n) = i
        BY <2>2, <3>2
      <4>2. Waiting'[i - n] = slots[(head + i - 1) % Slots]
        BY Zenon, <2>1, <2>4, <4>1
      <4>. QED
        BY SMTT(30), <2>3, <2>6, <3>2, <4>2
    <3>. QED
      BY Zenon, <3>1, <3>2
  <2>. QED
    BY <2>3, <2>5, <2>6, <2>7, SeqEqual
<1>. QED
  BY <1>1, <1>2, <1>3, Takes

(* writeRecordBatch takes the batch from the front of the queue: the sink   *)
(* gets it, or it is lost to a failure.                                     *)
LEMMA WriteQueues ==
  ASSUME Inv, writeRecordBatch
  PROVE  Abstract!Next
<1>. DEFINE n == Len(batch)
<1>1. /\ consumer = "write" /\ consumer' = "settle" /\ UNCHANGED <<slots, head, size, batch>>
  BY DEF writeRecordBatch
<1>2. Queue = batch \o Waiting /\ Queue' = << >> \o Waiting
  BY <1>1 DEF Queue, Out, Waiting
<1>3. batch \in Seq(Records) /\ Waiting \in Seq(Records) /\ n \in 1 .. Slots
  BY <1>1, WaitingIs DEF Inv, TypeOK, Places
<1>4. /\ n <= Len(Queue) /\ SubSeq(Queue, 1, n) = batch
      /\ SubSeq(Queue, n + 1, Len(Queue)) = Waiting /\ Queue' = Waiting
  <2>. DEFINE both == batch \o Waiting
  <2>1. /\ both \in Seq(Records) /\ Len(both) = n + Len(Waiting) /\ n \in Nat /\ Len(Waiting) \in Nat
        /\ \A i \in 1 .. n + Len(Waiting) : both[i] = IF i <= n THEN batch[i] ELSE Waiting[i - n]
    BY <1>3, ConcatProperties
  <2>. HIDE DEF both, n
  <2>2. /\ SubSeq(both, 1, n) \in Seq(Records) /\ Len(SubSeq(both, 1, n)) = n
        /\ \A i \in 1 .. n : SubSeq(both, 1, n)[i] = batch[i]
    BY <2>1
  <2>3. /\ SubSeq(both, n + 1, Len(both)) \in Seq(Records)
        /\ Len(SubSeq(both, n + 1, Len(both))) = Len(Waiting)
        /\ \A i \in 1 .. Len(Waiting) : SubSeq(both, n + 1, Len(both))[i] = Waiting[i]
    BY <2>1
  <2>4. SubSeq(both, 1, n) = batch
    BY <1>3, <2>2, SeqEqual DEF n
  <2>5. SubSeq(both, n + 1, Len(both)) = Waiting
    BY Zenon, <1>3, <2>3, SeqEqual
  <2>6. << >> \o Waiting = Waiting /\ n <= Len(both)
    BY <1>3, <2>1
  <2>. QED
    BY Zenon, <1>2, <2>4, <2>5, <2>6 DEF both
<1>5. \/ ~broken /\ sink' = sink \o batch /\ UNCHANGED broken
      \/ broken' = TRUE /\ UNCHANGED sink
  BY DEF writeRecordBatch
<1>6. Abstract!Write(n) \/ Abstract!Lose(n)
  <2>. HIDE DEF n
  <2>. QED
    BY Zenon, <1>4, <1>5 DEF Abstract!Write, Abstract!Lose, Queue, Out
<1>. QED
  BY <1>3, <1>6 DEF Abstract!Next

(* Ring, batch and stream together implement the queue of LogQueue: records *)
(* reach the sink in the order of acceptance, none is overwritten, and none *)
(* is written after a failure of the stream.                                *)
THEOREM QueueRefined == Spec => QueueImplemented
<1>1. Init => Abstract!Init
  <2>. SUFFICES ASSUME Init PROVE Abstract!Init
    OBVIOUS
  <2>1. Waiting = << >>
    BY InitInv, WaitingIs DEF Init
  <2>. QED
    BY <2>1 DEF Init, Abstract!Init
<1>2. Inv /\ Inv' /\ [Next]_vars => [Abstract!Next]_<<Queue, sink, broken>>
  <2>. SUFFICES ASSUME Inv, Inv', [Next]_vars PROVE [Abstract!Next]_<<Queue, sink, broken>>
    OBVIOUS
  <2>1. CASE SettleBatch
    BY <2>1 DEF SettleBatch, Queue, Out, Waiting
  <2>2. CASE SpuriousWakeup \/ UNCHANGED vars
    BY Zenon, <2>2 DEF SpuriousWakeup, vars, Queue, Out, Waiting
  <2>3. CASE \E t \in Stoppers : stopAsyncLogging(t) \/ LockJoin(t) \/ Join(t)
    BY Zenon, <2>3 DEF stopAsyncLogging, LockJoin, Join, StopNotified, Notified, Queue, Out, Waiting
  <2>. QED
    BY <2>1, <2>2, <2>3, SubmitQueues, TakeQueues, WriteQueues DEF Next, Consumer
<1>. QED
  BY <1>1, <1>2, InvHolds, PTL DEF Spec, QueueImplemented, Abstract!Spec, Queue, Out

=============================================================================
