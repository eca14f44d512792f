-------------------------- MODULE TimerQueueProofs --------------------------
(***************************************************************************)
(* Why the two indexes of a TimerQueue agree and why a callback runs only   *)
(* as its owner asked, for every number of ids, every length of the clock   *)
(* and every thing callbacks do to the queue in the middle of a run.        *)
(***************************************************************************)
EXTENDS TimerQueue, FiniteSetTheorems, SequenceTheorems, TLAPS

Firings == [id : Ids, asked : BOOLEAN, late : BOOLEAN, old : BOOLEAN]

(* A callback is on the stack only during a run, a run's time has come, and *)
(* during a run only a callback makes calls.                                *)
Types ==
  /\ TypeOK
  /\ records \in [DOMAIN records -> Times]
  /\ fired \in Seq(Firings)
  /\ inTask => running
  /\ running /\ ~inTask => call.op = "none"
  /\ dispatchTime <= now

Entries == {<<records[id], id>> : id \in DOMAIN records}

(* Both indexes hold what the owner asked for last, but for the entry that  *)
(* a call in progress is about, and that entry is what the call says.       *)
Indexed ==
  /\ call.op \in {"none", "rearm"} => ordered = Entries
  /\ call.op = "add" => ordered = Entries \ {<<call.deadline, call.id>>}
  /\ call.op = "inserted" => ordered = Entries \cup {<<call.deadline, call.id>>}
  /\ call.op = "add" => call.id \in DOMAIN records /\ records[call.id] = call.deadline
  /\ call.op \in {"rearm", "inserted"} => call.id \in DOMAIN records /\ records[call.id] # call.deadline
  /\ wanted = IF call.op = "add" THEN Drop(records, call.id) ELSE records

(* Until the counter has wrapped, the next id was never used; an id that    *)
(* fired is not in the queue again.                                         *)
Fresh ==
  /\ nextId # 0 => /\ lastId < nextId
                   /\ \A id \in DOMAIN records : id < nextId
                   /\ \A i \in 1 .. Len(fired) : fired[i].id < nextId
  /\ \A i \in 1 .. Len(fired) : fired[i].id \notin DOMAIN records

(* What a run collected was there when its caller read the cutoff.          *)
Collected == \A i \in 1 .. Len(due) : due[i] <= cutoff

Inv == Types /\ Indexed /\ Fresh /\ Collected /\ FiredAsAsked

(* Nothing is collected, and nothing has fired, in a new queue.             *)
LEMMA InitInv == Init => Inv
<1>. SUFFICES ASSUME Init PROVE Inv
  OBVIOUS
<1>. USE QueueAssumption DEF Init, Empty, NoCall
<1>1. DOMAIN records = {} /\ records \in [DOMAIN records -> Times]
  OBVIOUS
<1>2. Types
  <2>1. due \in Seq(Ids) /\ fired \in Seq(Firings)
    OBVIOUS
  <2>2. nextId \in 0 .. MaxId /\ lastId \in 0 .. MaxId /\ cutoff \in 0 .. MaxId /\ now \in Times
    BY DEF Times
  <2>3. wanted = records /\ dispatchTime = now /\ now <= now /\ ordered = {} /\ touched = {}
    OBVIOUS
  <2>. HIDE DEF Empty
  <2>. QED
    BY Zenon, <1>1, <2>1, <2>2, <2>3 DEF Types, TypeOK
<1>3. Indexed
  BY Zenon, <1>1 DEF Indexed, Entries
<1>4. Fresh /\ Collected /\ FiredAsAsked
  BY <1>1 DEF Fresh, Collected, FiredAsAsked
<1>. QED
  BY Zenon, <1>2, <1>3, <1>4 DEF Inv

(* The ids of timers that fired are ids.                                    *)
LEMMA FiredIds == fired \in Seq(Firings) => \A i \in 1 .. Len(fired) : fired[i] \in Firings /\ fired[i].id \in Ids
<1>. SUFFICES ASSUME fired \in Seq(Firings), NEW i \in 1 .. Len(fired)
              PROVE  fired[i] \in Firings /\ fired[i].id \in Ids
  OBVIOUS
<1>1. fired[i] \in Firings
  BY Zenon, ElementOfSeq
<1>. QED
  BY Zenon, <1>1 DEF Firings

(* The counter moves past the id it gave.                                   *)
LEMMA AfterFacts ==
  ASSUME nextId \in 0 .. MaxId, nextId # 0
  PROVE  nextId \in Ids /\ After(nextId) \in 0 .. MaxId /\ (After(nextId) # 0 => nextId < After(nextId))
BY QueueAssumption DEF After, Ids

(* Another queue takes an id: the counter only moves on.                    *)
LEMMA AllocateInv == Inv /\ allocateId => Inv'
<1>. SUFFICES ASSUME Inv, allocateId PROVE Inv'
  OBVIOUS
<1>. USE DEF Inv, Types, TypeOK, allocateId, runVars
<1>0. nextId \in Ids /\ nextId' \in 0 .. MaxId /\ (nextId' # 0 => nextId < nextId')
  BY Zenon, AfterFacts
<1>1. Types' /\ Indexed' /\ Collected' /\ FiredAsAsked'
  BY <1>0 DEF Indexed, Entries, Collected, FiredAsAsked
<1>2. Fresh'
  BY <1>0, FiredIds, QueueAssumption DEF Fresh, Ids
<1>. QED
  BY Zenon, <1>1, <1>2

(* addTimer takes an id nobody has and puts it into records_ only.          *)
LEMMA AddInv ==
  ASSUME Inv, NEW deadline \in Times, addTimer(deadline)
  PROVE  Inv'
<1>. USE DEF Inv, Types, TypeOK, addTimer, OwnerMayCall, NoCall, callerVars
<1>0. nextId \in Ids /\ nextId' \in 0 .. MaxId /\ (nextId' # 0 => nextId < nextId') /\ nextId \notin DOMAIN records
  BY AfterFacts DEF Fresh, Ids
<1>1. /\ DOMAIN records' = DOMAIN records \cup {nextId}
      /\ records'[nextId] = deadline
      /\ \A i \in DOMAIN records : records'[i] = records[i]
      /\ records' \in [DOMAIN records' -> Times]
  BY Zenon, <1>0 DEF Put
<1>2. call.op = "none" /\ call'.op = "add" /\ call'.id = nextId /\ call'.deadline = deadline
  OBVIOUS
<1>3. Types'
  BY Zenon, <1>0, <1>1 DEF Ids
<1>4. Indexed'
  <2>1. wanted = records /\ ordered = Entries
    BY Zenon, <1>2 DEF Indexed
  <2>2. wanted' = Drop(records', nextId)
    <3>1. DOMAIN records' \ {nextId} = DOMAIN records
      BY Zenon, <1>0, <1>1
    <3>2. records = [i \in DOMAIN records |-> records'[i]]
      BY Zenon, <1>1
    <3>. QED
      BY <2>1, <3>1, <3>2, Zenon DEF Drop, Restrict
  <2>3. ordered' = Entries' \ {<<deadline, nextId>>}
    BY <1>0, <1>1, <2>1 DEF Entries
  <2>. QED
    BY Zenon, <1>1, <1>2, <2>2, <2>3 DEF Indexed
<1>5. Fresh'
  BY SMTT(30), <1>0, <1>1, FiredIds, QueueAssumption DEF Fresh, Ids
<1>6. Collected' /\ FiredAsAsked'
  BY Zenon, <1>0, <1>1 DEF Collected, FiredAsAsked
<1>. QED
  BY Zenon, <1>3, <1>4, <1>5, <1>6

(* The second half puts it into ordered_ too, or takes the record out again.*)
LEMMA AddEndsInv == Inv /\ (AddReturns \/ AddThrows) => Inv'
<1>. SUFFICES ASSUME Inv, AddReturns \/ AddThrows PROVE Inv'
  OBVIOUS
<1>. USE DEF Inv, Types, TypeOK, NoCall, callerVars
<1>0. /\ call.op = "add" /\ call.id \in DOMAIN records /\ records[call.id] = call.deadline
      /\ call.id \in Ids /\ call'.op = "none" /\ call' = NoCall
      /\ ordered = Entries \ {<<call.deadline, call.id>>} /\ wanted = Drop(records, call.id)
  BY DEF AddReturns, AddThrows, Indexed
<1>1. CASE AddReturns
  <2>1. wanted' = records'
    BY Zenon, <1>0, <1>1 DEF AddReturns, Put, Drop, Restrict
  <2>2. Types'
    BY SMTT(30), <1>0, <1>1, <2>1, QueueAssumption DEF AddReturns, Times, Ids
  <2>3. ordered' = Entries'
    BY Zenon, <1>0, <1>1 DEF AddReturns, Entries
  <2>4. Indexed'
    BY Zenon, <1>0, <2>1, <2>3 DEF Indexed
  <2>5. Fresh' /\ Collected' /\ FiredAsAsked'
    BY Zenon, <1>0, <1>1 DEF AddReturns, Fresh, Collected, FiredAsAsked
  <2>. QED
    BY Zenon, <2>2, <2>4, <2>5
<1>2. CASE AddThrows
  <2>0. /\ DOMAIN records' = DOMAIN records \ {call.id}
        /\ \A i \in DOMAIN records' : records'[i] = records[i]
        /\ records' \in [DOMAIN records' -> Times]
    BY Zenon, <1>2 DEF AddThrows, Drop, Restrict
  <2>1. Types'
    BY <1>0, <1>2, <2>0, QueueAssumption DEF AddThrows, Times
  <2>2. ordered' = Entries'
    BY <1>0, <1>2, <2>0 DEF AddThrows, Entries
  <2>3. Indexed'
    BY Zenon, <1>0, <1>2, <2>2 DEF AddThrows, Indexed
  <2>4. Fresh' /\ Collected' /\ FiredAsAsked'
    BY Zenon, <1>2, <2>0 DEF AddThrows, Fresh, Collected, FiredAsAsked
  <2>. QED
    BY Zenon, <2>1, <2>3, <2>4
<1>. QED
  BY Zenon, <1>1, <1>2

(* rescheduleTimer looks the timer up and inserts the new entry; if that    *)
(* throws, both indexes are what they were.                                 *)
LEMMA RearmInv ==
  Inv /\ ((\E id \in Ids, deadline \in Times : rescheduleTimer(id, deadline)) \/ RearmInserts \/ RearmThrows)
  => Inv'
<1>. SUFFICES ASSUME Inv,
                     (\E id \in Ids, deadline \in Times : rescheduleTimer(id, deadline))
                       \/ RearmInserts \/ RearmThrows
              PROVE  Inv'
  OBVIOUS
<1>. USE DEF Inv, Types, TypeOK, NoCall, callerVars
<1>1. ASSUME NEW id \in Ids, NEW deadline \in Times, rescheduleTimer(id, deadline) PROVE Inv'
  <2>1. call.op = "none" /\ call'.op = "rearm" /\ call'.id = id /\ call'.deadline = deadline
    BY Zenon, <1>1 DEF rescheduleTimer, OwnerMayCall
  <2>2. Types'
    BY <1>1, QueueAssumption DEF rescheduleTimer, OwnerMayCall, Ids
  <2>3. Indexed'
    BY Zenon, <1>1, <2>1 DEF rescheduleTimer, Indexed, Entries
  <2>4. Fresh' /\ Collected' /\ FiredAsAsked'
    BY Zenon, <1>1 DEF rescheduleTimer, Fresh, Collected, FiredAsAsked
  <2>. QED
    BY Zenon, <2>2, <2>3, <2>4
<1>2. CASE RearmInserts
  <2>1. /\ call.op = "rearm" /\ call'.op = "inserted"
        /\ call'.id = call.id /\ call'.deadline = call.deadline
    BY Zenon, <1>2 DEF RearmInserts
  <2>2. call.id \in Ids
    BY Zenon, <2>1 DEF Indexed
  <2>3. Types'
    <3>1. call' = [op |-> "inserted", id |-> call.id, deadline |-> call.deadline]
      BY Zenon, <1>2 DEF RearmInserts
    <3>2. call' \in [op : {"none", "add", "rearm", "inserted"}, id : 0 .. MaxId, deadline : Times]
      BY Zenon, <3>1
    <3>3. ordered' \subseteq Times \X Ids
      BY <1>2, <2>2 DEF RearmInserts
    <3>4. call.op = "none" => FALSE
      BY Zenon, <2>1
    <3>. QED
      BY <1>2, <3>2, <3>3, <3>4, Zenon DEF RearmInserts
  <2>4. Indexed'
    BY Zenon, <1>2, <2>1 DEF RearmInserts, Indexed, Entries
  <2>5. Fresh' /\ Collected' /\ FiredAsAsked'
    BY Zenon, <1>2 DEF RearmInserts, Fresh, Collected, FiredAsAsked
  <2>. QED
    BY Zenon, <2>3, <2>4, <2>5
<1>3. CASE RearmThrows
  <2>1. call.op = "rearm" /\ call'.op = "none"
    BY Zenon, <1>3 DEF RearmThrows
  <2>2. Types'
    BY <1>3, QueueAssumption DEF RearmThrows, Times
  <2>3. Indexed'
    BY Zenon, <1>3, <2>1 DEF RearmThrows, Indexed, Entries
  <2>4. Fresh' /\ Collected' /\ FiredAsAsked'
    BY Zenon, <1>3 DEF RearmThrows, Fresh, Collected, FiredAsAsked
  <2>. QED
    BY Zenon, <2>2, <2>3, <2>4
<1>. QED
  BY Zenon, <1>1, <1>2, <1>3

(* The last step of re-arming replaces the old entry in both indexes.       *)
LEMMA RearmEndsInv == Inv /\ RearmReturns => Inv'
<1>. SUFFICES ASSUME Inv, RearmReturns PROVE Inv'
  OBVIOUS
<1>. USE DEF Inv, Types, TypeOK, RearmReturns, NoCall, callerVars
<1>1. /\ call.id \in DOMAIN records /\ records[call.id] # call.deadline /\ call.id \in Ids
      /\ ordered = Entries \cup {<<call.deadline, call.id>>} /\ wanted = records
      /\ call'.op = "none" /\ call.deadline \in Times
  BY Zenon DEF Indexed
<1>2. /\ DOMAIN records' = DOMAIN records
      /\ records'[call.id] = call.deadline
      /\ \A i \in DOMAIN records \ {call.id} : records'[i] = records[i]
      /\ records' \in [DOMAIN records' -> Times]
  BY Zenon, <1>1
<1>3. ordered' = Entries'
  BY <1>1, <1>2 DEF Entries
<1>4. Types'
  BY SMTT(30), <1>1, <1>2, QueueAssumption DEF Times
<1>5. Indexed'
  BY Zenon, <1>1, <1>3 DEF Indexed
<1>6. Fresh' /\ Collected' /\ FiredAsAsked'
  BY <1>1, <1>2 DEF Fresh, Collected, FiredAsAsked
<1>. QED
  BY Zenon, <1>4, <1>5, <1>6

(* cancelTimer takes the timer out of both; a run that collected it will skip*)
(* it.                                                                      *)
LEMMA CancelInv ==
  ASSUME Inv, NEW id \in Ids, cancelTimer(id)
  PROVE  Inv'
<1>. USE DEF Inv, Types, TypeOK, cancelTimer, runVars, OwnerMayCall, NoCall
<1>0. /\ DOMAIN records' = DOMAIN records \ {id}
      /\ \A i \in DOMAIN records' : records'[i] = records[i]
      /\ records' \in [DOMAIN records' -> Times]
  BY Zenon DEF Drop, Restrict
<1>1. Types'
  BY Zenon, <1>0 DEF Indexed, Entries
<1>2. Indexed'
  BY <1>0 DEF Indexed, Entries
<1>3. Fresh'
  BY Zenon, <1>0 DEF Fresh
<1>4. Collected' /\ FiredAsAsked'
  BY Zenon, <1>0 DEF Collected, FiredAsAsked
<1>. QED
  BY Zenon, <1>1, <1>2, <1>3, <1>4

(* clearTimers empties both, and they stay empty until it returns.          *)
LEMMA ClearInv == Inv /\ (clearTimers \/ ClearReturns) => Inv'
<1>. SUFFICES ASSUME Inv, clearTimers \/ ClearReturns PROVE Inv'
  OBVIOUS
<1>. USE DEF Inv, Types, TypeOK, runVars
<1>1. CASE clearTimers
  <2>0. DOMAIN records' = {} /\ records' \in [DOMAIN records' -> Times]
    BY Zenon, <1>1 DEF clearTimers, Empty
  <2>1. Types' /\ Indexed'
    BY ZenonT(30), <1>1, <2>0 DEF clearTimers, OwnerMayCall, NoCall, Indexed, Entries
  <2>2. Fresh' /\ Collected' /\ FiredAsAsked'
    BY Zenon, <1>1, <2>0 DEF clearTimers, Fresh, Collected, FiredAsAsked
  <2>. QED
    BY Zenon, <2>1, <2>2
<1>2. CASE ClearReturns
  <2>1. Types'
    BY Zenon, <1>2 DEF ClearReturns
  <2>2. Indexed' /\ Fresh' /\ Collected' /\ FiredAsAsked'
    BY <1>2 DEF ClearReturns, Indexed, Entries, Fresh, Collected, FiredAsAsked
  <2>. QED
    BY Zenon, <2>1, <2>2
<1>. QED
  BY Zenon, <1>1, <1>2

(* runDueTimers collects every timer that is due and not younger than the   *)
(* cutoff, and no other.                                                    *)
LEMMA RunInv ==
  ASSUME Inv, NEW last \in 0 .. lastId, runDueTimers(last)
  PROVE  Inv'
<1>. USE DEF Inv, Types, TypeOK, runDueTimers, NoCall
<1>1. Due(last) \subseteq Ids /\ \A id \in Due(last) : id <= last
  BY Zenon DEF Due
<1>2. Cardinality(Due(last)) \in Nat
  <2>1. IsFiniteSet(Ids)
    <3>1. 1 \in Int /\ MaxId \in Int
      BY QueueAssumption
    <3>. QED
      BY <3>1, FS_Interval, Zenon DEF Ids
  <2>2. IsFiniteSet(Due(last))
    BY Zenon, <1>1, <2>1, FS_Subset
  <2>. QED
    BY Zenon, <2>2, FS_CardinalityType
<1>3. due' \in [1 .. Cardinality(Due(last)) -> Due(last)] /\ Lists(due', Due(last))
  OBVIOUS
<1>4. due' \in Seq(Ids) /\ Len(due') = Cardinality(Due(last))
  BY SMTT(30), <1>1, <1>2, <1>3
<1>5. \A id \in DOMAIN records : id <= last /\ records[id] <= now => \E i \in 1 .. Len(due') : due'[i] = id
  <2>. SUFFICES ASSUME NEW id \in DOMAIN records, id <= last, records[id] <= now
                PROVE  \E i \in 1 .. Len(due') : due'[i] = id
    OBVIOUS
  <2>1. <<records[id], id>> \in ordered
    BY Zenon DEF Indexed, Entries
  <2>2. id \in Due(last)
    BY <2>1 DEF Due
  <2>. QED
    BY <1>3, <2>2 DEF Lists
<1>6. Types'
  BY SMTT(30), <1>4, QueueAssumption DEF Times
<1>7. Indexed' /\ Fresh'
  BY DEF Indexed, Entries, Fresh
<1>8. Collected'
  BY Zenon, <1>1, <1>2, <1>3, <1>4 DEF Collected
<1>9. FiredAsAsked'
  BY Zenon, <1>5 DEF FiredAsAsked
<1>. QED
  BY Zenon, <1>6, <1>7, <1>8, <1>9

(* A collected timer that is gone or was re-armed is passed over.           *)
LEMMA SkipInv == Inv /\ SkipTimer => Inv'
<1>. SUFFICES ASSUME Inv, SkipTimer PROVE Inv'
  OBVIOUS
<1>. USE DEF Inv, Types, TypeOK, SkipTimer, timerVars
<1>1. /\ due' \in Seq(Ids) /\ Len(due') = Len(due) - 1
      /\ \A i \in 1 .. Len(due') : due'[i] = due[i + 1]
  BY Zenon, HeadTailProperties
<1>2. due[1] \in DOMAIN records => ~(records[due[1]] <= dispatchTime)
  BY DEF StillDue
<1>3. Types' /\ Indexed' /\ Fresh'
  BY <1>1 DEF Indexed, Entries, Fresh
<1>4. Collected'
  BY <1>1 DEF Collected
<1>5. FiredAsAsked'
  <2>. SUFFICES ASSUME NEW id \in DOMAIN records, id <= cutoff, records[id] <= dispatchTime, id \notin touched
                PROVE  \E i \in 1 .. Len(due') : due'[i] = id
    BY Zenon DEF FiredAsAsked
  <2>1. PICK i \in 1 .. Len(due) : due[i] = id
    BY Zenon DEF FiredAsAsked
  <2>2. i # 1
    BY Zenon, <1>2, <2>1
  <2>3. i - 1 \in 1 .. Len(due') /\ due'[i - 1] = id
    BY <1>1, <2>1, <2>2
  <2>. QED
    BY Zenon, <2>3
<1>. QED
  BY Zenon, <1>3, <1>4, <1>5

(* The timer that fires is the one its owner asked for, it has not fired    *)
(* before, and it leaves both indexes before its callback starts.           *)
LEMMA FireInv == Inv /\ FireTimer => Inv'
<1>. SUFFICES ASSUME Inv, FireTimer PROVE Inv'
  OBVIOUS
<1>. DEFINE id == Head(due)
<1>. DEFINE firing == [id |-> id, asked |-> id \in DOMAIN wanted,
                      late |-> id \in DOMAIN wanted /\ wanted[id] <= now, old |-> id <= cutoff]
<1>. USE DEF Inv, Types, TypeOK
<1>1. /\ id \in DOMAIN records /\ records[id] <= dispatchTime
      /\ ordered' = ordered \ {<<records[id], id>>}
      /\ records' = Drop(records, id) /\ wanted' = Drop(wanted, id)
      /\ fired' = Append(fired, firing)
      /\ due # << >> /\ due' = Tail(due) /\ running
      /\ call.op = "none" /\ call' = call
  BY Zenon DEF FireTimer, StillDue
<1>2. /\ due' \in Seq(Ids) /\ Len(due') = Len(due) - 1
      /\ \A i \in 1 .. Len(due') : due'[i] = due[i + 1]
      /\ 1 \in 1 .. Len(due) /\ id = due[1] /\ id \in Ids
  BY <1>1, HeadTailProperties
<1>3. id \in DOMAIN wanted /\ wanted[id] <= now /\ id <= cutoff
  BY SMTT(30), <1>1, <1>2, QueueAssumption DEF Indexed, Collected, Times
<1>4. firing \in Firings /\ firing.id = id /\ firing.asked /\ firing.late /\ firing.old
  BY Zenon, <1>2, <1>3 DEF Firings
<1>5. /\ fired' \in Seq(Firings) /\ Len(fired') = Len(fired) + 1
      /\ \A i \in 1 .. Len(fired) : fired'[i] = fired[i]
      /\ fired'[Len(fired')] = firing
  BY <1>1, <1>4, AppendProperties
<1>6. /\ DOMAIN records' = DOMAIN records \ {id}
      /\ \A i \in DOMAIN records' : records'[i] = records[i]
      /\ records' \in [DOMAIN records' -> Times]
  BY Zenon, <1>1 DEF Drop, Restrict
<1>. HIDE DEF id, firing
<1>7. Types'
  BY Zenon, <1>1, <1>2, <1>5, <1>6 DEF FireTimer, Indexed
<1>8. Indexed'
  BY <1>1, <1>6 DEF Indexed, Entries
<1>9. Fresh'
  BY <1>1, <1>2, <1>4, <1>5, <1>6 DEF FireTimer, Fresh
<1>10. Collected'
  BY <1>2 DEF FireTimer, Collected
<1>11. FiredAsAsked'
  <2>1. \A i \in 1 .. Len(fired') : fired'[i].asked /\ fired'[i].late /\ fired'[i].old
    BY SMTT(30), <1>4, <1>5 DEF FiredAsAsked
  <2>2. \A i, j \in 1 .. Len(fired') : fired'[i].id = fired'[j].id => i = j
    BY <1>1, <1>4, <1>5 DEF FiredAsAsked, Fresh
  <2>3. ASSUME NEW k \in DOMAIN records', k <= cutoff, records'[k] <= dispatchTime, k \notin touched
        PROVE  \E i \in 1 .. Len(due') : due'[i] = k
    <3>1. PICK i \in 1 .. Len(due) : due[i] = k
      BY Zenon, <1>1, <1>6, <2>3 DEF FiredAsAsked
    <3>2. i # 1
      BY Zenon, <1>2, <1>6, <2>3, <3>1
    <3>3. Len(due) \in Nat /\ i - 1 \in 1 .. Len(due')
      BY <1>2, <3>2
    <3>4. due'[i - 1] = k
      BY SMTT(30), <1>2, <3>1, <3>3
    <3>. QED
      BY Zenon, <3>3, <3>4
  <2>. QED
    BY Zenon, <2>1, <2>2, <2>3 DEF FiredAsAsked, FireTimer
<1>. QED
  BY Zenon, <1>7, <1>8, <1>9, <1>10, <1>11

(* A callback returns or throws, the run ends, time passes.                 *)
LEMMA RestInv == Inv /\ (TaskReturns \/ TaskThrows \/ RunReturns \/ Tick \/ UNCHANGED vars) => Inv'
<1>. SUFFICES ASSUME Inv, TaskReturns \/ TaskThrows \/ RunReturns \/ Tick \/ UNCHANGED vars PROVE Inv'
  OBVIOUS
<1>. USE QueueAssumption DEF Inv, Types, TypeOK, Indexed, Entries, Fresh, Collected, FiredAsAsked, timerVars,
    runVars
<1>1. CASE TaskReturns
  <2>1. Types'
    BY Zenon, <1>1 DEF TaskReturns, NoCall
  <2>2. (Indexed /\ Fresh /\ Collected /\ FiredAsAsked)'
    BY <1>1 DEF TaskReturns
  <2>. QED
    BY Zenon, <2>1, <2>2
<1>2. CASE TaskThrows \/ RunReturns
  <2>0. /\ running' = FALSE /\ due' = << >> /\ touched' = {} /\ cutoff' = 0 /\ dispatchTime' = 0
        /\ UNCHANGED <<nextId, records, ordered, lastId, clearing, call, now, wanted, fired>>
    BY Zenon, <1>2 DEF TaskThrows, RunReturns, LeaveRun
  <2>3. inTask' = FALSE
    <3>1. inTask \in BOOLEAN
      OBVIOUS
    <3>2. inTask' = FALSE \/ (~inTask /\ inTask' = inTask)
      BY Zenon, <1>2 DEF TaskThrows, RunReturns
    <3>. HIDE DEF Inv
    <3>. QED
      BY <3>1, <3>2, Zenon
  <2>1. Types'
    <3>1. due' \in Seq(Ids) /\ cutoff' \in 0 .. MaxId /\ dispatchTime' \in Times /\ dispatchTime' <= now'
      BY <2>0 DEF Times
    <3>. QED
      BY Zenon, <2>0, <2>3, <3>1
  <2>2. (Indexed /\ Fresh /\ Collected /\ FiredAsAsked)'
    BY <2>0
  <2>. QED
    BY Zenon, <2>1, <2>2
<1>3. CASE Tick
  BY SMTT(30), <1>3 DEF Tick, Times
<1>4. CASE UNCHANGED vars
  BY <1>4 DEF vars
<1>. QED
  BY Zenon, <1>1, <1>2, <1>3, <1>4

(* The invariant holds after every call and between any two callbacks.      *)
THEOREM InvHolds == Spec => []Inv
<1>1. Inv /\ [Next]_vars => Inv'
  BY ZenonT(30), AllocateInv, AddInv, AddEndsInv, RearmInv, RearmEndsInv, CancelInv, ClearInv, RunInv, SkipInv, FireInv, RestInv DEF Next
<1>. QED
  BY <1>1, InitInv, PTL DEF Spec

(* records_ and ordered_ hold the same timers with the same deadlines,      *)
(* whatever callbacks do to the queue in the middle of runDueTimers.        *)
THEOREM IndexesAlwaysAgree == Spec => []IndexesAgree
<1>1. Inv => IndexesAgree
  BY Zenon DEF Inv, Types, Indexed, IndexesAgree, Entries
<1>. QED
  BY <1>1, InvHolds, PTL

(* A callback runs at most once, for a timer that is still wanted, not      *)
(* before its deadline and not before its time in the loop's round; and no  *)
(* run passes over a timer that was due when it began.                      *)
THEOREM AlwaysFiredAsAsked == Spec => []FiredAsAsked
<1>1. Inv => FiredAsAsked
  BY Zenon DEF Inv
<1>. QED
  BY <1>1, InvHolds, PTL
=============================================================================
