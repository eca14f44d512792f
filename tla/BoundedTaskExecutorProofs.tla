--------------------- MODULE BoundedTaskExecutorProofs ---------------------
(***************************************************************************)
(* Proofs, for every number of jobs, threads and queue places, that the     *)
(* executor's bookkeeping is right: what a job's state says, what the       *)
(* counters count and that the queue stays in the order of the deadlines.   *)
(* The inductive invariant is IInv.                                         *)
(***************************************************************************)
EXTENDS BoundedTaskExecutor, FiniteSetTheorems, WellFoundedInduction, TLAPS

Live == {"queued", "running", "ready"}

(* A worker between its critical sections holds a running job of its own.   *)
WorkersHold ==
  \A w \in Busy :
    /\ worker[w].job \in Jobs
    /\ jobState[worker[w].job] = "running"
    /\ worker[w].step = "claimed" => executions[worker[w].job] = 0
    /\ \A v \in Busy : worker[v].job = worker[w].job => v = w

(* What a job's state says about its flags and its history.                 *)
JobHistory ==
  \A j \in Jobs :
    /\ admission[j] # "accepted" => jobState[j] = "new"
    /\ jobState[j] \in {"new", "queued", "ready"} => ~cancelled[j]
    /\ jobState[j] \in {"new", "queued"} => executions[j] = 0
    /\ executions[j] <= 1
    /\ j \in handed => jobState[j] = "retired" /\ ~cancelled[j]
    /\ deadline[j] <= now + Timeout

IInv ==
  /\ TypeOK
  /\ JobPlaces
  /\ WorkersHold
  /\ JobHistory
  /\ CountsAgree
  /\ QueueInDeadlineOrder
  /\ Len(queue) <= QueueCapacity
  /\ counts["outstanding"] <= TotalBound

-----------------------------------------------------------------------------
(* Facts about the helpers.                                                 *)

(* The slot array and the thread set are finite, and so is every part of    *)
(* them that the counters count.                                            *)
LEMMA FiniteParts ==
  /\ IsFiniteSet(Slots) /\ Cardinality(Slots) = SlotCount
  /\ \A S \in SUBSET Slots : IsFiniteSet(S) /\ Cardinality(S) \in Nat
  /\ \A S \in SUBSET Workers : IsFiniteSet(S) /\ Cardinality(S) \in Nat
  /\ Cardinality(Workers) \in Nat /\ TotalBound \in Nat
<1>1. IsFiniteSet(Slots) /\ Cardinality(Slots) = SlotCount
  <2>1. SlotCount \in Nat /\ 0 \in Int /\ SlotCount - 1 \in Int
    BY ExecutorAssumption
  <2>. QED  BY <2>1, FS_Interval DEF Slots
<1>2. \A S \in SUBSET Slots : IsFiniteSet(S) /\ Cardinality(S) \in Nat
  BY Zenon, <1>1, FS_Subset, FS_CardinalityType
<1>3. \A S \in SUBSET Workers : IsFiniteSet(S) /\ Cardinality(S) \in Nat
  BY Zenon, ExecutorAssumption, FS_Subset, FS_CardinalityType
<1>. QED  BY <1>1, <1>2, <1>3, ExecutorAssumption DEF TotalBound

(* std::find returns a null slot whenever there is one.                     *)
LEMMA FreeSlotIsEmpty ==
  ASSUME EmptySlots # {}
  PROVE  FreeSlot \in EmptySlots
<1>1. EmptySlots \subseteq Nat
  BY ExecutorAssumption DEF EmptySlots, Slots
<1>. DEFINE Less == OpToRel(<, Nat)
<1>2. IsWellFoundedOn(Less, Nat)
  BY Zenon, NatLessThanWellFounded
<1>3. \A s, t \in Nat : t < s => <<t, s>> \in Less
  BY Zenon DEF OpToRel
<1>. HIDE DEF Less
<1>4. PICK s \in EmptySlots : \A t \in EmptySlots : ~ (<<t, s>> \in Less)
  BY Zenon, <1>1, <1>2, WFMin
<1>5. \A t \in EmptySlots : ~ (t < s)
  BY Zenon, <1>1, <1>3, <1>4
<1>6. \A t \in EmptySlots : s <= t
  BY <1>1, <1>5
<1>. QED  BY Zenon, <1>6 DEF FreeSlot

(* Erasing a job from a queue that lists it once leaves the other jobs, in  *)
(* their order.                                                             *)
LEMMA EraseProperties ==
  ASSUME NEW q \in Seq(Jobs), NEW i \in 1 .. Len(q),
         \A k \in 1 .. Len(q) : q[k] = q[i] => k = i
  PROVE  /\ Erase(q, q[i]) \in Seq(Jobs)
         /\ Len(Erase(q, q[i])) = Len(q) - 1
         /\ \A k \in 1 .. Len(q) - 1 :
              Erase(q, q[i])[k] = IF k < i THEN q[k] ELSE q[k + 1]
<1>1. (CHOOSE k \in 1 .. Len(q) : q[k] = q[i]) = i
  OBVIOUS
<1>2. Erase(q, q[i]) = [k \in 1 .. Len(q) - 1 |-> IF k < i THEN q[k] ELSE q[k + 1]]
  BY Zenon, <1>1 DEF Erase
<1>3. Len(q) - 1 \in Nat
  OBVIOUS
<1>4. \A k \in 1 .. Len(q) - 1 : (IF k < i THEN q[k] ELSE q[k + 1]) \in Jobs
  OBVIOUS
<1>. QED  BY <1>2, <1>3, <1>4

(* A notification moves blocked threads only.                               *)
LEMMA NotifyFrame ==
  ASSUME TypeOK, NotifyOne \/ NotifyAll
  PROVE  /\ worker' \in [Workers -> [step : WorkerSteps, job : Jobs \cup {NoJob}]]
         /\ Busy' = Busy
         /\ \A w \in Busy : worker'[w] = worker[w]
<1>1. \A w \in Workers : worker[w] = [step |-> worker[w].step, job |-> worker[w].job]
                          /\ worker[w].job \in Jobs \cup {NoJob}
  BY Zenon DEF TypeOK
<1>2. CASE NotifyOne
  <2>1. CASE \A w \in Workers : worker[w].step # "waiting"
    BY Zenon, <1>2, <2>1 DEF NotifyOne, TypeOK, Busy
  <2>2. CASE \E w \in Workers : worker[w].step = "waiting"
    <3>1. PICK v \in Workers : worker[v].step = "waiting"
                               /\ worker' = [worker EXCEPT ![v].step = "idle"]
      BY Zenon, <1>2, <2>2 DEF NotifyOne, SetStep
    <3>2. /\ worker' \in [Workers -> [step : WorkerSteps, job : Jobs \cup {NoJob}]]
          /\ worker'[v].step = "idle"
          /\ \A w \in Workers \ {v} : worker'[w] = worker[w]
      BY ZenonT(60), <1>1, <3>1 DEF TypeOK, WorkerSteps
    <3>. QED  BY Zenon, <3>1, <3>2 DEF Busy
  <2>. QED  BY Zenon, <2>1, <2>2
<1>3. CASE NotifyAll
  <2>1. \A w \in Workers :
          /\ worker'[w] = [worker[w] EXCEPT !.step = IF worker[w].step = "waiting" THEN "idle"
                                                     ELSE worker[w].step]
    BY Zenon, <1>3 DEF NotifyAll
  <2>2. \A w \in Workers :
          /\ worker'[w] \in [step : WorkerSteps, job : Jobs \cup {NoJob}]
          /\ worker'[w].step = IF worker[w].step = "waiting" THEN "idle" ELSE worker[w].step
          /\ worker'[w].job = worker[w].job
    <3>. SUFFICES ASSUME NEW w \in Workers
                  PROVE  /\ worker'[w] \in [step : WorkerSteps, job : Jobs \cup {NoJob}]
                         /\ worker'[w].step = IF worker[w].step = "waiting" THEN "idle"
                                             ELSE worker[w].step
                         /\ worker'[w].job = worker[w].job
      OBVIOUS
    <3>1. worker[w] \in [step : WorkerSteps, job : Jobs \cup {NoJob}]
      BY Zenon DEF TypeOK
    <3>. QED  BY Zenon, <2>1, <3>1 DEF WorkerSteps
  <2>3. worker' \in [Workers -> [step : WorkerSteps, job : Jobs \cup {NoJob}]]
    BY Zenon, <1>3, <2>2 DEF NotifyAll
  <2>4. Busy' = Busy
    BY Zenon, <2>2 DEF Busy
  <2>5. \A w \in Busy : worker'[w] = worker[w]
    BY Zenon, <1>1, <2>1, <2>2 DEF Busy, TypeOK
  <2>. QED  BY Zenon, <2>3, <2>4, <2>5
<1>. QED  BY Zenon, <1>2, <1>3

(* Each live job stands for one slot of its state.                          *)
LEMMA LiveSlot ==
  ASSUME TypeOK, JobPlaces, NEW j \in Jobs, jobState[j] \in Live
  PROVE  /\ slotOf[j] \in Slots /\ slots[slotOf[j]] = j
         /\ slotOf[j] \in SlotsIn(jobState[j])
         /\ slotOf[j] \in Slots \ EmptySlots
         /\ \A s \in Slots : slots[s] = j => s = slotOf[j]
  BY ExecutorAssumption DEF TypeOK, JobPlaces, Live, ownsJob, SlotsIn, EmptySlots

(* retireJob takes exactly the job's slot out of every count.               *)
LEMMA RetireCounts ==
  ASSUME TypeOK, JobPlaces, CountsAgree, NEW j \in Jobs, jobState[j] \in Live, retireJob(j)
  PROVE  /\ counts' \in [Counters -> Nat]
         /\ \A st \in Live : counts'[st] = Cardinality(SlotsIn(st)')
         /\ \A st \in Live : counts'[st] = IF st = jobState[j] THEN counts[st] - 1 ELSE counts[st]
         /\ counts'["outstanding"] = Cardinality((Slots \ EmptySlots)')
         /\ counts'["outstanding"] = counts["outstanding"] - 1
         /\ counts'["admitted"] = counts'["released"] + counts'["outstanding"]
<1>. DEFINE f == slotOf[j]
<1>1. f \in SlotsIn(jobState[j]) /\ f \in Slots \ EmptySlots /\ slots[f] = j
      /\ \A s \in Slots : slots[s] = j => s = f
  BY Zenon, LiveSlot
<1>2. \A st \in Live : SlotsIn(st)' = SlotsIn(st) \ {f}
  <2>. TAKE st \in Live
  <2>1. \A s \in Slots : slots'[s] = IF s = f THEN NoJob ELSE slots[s]
    BY Zenon DEF retireJob, TypeOK
  <2>2. \A s \in Slots : s # f /\ slots[s] # NoJob => jobState'[slots[s]] = jobState[slots[s]]
    BY Zenon, <1>1 DEF retireJob, TypeOK
  <2>. QED  BY <2>1, <2>2 DEF SlotsIn
<1>3. (Slots \ EmptySlots)' = (Slots \ EmptySlots) \ {f}
  BY Zenon, <1>1 DEF retireJob, TypeOK, EmptySlots
<1>4. \A st \in Live : st # jobState[j] => f \notin SlotsIn(st)
  BY Zenon, <1>1 DEF SlotsIn
<1>5. \A st \in Live : IsFiniteSet(SlotsIn(st)) /\ Cardinality(SlotsIn(st)) \in Nat
  BY Zenon, FiniteParts DEF SlotsIn
<1>6. IsFiniteSet(Slots \ EmptySlots) /\ Cardinality(Slots \ EmptySlots) \in Nat
  BY Zenon, FiniteParts
<1>7. \A st \in Live : Cardinality(SlotsIn(st)') =
        IF st = jobState[j] THEN Cardinality(SlotsIn(st)) - 1 ELSE Cardinality(SlotsIn(st))
  BY SMTT(30), <1>1, <1>2, <1>4, <1>5, FS_RemoveElement
<1>8. Cardinality((Slots \ EmptySlots)') = Cardinality(Slots \ EmptySlots) - 1
  BY ZenonT(60), <1>1, <1>3, <1>6, FS_RemoveElement
<1>9. Cardinality((Slots \ EmptySlots)') \in Nat /\ \A st \in Live : Cardinality(SlotsIn(st)') \in Nat
  <2>1. \A st \in Live : SlotsIn(st)' \in SUBSET Slots
    BY Zenon, <1>2 DEF SlotsIn
  <2>2. (Slots \ EmptySlots)' \in SUBSET Slots
    BY Zenon, <1>3
  <2>. QED  BY Zenon, <2>1, <2>2, FiniteParts
<1>10. counts' = RetiredCounts(jobState[j])
  BY Zenon DEF retireJob
<1>11. /\ counts'["queued"] = IF jobState[j] = "queued" THEN counts["queued"] - 1 ELSE counts["queued"]
       /\ counts'["running"] = IF jobState[j] = "running" THEN counts["running"] - 1 ELSE counts["running"]
       /\ counts'["ready"] = IF jobState[j] = "ready" THEN counts["ready"] - 1 ELSE counts["ready"]
       /\ counts'["outstanding"] = counts["outstanding"] - 1
       /\ counts'["released"] = counts["released"] + 1
       /\ counts'["admitted"] = counts["admitted"]
       /\ counts' = [c \in Counters |-> counts'[c]]
  BY Zenon, <1>10 DEF RetiredCounts, Counters, Live
<1>. HIDE DEF f
<1>12. \A st \in Live : counts[st] = Cardinality(SlotsIn(st))
  BY Zenon DEF CountsAgree, Live
<1>13. \A st \in Live : counts'[st] = IF st = jobState[j] THEN counts[st] - 1 ELSE counts[st]
  BY Zenon, <1>11 DEF Live
<1>14. \A st \in Live : counts'[st] = Cardinality(SlotsIn(st)')
  BY Zenon, <1>12, <1>13, <1>7
<1>15. counts'["outstanding"] = Cardinality((Slots \ EmptySlots)')
  BY Zenon, <1>8, <1>11 DEF CountsAgree
<1>16. counts["admitted"] \in Nat /\ counts["released"] \in Nat /\ counts["outstanding"] \in Nat
  BY Zenon DEF TypeOK, Counters
<1>17. counts' \in [Counters -> Nat]
  <2>1. \A c \in Counters : counts'[c] \in Nat
    BY <1>9, <1>11, <1>14, <1>15, <1>16 DEF Counters, Live
  <2>. QED  BY Zenon, <1>11, <2>1
<1>18. counts'["admitted"] = counts'["released"] + counts'["outstanding"]
  BY <1>11, <1>16 DEF CountsAgree
<1>. QED  BY Zenon, <1>11, <1>13, <1>14, <1>15, <1>17, <1>18

(* retireJob empties the job's slot and leaves all other jobs in place.     *)
LEMMA RetirePlaces ==
  ASSUME TypeOK, JobPlaces, NEW j \in Jobs, jobState[j] \in Live, retireJob(j), UNCHANGED slotOf
  PROVE  /\ jobState' \in [Jobs -> JobStates]
         /\ slots' \in [Slots -> Jobs \cup {NoJob}]
         /\ \A s \in Slots : slots'[s] # NoJob =>
              slotOf'[slots'[s]] = s /\ jobState'[slots'[s]] \in Live
         /\ \A k \in Jobs : jobState'[k] \in Live => ownsJob(k)'
         /\ \A k \in Jobs : jobState'[k] = IF k = j THEN "retired" ELSE jobState[k]
<1>1. \A k \in Jobs : jobState'[k] = IF k = j THEN "retired" ELSE jobState[k]
  BY Zenon DEF retireJob, TypeOK
<1>2. \A s \in Slots : slots'[s] = IF s = slotOf[j] THEN NoJob ELSE slots[s]
  BY Zenon DEF retireJob, TypeOK
<1>3. jobState' \in [Jobs -> JobStates] /\ slots' \in [Slots -> Jobs \cup {NoJob}]
  BY Zenon, LiveSlot DEF retireJob, TypeOK, JobStates
<1>4. \A s \in Slots : slots'[s] # NoJob =>
        slotOf'[slots'[s]] = s /\ jobState'[slots'[s]] \in Live
  <2>. SUFFICES ASSUME NEW s \in Slots, slots'[s] # NoJob
                PROVE  slotOf[slots'[s]] = s /\ jobState'[slots'[s]] \in Live
    BY Zenon
  <2>1. s # slotOf[j] /\ slots'[s] = slots[s]
    BY Zenon, <1>2
  <2>2. slots[s] \in Jobs /\ slotOf[slots[s]] = s /\ jobState[slots[s]] \in Live
    <3>1. slots[s] # NoJob /\ slots[s] \in Jobs \cup {NoJob}
      BY Zenon, <2>1 DEF TypeOK
    <3>2. slotOf[slots[s]] = s /\ jobState[slots[s]] \in Live
      BY Zenon, <3>1 DEF JobPlaces, Live
    <3>. QED  BY Zenon, <3>1, <3>2
  <2>3. jobState'[slots[s]] = jobState[slots[s]]
    BY Zenon, <1>1, <2>1, <2>2
  <2>. QED  BY Zenon, <2>1, <2>2, <2>3
<1>5. \A k \in Jobs : jobState'[k] \in Live => ownsJob(k)'
  <2>. SUFFICES ASSUME NEW k \in Jobs, jobState'[k] \in Live
                PROVE  slots'[slotOf[k]] = k
    BY Zenon DEF ownsJob
  <2>1. k # j /\ jobState[k] \in Live
    BY Zenon, <1>1 DEF Live
  <2>2. slots[slotOf[k]] = k /\ slotOf[k] \in Slots /\ slots[slotOf[j]] = j
    BY Zenon, <2>1, LiveSlot
  <2>. QED  BY Zenon, <1>2, <2>1, <2>2
<1>. QED  BY Zenon, <1>1, <1>3, <1>4, <1>5

(* A Ready job leaves through collectTask or cancelTask.                    *)
LEMMA ReadyLeaves ==
  ASSUME IInv, NEW j \in Jobs, jobState[j] = "ready", retireJob(j),
         UNCHANGED <<phase, stopping, deadline, slotOf, queue, worker, admission, executions, now>>,
         \/ cancelled' = [cancelled EXCEPT ![j] = TRUE] /\ UNCHANGED handed
         \/ handed' = handed \cup {j} /\ UNCHANGED cancelled
  PROVE  IInv'
<1>. USE DEF IInv
<1>1. jobState[j] \in Live
  BY Zenon DEF Live
<1>2. /\ jobState' \in [Jobs -> JobStates]
      /\ slots' \in [Slots -> Jobs \cup {NoJob}]
      /\ \A s \in Slots : slots'[s] # NoJob =>
           slotOf'[slots'[s]] = s /\ jobState'[slots'[s]] \in Live
      /\ \A k \in Jobs : jobState'[k] \in Live => ownsJob(k)'
      /\ \A k \in Jobs : jobState'[k] = IF k = j THEN "retired" ELSE jobState[k]
  BY Zenon, <1>1, RetirePlaces
<1>3. /\ counts' \in [Counters -> Nat]
      /\ \A st \in Live : counts'[st] = Cardinality(SlotsIn(st)')
      /\ counts'["queued"] = counts["queued"] /\ counts'["running"] = counts["running"]
      /\ counts'["outstanding"] = Cardinality((Slots \ EmptySlots)')
      /\ counts'["outstanding"] = counts["outstanding"] - 1
      /\ counts'["admitted"] = counts'["released"] + counts'["outstanding"]
  BY Zenon, <1>1, RetireCounts DEF Live
<1>4. Busy' = Busy
  BY Zenon DEF Busy
<1>5. TypeOK'
  BY Zenon, <1>2, <1>3 DEF TypeOK
<1>6. JobPlaces'
  <2>1. \A i \in 1 .. Len(queue) : queue[i] \in Jobs
    BY DEF TypeOK
  <2>2. \A i \in 1 .. Len(queue) :
          /\ jobState'[queue[i]] = "queued"
          /\ \A k \in 1 .. Len(queue) : queue[i] = queue[k] => i = k
    BY Zenon, <1>2, <2>1 DEF JobPlaces
  <2>3. \A k \in Jobs : jobState'[k] = "queued" => \E i \in 1 .. Len(queue) : queue[i] = k
    BY Zenon, <1>2 DEF JobPlaces
  <2>. QED  BY <1>2, <2>2, <2>3 DEF JobPlaces, Live
<1>7. WorkersHold'
  BY ZenonT(30), <1>2, <1>4 DEF WorkersHold
<1>8. JobHistory'
  BY <1>2 DEF JobHistory, TypeOK
<1>9. CountsAgree'
  <2>1. /\ counts'["queued"] = Len(queue')
        /\ counts'["running"] = Cardinality(Busy')
    BY Zenon, <1>3, <1>4 DEF CountsAgree
  <2>. QED  BY Zenon, <1>3, <2>1 DEF CountsAgree, Live
<1>10. QueueInDeadlineOrder' /\ Len(queue') <= QueueCapacity /\ counts'["outstanding"] <= TotalBound'
  <2>1. counts["outstanding"] \in Nat /\ TotalBound \in Nat /\ TotalBound' = TotalBound
    BY Zenon, FiniteParts DEF TypeOK, Counters, TotalBound
  <2>. QED  BY SMTT(30), <1>3, <2>1 DEF QueueInDeadlineOrder
<1>. QED  BY Zenon, <1>5, <1>6, <1>7, <1>8, <1>9, <1>10

(* A queued job leaves through cancelTask.                                  *)
LEMMA QueuedLeaves ==
  ASSUME IInv, NEW j \in Jobs, jobState[j] = "queued", retireJob(j),
         queue' = Erase(queue, j), cancelled' = [cancelled EXCEPT ![j] = TRUE],
         UNCHANGED <<phase, stopping, deadline, slotOf, worker, admission, executions, handed, now>>
  PROVE  IInv'
<1>. USE DEF IInv
<1>1. jobState[j] \in Live
  BY Zenon DEF Live
<1>2. /\ jobState' \in [Jobs -> JobStates]
      /\ slots' \in [Slots -> Jobs \cup {NoJob}]
      /\ \A s \in Slots : slots'[s] # NoJob =>
           slotOf'[slots'[s]] = s /\ jobState'[slots'[s]] \in Live
      /\ \A k \in Jobs : jobState'[k] \in Live => ownsJob(k)'
      /\ \A k \in Jobs : jobState'[k] = IF k = j THEN "retired" ELSE jobState[k]
  BY Zenon, <1>1, RetirePlaces
<1>3. /\ counts' \in [Counters -> Nat]
      /\ \A st \in Live : counts'[st] = Cardinality(SlotsIn(st)')
      /\ counts'["queued"] = counts["queued"] - 1 /\ counts'["running"] = counts["running"]
      /\ counts'["outstanding"] = Cardinality((Slots \ EmptySlots)')
      /\ counts'["outstanding"] = counts["outstanding"] - 1
      /\ counts'["admitted"] = counts'["released"] + counts'["outstanding"]
  BY ZenonT(60), <1>1, RetireCounts DEF Live
<1>4. Busy' = Busy
  BY Zenon DEF Busy
<1>5. PICK i \in 1 .. Len(queue) : queue[i] = j
  BY Zenon DEF JobPlaces
<1>6. /\ queue \in Seq(Jobs) /\ Len(queue) \in Nat
      /\ \A k \in 1 .. Len(queue) : queue[k] = queue[i] => k = i
      /\ \A k \in 1 .. Len(queue) : queue[k] \in Jobs
  <2>1. queue \in Seq(Jobs)
    BY Zenon DEF TypeOK
  <2>2. \A k \in 1 .. Len(queue) : queue[k] = queue[i] => k = i
    BY Zenon, <1>5 DEF JobPlaces
  <2>. QED  BY <2>1, <2>2
<1>7. /\ queue' \in Seq(Jobs)
      /\ Len(queue') = Len(queue) - 1
      /\ \A k \in 1 .. Len(queue) - 1 : queue'[k] = IF k < i THEN queue[k] ELSE queue[k + 1]
  BY Zenon, <1>5, <1>6, EraseProperties
<1>8. TypeOK'
  BY Zenon, <1>2, <1>3, <1>7 DEF TypeOK
<1>9. JobPlaces'
  <2>1. ASSUME NEW k \in 1 .. Len(queue')
        PROVE  /\ jobState'[queue'[k]] = "queued"
               /\ \A m \in 1 .. Len(queue') : queue'[k] = queue'[m] => k = m
    <3>1. PICK n \in 1 .. Len(queue) : queue'[k] = queue[n] /\ n = IF k < i THEN k ELSE k + 1
      BY <1>6, <1>7
    <3>2. queue[n] # j /\ queue[n] \in Jobs /\ jobState[queue[n]] = "queued"
      BY <1>5, <1>6, <3>1 DEF JobPlaces
    <3>3. ASSUME NEW m \in 1 .. Len(queue'), queue'[k] = queue'[m]
          PROVE  k = m
      <4>1. PICK p \in 1 .. Len(queue) : queue'[m] = queue[p] /\ p = IF m < i THEN m ELSE m + 1
        BY <1>6, <1>7
      <4>2. n = p
        BY <3>1, <3>3, <4>1 DEF JobPlaces
      <4>. QED  BY <1>6, <1>7, <3>1, <4>1, <4>2
    <3>. QED  BY <1>2, <3>1, <3>2, <3>3
  <2>2. ASSUME NEW k \in Jobs, jobState'[k] = "queued"
        PROVE  \E m \in 1 .. Len(queue') : queue'[m] = k
    <3>1. jobState[k] = "queued" /\ k # j
      BY Zenon, <1>2, <2>2
    <3>2. PICK m \in 1 .. Len(queue) : queue[m] = k
      BY Zenon, <3>1 DEF JobPlaces
    <3>3. CASE m < i
      BY SMTT(30), <1>5, <1>6, <1>7, <3>2, <3>3
    <3>4. CASE m > i
      <4>1. m - 1 \in 1 .. Len(queue') /\ queue'[m - 1] = queue[m]
        BY <1>5, <1>6, <1>7, <3>2, <3>4
      <4>. QED  BY Zenon, <3>2, <4>1
    <3>. QED  BY <1>5, <3>1, <3>2, <3>3, <3>4
  <2>. QED  BY Zenon, <1>2, <2>1, <2>2 DEF JobPlaces, Live
<1>10. WorkersHold'
  BY ZenonT(30), <1>2, <1>4 DEF WorkersHold
<1>11. JobHistory'
  BY ZenonT(30), <1>2 DEF JobHistory, TypeOK
<1>12. CountsAgree'
  <2>1. /\ counts'["queued"] = Len(queue')
        /\ counts'["running"] = Cardinality(Busy')
    BY Zenon, <1>3, <1>4, <1>7 DEF CountsAgree
  <2>. QED  BY Zenon, <1>3, <2>1 DEF CountsAgree, Live
<1>13. QueueInDeadlineOrder'
  <2>. SUFFICES ASSUME NEW a \in 1 .. Len(queue'), NEW b \in 1 .. Len(queue'), a <= b
                PROVE  deadline[queue'[a]] <= deadline[queue'[b]]
    BY Zenon DEF QueueInDeadlineOrder
  <2>. DEFINE m == IF a < i THEN a ELSE a + 1
              n == IF b < i THEN b ELSE b + 1
  <2>1. m \in 1 .. Len(queue) /\ n \in 1 .. Len(queue) /\ m <= n
    BY <1>6, <1>7
  <2>2. queue'[a] = queue[m] /\ queue'[b] = queue[n]
    BY Zenon, <1>6, <1>7
  <2>. QED  BY Zenon, <2>1, <2>2 DEF QueueInDeadlineOrder
<1>14. Len(queue') <= QueueCapacity /\ counts'["outstanding"] <= TotalBound'
  <2>1. counts["outstanding"] \in Nat /\ TotalBound \in Nat /\ TotalBound' = TotalBound
        /\ QueueCapacity \in Nat
    BY Zenon, FiniteParts, ExecutorAssumption DEF TypeOK, Counters, TotalBound
  <2>. QED  BY SMTT(30), <1>3, <1>6, <1>7, <2>1
<1>. QED  BY Zenon, <1>8, <1>9, <1>10, <1>11, <1>12, <1>13, <1>14

(* A live job that changes its state keeps its slot: one slot moves from    *)
(* the count of the old state to that of the new one.                       *)
LEMMA SlotMoves ==
  ASSUME TypeOK, JobPlaces, CountsAgree, NEW j \in Jobs,
         NEW a \in Live, NEW b \in Live, jobState[j] = a, a # b,
         jobState' = [jobState EXCEPT ![j] = b], UNCHANGED <<slots, slotOf>>,
         counts' = [counts EXCEPT ![a] = @ - 1, ![b] = @ + 1]
  PROVE  /\ counts' \in [Counters -> Nat]
         /\ \A st \in Live : counts'[st] = Cardinality(SlotsIn(st)')
         /\ \A st \in Live : counts'[st] = IF st = a THEN counts[st] - 1
                                           ELSE IF st = b THEN counts[st] + 1 ELSE counts[st]
         /\ counts'["outstanding"] = Cardinality((Slots \ EmptySlots)')
         /\ counts'["outstanding"] = counts["outstanding"]
         /\ counts'["admitted"] = counts'["released"] + counts'["outstanding"]
         /\ \A s \in Slots : slots'[s] # NoJob =>
              slotOf'[slots'[s]] = s /\ jobState'[slots'[s]] \in Live
         /\ \A k \in Jobs : jobState'[k] \in Live => ownsJob(k)'
<1>. DEFINE f == slotOf[j]
<1>1. f \in Slots /\ slots[f] = j /\ \A s \in Slots : slots[s] = j => s = f
  BY Zenon, LiveSlot
<1>2. \A k \in Jobs : jobState'[k] = IF k = j THEN b ELSE jobState[k]
  BY Zenon DEF TypeOK
<1>3. \A s \in Slots : slots[s] # NoJob => slots[s] \in Jobs
  BY Zenon DEF TypeOK
<1>4. \A s \in Slots \ {f} : slots[s] # NoJob => jobState'[slots[s]] = jobState[slots[s]]
  BY Zenon, <1>1, <1>2, <1>3
<1>5. \A st \in Live \ {a, b} : SlotsIn(st)' = SlotsIn(st)
  BY <1>1, <1>2, <1>4 DEF SlotsIn
<1>6. SlotsIn(a)' = SlotsIn(a) \ {f} /\ f \in SlotsIn(a)
  BY <1>1, <1>2, <1>4, ExecutorAssumption DEF SlotsIn
<1>7. SlotsIn(b)' = SlotsIn(b) \cup {f} /\ f \notin SlotsIn(b)
  BY <1>1, <1>2, <1>4, ExecutorAssumption DEF SlotsIn
<1>8. \A st \in Live : IsFiniteSet(SlotsIn(st)) /\ Cardinality(SlotsIn(st)) \in Nat
  BY Zenon, FiniteParts DEF SlotsIn
<1>9. \A st \in Live : counts[st] = Cardinality(SlotsIn(st)) /\ st \in Counters
  BY Zenon DEF CountsAgree, Live, Counters
<1>. HIDE DEF f
<1>10. Cardinality(SlotsIn(a)') = Cardinality(SlotsIn(a)) - 1
  BY ZenonT(60), <1>6, <1>8, FS_RemoveElement
<1>11. Cardinality(SlotsIn(b)') = Cardinality(SlotsIn(b)) + 1
  BY Zenon, <1>7, <1>8, FS_AddElement
<1>12. a \in Counters /\ b \in Counters /\ a \in Live /\ a # b
  BY Zenon, <1>9
<1>13. /\ \A c \in Counters : counts'[c] = IF c = a THEN counts[c] - 1
                                           ELSE IF c = b THEN counts[c] + 1 ELSE counts[c]
       /\ counts' = [c \in Counters |-> counts'[c]]
  BY Zenon, <1>12 DEF TypeOK
<1>14. \A st \in Live : counts'[st] = Cardinality(SlotsIn(st)')
  <2>. TAKE st \in Live
  <2>1. CASE st = a
    BY Zenon, <1>9, <1>10, <1>12, <1>13, <2>1
  <2>2. CASE st = b
    BY Zenon, <1>9, <1>11, <1>12, <1>13, <2>2
  <2>3. CASE st # a /\ st # b
    BY Zenon, <1>5, <1>9, <1>13, <2>3
  <2>. QED  BY Zenon, <2>1, <2>2, <2>3
<1>15. counts' \in [Counters -> Nat]
  <2>1. SlotsIn(a)' \in SUBSET Slots
    BY Zenon, <1>6 DEF SlotsIn
  <2>2. counts'[a] \in Nat
    BY Zenon, <1>12, <1>14, <2>1, FiniteParts
  <2>3. \A c \in Counters : counts[c] \in Nat
    BY Zenon DEF TypeOK
  <2>4. ASSUME NEW c \in Counters
        PROVE  counts'[c] \in Nat
    <3>1. counts[c] \in Nat /\ counts'[c] = IF c = a THEN counts[c] - 1
                                            ELSE IF c = b THEN counts[c] + 1 ELSE counts[c]
      BY ZenonT(60), <1>13, <2>3
    <3>2. CASE c = a
      BY Zenon, <2>2, <3>2
    <3>3. CASE c = b
      <4>1. counts'[c] = counts[c] + 1
        BY Zenon, <1>12, <3>1, <3>3
      <4>. QED  BY <3>1, <4>1
    <3>4. CASE c # a /\ c # b
      BY Zenon, <3>1, <3>4
    <3>. QED  BY Zenon, <3>2, <3>3, <3>4
  <2>. QED  BY Zenon, <1>13, <2>4
<1>16. /\ counts'["outstanding"] = counts["outstanding"]
       /\ counts'["admitted"] = counts["admitted"] /\ counts'["released"] = counts["released"]
  BY Zenon, <1>12, <1>13 DEF Counters, Live
<1>17. counts'["outstanding"] = Cardinality((Slots \ EmptySlots)')
  BY Zenon, <1>16 DEF CountsAgree, EmptySlots
<1>18. counts'["admitted"] = counts'["released"] + counts'["outstanding"]
  BY Zenon, <1>16 DEF CountsAgree
<1>19. \A s \in Slots : slots'[s] # NoJob =>
         slotOf'[slots'[s]] = s /\ jobState'[slots'[s]] \in Live
  BY SMTT(30), <1>2, <1>3 DEF JobPlaces, Live
<1>20. \A k \in Jobs : jobState'[k] \in Live => ownsJob(k)'
  BY <1>2 DEF JobPlaces, Live, ownsJob
<1>21. \A st \in Live : counts'[st] = IF st = a THEN counts[st] - 1
                                      ELSE IF st = b THEN counts[st] + 1 ELSE counts[st]
  BY Zenon, <1>9, <1>13
<1>. QED  BY ZenonT(60), <1>14, <1>15, <1>16, <1>17, <1>18, <1>19, <1>20, <1>21

-----------------------------------------------------------------------------
(* Steps that preserve the invariant.                                       *)

(* A submission, refused or accepted.                                       *)
LEMMA SubmitStep ==
  ASSUME IInv, NEW j \in Jobs, submitTask(j)
  PROVE  IInv'
<1>. USE DEF IInv
<1>. DEFINE room == ~stopping /\ Len(queue) # QueueCapacity /\ counts["outstanding"] # TotalBound
<1>1. CASE ~room
  <2>1. /\ UNCHANGED <<jobVars, poolVars, worker>>
        /\ \E a \in {"stopping", "overloaded"} : admission' = [admission EXCEPT ![j] = a]
        /\ admission[j] = "none" /\ UNCHANGED <<phase, stopping, executions, handed, now>>
    BY Zenon, <1>1 DEF submitTask
  <2>2. PICK a \in {"stopping", "overloaded"} : admission' = [admission EXCEPT ![j] = a]
    BY ZenonT(60), <2>1
  <2>. USE <2>1, <2>2 DEF jobVars, poolVars
  <2>3. TypeOK'
    BY Zenon DEF TypeOK
  <2>4. JobHistory'
    BY Zenon DEF JobHistory, TypeOK
  <2>5. JobPlaces'
    BY DEF JobPlaces, ownsJob
  <2>6. CountsAgree'
    BY Zenon DEF CountsAgree, SlotsIn, EmptySlots, Busy
  <2>7. QueueInDeadlineOrder' /\ WorkersHold'
    BY Zenon DEF QueueInDeadlineOrder, WorkersHold, Busy
  <2>. QED  BY Zenon, <2>3, <2>4, <2>5, <2>6, <2>7 DEF TotalBound
<1>2. CASE room
  <2>. DEFINE f == FreeSlot
  <2>1. /\ Len(queue) # QueueCapacity /\ counts["outstanding"] # TotalBound
        /\ admission[j] = "none" /\ admission' = [admission EXCEPT ![j] = "accepted"]
        /\ jobState' = [jobState EXCEPT ![j] = "queued"]
        /\ deadline' = [deadline EXCEPT ![j] = now + Timeout]
        /\ slotOf' = [slotOf EXCEPT ![j] = f]
        /\ slots' = [slots EXCEPT ![f] = j]
        /\ queue' = Append(queue, j)
        /\ counts' = [c \in Counters |-> IF c \in {"queued", "outstanding", "admitted"}
                                         THEN counts[c] + 1 ELSE counts[c]]
        /\ NotifyOne
        /\ UNCHANGED <<phase, stopping, cancelled, executions, handed, now>>
    BY Zenon, <1>2 DEF submitTask, PushBack
  <2>2. EmptySlots # {}
    <3>1. /\ counts["outstanding"] \in Nat /\ TotalBound \in Nat
          /\ TotalBound <= SlotCount /\ SlotCount \in Nat
          /\ counts["outstanding"] = Cardinality(Slots \ EmptySlots)
      BY Zenon, FiniteParts, ExecutorAssumption DEF TypeOK, Counters, TotalBound, CountsAgree
    <3>2. counts["outstanding"] < SlotCount
      BY <2>1, <3>1
    <3>3. EmptySlots = {} => Cardinality(Slots \ EmptySlots) = SlotCount
      <4>1. EmptySlots = {} => Slots \ EmptySlots = Slots
        OBVIOUS
      <4>. QED  BY Zenon, <4>1, FiniteParts
    <3>. QED  BY <3>1, <3>2, <3>3
  <2>3. f \in Slots /\ slots[f] = NoJob
    BY Zenon, <2>2, FreeSlotIsEmpty DEF EmptySlots
  <2>. HIDE DEF f
  <2>4. jobState[j] = "new" /\ j # NoJob
    BY Zenon, <2>1, ExecutorAssumption DEF JobHistory
  <2>5. /\ worker' \in [Workers -> [step : WorkerSteps, job : Jobs \cup {NoJob}]]
        /\ Busy' = Busy
        /\ \A w \in Busy : worker'[w] = worker[w]
    BY Zenon, <2>1, NotifyFrame
  <2>6. /\ \A k \in Jobs : jobState'[k] = IF k = j THEN "queued" ELSE jobState[k]
        /\ \A k \in Jobs : deadline'[k] = IF k = j THEN now + Timeout ELSE deadline[k]
        /\ \A k \in Jobs : slotOf'[k] = IF k = j THEN f ELSE slotOf[k]
        /\ \A k \in Jobs : admission'[k] = IF k = j THEN "accepted" ELSE admission[k]
        /\ \A s \in Slots : slots'[s] = IF s = f THEN j ELSE slots[s]
    BY Zenon, <2>1, <2>3 DEF TypeOK
  <2>7. /\ queue \in Seq(Jobs) /\ Len(queue) \in Nat
        /\ \A i \in 1 .. Len(queue) : queue[i] \in Jobs
    BY SMTT(30) DEF TypeOK
  <2>8. /\ queue' \in Seq(Jobs) /\ Len(queue') = Len(queue) + 1
        /\ \A i \in 1 .. Len(queue) : queue'[i] = queue[i]
        /\ queue'[Len(queue) + 1] = j
    BY <2>1, <2>7
  <2>9. \A i \in 1 .. Len(queue) : queue[i] # j
    BY Zenon, <2>4, <2>7 DEF JobPlaces
  <2>10. /\ \A c \in Counters : counts[c] \in Nat
         /\ counts'["queued"] = counts["queued"] + 1
         /\ counts'["running"] = counts["running"]
         /\ counts'["ready"] = counts["ready"]
         /\ counts'["outstanding"] = counts["outstanding"] + 1
         /\ counts'["admitted"] = counts["admitted"] + 1
         /\ counts'["released"] = counts["released"]
    BY Zenon, <2>1 DEF TypeOK, Counters
  <2>11. counts' \in [Counters -> Nat]
    BY SMTT(30), <2>1, <2>10
  <2>12. TypeOK'
    BY SMTT(30), <2>1, <2>3, <2>5, <2>8, <2>11, ExecutorAssumption DEF TypeOK, JobStates
  <2>13. JobPlaces'
    <3>1. ASSUME NEW s \in Slots, slots'[s] # NoJob
          PROVE  slotOf'[slots'[s]] = s /\ jobState'[slots'[s]] \in Live
      <4>1. CASE s = f
        BY ZenonT(30), <2>6, <4>1 DEF Live
      <4>2. CASE s # f
        <5>1. slots'[s] = slots[s] /\ slots[s] \in Jobs
          BY <2>6, <3>1, <4>2 DEF TypeOK
        <5>2. slotOf[slots[s]] = s /\ jobState[slots[s]] \in Live
          BY Zenon, <3>1, <5>1 DEF JobPlaces, Live
        <5>. QED  BY <2>4, <2>6, <5>1, <5>2 DEF Live
      <4>. QED  BY Zenon, <4>1, <4>2
    <3>2. ASSUME NEW k \in Jobs, jobState'[k] \in Live
          PROVE  ownsJob(k)'
      <4>1. CASE k = j
        BY Zenon, <2>3, <2>6, <4>1 DEF ownsJob
      <4>2. CASE k # j
        <5>1. slotOf[k] \in Slots /\ slots[slotOf[k]] = k
          BY Zenon, <2>6, <3>2, <4>2, LiveSlot
        <5>2. slotOf[k] # f
          BY Zenon, <2>3, <5>1, ExecutorAssumption
        <5>. QED  BY ZenonT(30), <2>6, <4>2, <5>1, <5>2 DEF ownsJob
      <4>. QED  BY Zenon, <4>1, <4>2
    <3>3. ASSUME NEW i \in 1 .. Len(queue')
          PROVE  /\ jobState'[queue'[i]] = "queued"
                 /\ \A k \in 1 .. Len(queue') : queue'[i] = queue'[k] => i = k
      BY SMTT(30), <2>6, <2>7, <2>8, <2>9 DEF JobPlaces
    <3>4. ASSUME NEW k \in Jobs, jobState'[k] = "queued"
          PROVE  \E i \in 1 .. Len(queue') : queue'[i] = k
      BY <2>6, <2>7, <2>8, <3>4 DEF JobPlaces
    <3>. QED  BY Zenon, <3>1, <3>2, <3>3, <3>4 DEF JobPlaces, Live
  <2>14. WorkersHold'
    BY SMTT(30), <2>1, <2>4, <2>5, <2>6 DEF WorkersHold
  <2>15. JobHistory'
    <3>. SUFFICES ASSUME NEW k \in Jobs
                  PROVE  /\ admission'[k] # "accepted" => jobState'[k] = "new"
                         /\ jobState'[k] \in {"new", "queued", "ready"} => ~cancelled[k]
                         /\ jobState'[k] \in {"new", "queued"} => executions[k] = 0
                         /\ executions[k] <= 1
                         /\ k \in handed => jobState'[k] = "retired" /\ ~cancelled[k]
                         /\ deadline'[k] <= now + Timeout
      BY Zenon, <2>1 DEF JobHistory
    <3>1. now + Timeout \in Int
      BY ExecutorAssumption DEF TypeOK
    <3>. QED  BY <2>4, <2>6, <3>1 DEF JobHistory
  <2>16. CountsAgree'
    <3>0. \A s \in Slots \ {f} :
            /\ slots'[s] = slots[s]
            /\ slots[s] # NoJob => jobState'[slots[s]] = jobState[slots[s]]
      <4>1. ASSUME NEW s \in Slots, slots[s] # NoJob
            PROVE  slots[s] \in Jobs /\ slots[s] # j
        <5>1. jobState[slots[s]] # "new"
          BY Zenon, <4>1 DEF JobPlaces
        <5>. QED  BY Zenon, <2>4, <4>1, <5>1 DEF TypeOK
      <4>. QED  BY Zenon, <2>6, <4>1
    <3>11. slots'[f] = j /\ jobState'[j] = "queued"
      BY ZenonT(30), <2>3, <2>6
    <3>1. SlotsIn("queued")' = SlotsIn("queued") \cup {f} /\ f \notin SlotsIn("queued")
      BY <2>3, <2>4, <3>0, <3>11 DEF SlotsIn
    <3>2. SlotsIn("running")' = SlotsIn("running") /\ SlotsIn("ready")' = SlotsIn("ready")
      BY <2>3, <2>4, <3>0, <3>11 DEF SlotsIn
    <3>3. (Slots \ EmptySlots)' = (Slots \ EmptySlots) \cup {f} /\ f \notin Slots \ EmptySlots
      BY <2>3, <2>4, <2>6 DEF EmptySlots
    <3>4. IsFiniteSet(SlotsIn("queued")) /\ IsFiniteSet(Slots \ EmptySlots)
      BY Zenon, FiniteParts DEF SlotsIn
    <3>5. Cardinality(SlotsIn("queued")') = Cardinality(SlotsIn("queued")) + 1
      BY Zenon, <3>1, <3>4, FS_AddElement
    <3>6. Cardinality((Slots \ EmptySlots)') = Cardinality(Slots \ EmptySlots) + 1
      BY Zenon, <3>3, <3>4, FS_AddElement
    <3>7. counts'["queued"] = Len(queue') /\ counts'["running"] = Cardinality(Busy')
      BY Zenon, <2>5, <2>8, <2>10 DEF CountsAgree
    <3>8. \A st \in {"queued", "running", "ready"} : counts'[st] = Cardinality(SlotsIn(st)')
      BY Zenon, <2>10, <3>2, <3>5 DEF CountsAgree
    <3>9. counts'["outstanding"] = Cardinality((Slots \ EmptySlots)')
      BY Zenon, <2>10, <3>6 DEF CountsAgree
    <3>10. counts'["admitted"] = counts'["released"] + counts'["outstanding"]
      BY SMTT(30), <2>10 DEF CountsAgree, Counters
    <3>. QED  BY Zenon, <3>7, <3>8, <3>9, <3>10 DEF CountsAgree
  <2>17. QueueInDeadlineOrder'
    <3>. SUFFICES ASSUME NEW a \in 1 .. Len(queue'), NEW b \in 1 .. Len(queue'), a <= b
                  PROVE  deadline'[queue'[a]] <= deadline'[queue'[b]]
      BY Zenon DEF QueueInDeadlineOrder
    <3>1. \A i \in 1 .. Len(queue) : deadline'[queue'[i]] = deadline[queue[i]]
      BY ZenonT(30), <2>6, <2>7, <2>8, <2>9
    <3>2. \A i \in 1 .. Len(queue) : deadline[queue[i]] <= now + Timeout
      BY Zenon, <2>7 DEF JobHistory
    <3>3. deadline'[queue'[Len(queue) + 1]] = now + Timeout /\ now + Timeout \in Int
      BY <2>6, <2>8, ExecutorAssumption DEF TypeOK
    <3>4. CASE b \in 1 .. Len(queue)
      BY <2>7, <3>1, <3>4 DEF QueueInDeadlineOrder
    <3>5. CASE b = Len(queue) + 1
      BY SMTT(30), <2>7, <2>8, <3>1, <3>2, <3>3, <3>5
    <3>. QED  BY <2>7, <2>8, <3>4, <3>5
  <2>18. Len(queue') <= QueueCapacity /\ counts'["outstanding"] <= TotalBound'
    <3>1. TotalBound \in Nat /\ TotalBound' = TotalBound /\ QueueCapacity \in Nat
          /\ counts["outstanding"] \in Nat /\ counts["outstanding"] <= TotalBound
      BY Zenon, <2>10, FiniteParts, ExecutorAssumption DEF TotalBound, Counters
    <3>. QED  BY SMTT(30), <2>1, <2>7, <2>8, <2>10, <3>1
  <2>. QED  BY Zenon, <2>12, <2>13, <2>14, <2>15, <2>16, <2>17, <2>18
<1>. QED  BY Zenon, <1>1, <1>2

(* A thread that holds no job changes its step: it starts, blocks, wakes or *)
(* returns.                                                                 *)
LEMMA FreeThreadSteps ==
  ASSUME IInv, NEW w \in Workers, w \notin Busy,
         NEW step \in WorkerSteps \ {"claimed", "executing", "skipped"}, SetStep(w, step),
         phase' \in Phases,
         UNCHANGED <<stopping, jobVars, poolVars, admission, executions, handed, now>>
  PROVE  IInv'
<1>. USE DEF IInv, jobVars, poolVars
<1>1. /\ worker' \in [Workers -> [step : WorkerSteps, job : Jobs \cup {NoJob}]]
      /\ worker'[w].step = step
      /\ \A v \in Workers \ {w} : worker'[v] = worker[v]
  BY ZenonT(60) DEF TypeOK, SetStep
<1>2. Busy' = Busy /\ \A v \in Busy : worker'[v] = worker[v]
  BY Zenon, <1>1 DEF Busy
<1>3. TypeOK'
  BY Zenon, <1>1 DEF TypeOK
<1>4. WorkersHold'
  <2>1. jobState' = jobState /\ executions' = executions /\ WorkersHold
    OBVIOUS
  <2>. QED  BY ONLY <1>2, <2>1 DEF WorkersHold
<1>5. JobPlaces' /\ JobHistory' /\ QueueInDeadlineOrder'
  <2>1. JobPlaces'
    BY DEF JobPlaces, ownsJob
  <2>2. JobHistory'
    BY Zenon DEF JobHistory
  <2>3. QueueInDeadlineOrder'
    BY Zenon DEF QueueInDeadlineOrder
  <2>. QED  BY Zenon, <2>1, <2>2, <2>3
<1>6. CountsAgree'
  BY <1>2 DEF CountsAgree, SlotsIn, EmptySlots
<1>. QED  BY Zenon, <1>3, <1>4, <1>5, <1>6 DEF TotalBound

(* The work is entered, or skipped because it is cancelled or too late.     *)
LEMMA RunStep ==
  ASSUME IInv, NEW w \in Workers, RunTask(w)
  PROVE  IInv'
<1>. USE DEF IInv, jobVars, poolVars
<1>. DEFINE j == worker[w].job
<1>1. w \in Busy /\ j \in Jobs /\ jobState[j] = "running" /\ executions[j] = 0
  BY Zenon DEF RunTask, Busy, WorkersHold
<1>2. PICK step \in {"executing", "skipped"} : SetStep(w, step)
  BY Zenon DEF RunTask
<1>3. executions' = executions \/ executions' = [executions EXCEPT ![j] = @ + 1]
  BY Zenon DEF RunTask
<1>4. UNCHANGED <<phase, stopping, jobVars, poolVars, admission, handed, now>>
  BY Zenon DEF RunTask
<1>5. /\ executions' \in [Jobs -> Nat]
      /\ \A k \in Jobs : k # j => executions'[k] = executions[k]
      /\ executions'[j] <= 1
  BY <1>1, <1>3 DEF TypeOK
<1>6. /\ worker' \in [Workers -> [step : WorkerSteps, job : Jobs \cup {NoJob}]]
      /\ worker'[w].step = step /\ worker'[w].job = j
      /\ \A v \in Workers \ {w} : worker'[v] = worker[v]
  BY ZenonT(60), <1>2 DEF TypeOK, SetStep, WorkerSteps
<1>. HIDE DEF j
<1>7. Busy' = Busy /\ \A v \in Workers : worker'[v].job = worker[v].job
  <2>1. Busy' = Busy
    BY Zenon, <1>1, <1>2, <1>6 DEF Busy
  <2>. QED  BY Zenon, <1>6, <2>1 DEF j
<1>8. TypeOK'
  BY Zenon, <1>4, <1>5, <1>6 DEF TypeOK
<1>9. WorkersHold'
  <2>. SUFFICES ASSUME NEW v \in Busy
                PROVE  /\ worker'[v].job \in Jobs
                       /\ jobState'[worker'[v].job] = "running"
                       /\ worker'[v].step = "claimed" => executions'[worker'[v].job] = 0
                       /\ \A u \in Busy : worker'[u].job = worker'[v].job => u = v
    BY Zenon, <1>7 DEF WorkersHold
  <2>1. /\ worker'[v].job \in Jobs
        /\ jobState'[worker'[v].job] = "running"
        /\ \A u \in Busy : worker'[u].job = worker'[v].job => u = v
    BY Zenon, <1>4, <1>7 DEF WorkersHold, Busy
  <2>2. ASSUME worker'[v].step = "claimed"
        PROVE  executions'[worker'[v].job] = 0
    <3>1. v # w /\ worker'[v] = worker[v] /\ v \in Workers
      BY Zenon, <1>2, <1>6, <2>2 DEF Busy
    <3>2. worker[v].job # j /\ worker[v].job \in Jobs /\ executions[worker[v].job] = 0
      BY Zenon, <1>1, <2>2, <3>1 DEF WorkersHold, j
    <3>. QED  BY Zenon, <1>5, <3>1, <3>2
  <2>. QED  BY Zenon, <2>1, <2>2
<1>10. JobHistory'
  BY Zenon, <1>1, <1>4, <1>5 DEF JobHistory
<1>11. JobPlaces' /\ QueueInDeadlineOrder'
  BY SMTT(30), <1>4 DEF JobPlaces, QueueInDeadlineOrder, ownsJob
<1>12. CountsAgree'
  BY Zenon, <1>4, <1>7 DEF CountsAgree, SlotsIn, EmptySlots
<1>. QED  BY Zenon, <1>4, <1>8, <1>9, <1>10, <1>11, <1>12 DEF TotalBound

(* A running job is marked cancelled; nothing else moves.                   *)
LEMMA RunningMarked ==
  ASSUME IInv, NEW j \in Jobs, jobState[j] = "running",
         cancelled' = [cancelled EXCEPT ![j] = TRUE],
         UNCHANGED <<phase, stopping, jobState, deadline, slotOf, poolVars, worker, admission,
                     executions, handed, now>>
  PROVE  IInv'
<1>. USE DEF IInv, poolVars
<1>1. TypeOK'
  BY Zenon DEF TypeOK
<1>2. WorkersHold' /\ JobPlaces' /\ QueueInDeadlineOrder'
  <2>1. WorkersHold'
    BY Zenon DEF WorkersHold, Busy
  <2>2. JobPlaces'
    BY DEF JobPlaces, ownsJob
  <2>3. QueueInDeadlineOrder'
    BY Zenon DEF QueueInDeadlineOrder
  <2>. QED  BY Zenon, <2>1, <2>2, <2>3
<1>3. JobHistory'
  BY Zenon DEF JobHistory, TypeOK
<1>4. CountsAgree'
  BY Zenon DEF CountsAgree, SlotsIn, EmptySlots, Busy
<1>. QED  BY Zenon, <1>1, <1>2, <1>3, <1>4 DEF TotalBound

(* The clock.                                                               *)
LEMMA TickStep ==
  ASSUME IInv, Tick
  PROVE  IInv'
<1>. USE DEF IInv, jobVars, poolVars
<1>1. /\ now' \in Nat /\ now \in Nat /\ Timeout \in Nat /\ now <= now'
      /\ UNCHANGED <<phase, stopping, jobVars, poolVars, worker, admission, executions, handed>>
  BY ExecutorAssumption DEF Tick, TypeOK
<1>2. TypeOK'
  BY ZenonT(30), <1>1 DEF TypeOK
<1>3. WorkersHold' /\ JobPlaces' /\ QueueInDeadlineOrder'
  BY <1>1 DEF JobPlaces, QueueInDeadlineOrder, ownsJob, WorkersHold, Busy
<1>4. JobHistory'
  BY SMTT(30), <1>1 DEF JobHistory, TypeOK
<1>5. CountsAgree'
  BY Zenon, <1>1 DEF CountsAgree, SlotsIn, EmptySlots, Busy
<1>. QED  BY Zenon, <1>1, <1>2, <1>3, <1>4, <1>5 DEF TotalBound

(* The stop sweeps every job that is not running and marks those that are.  *)
LEMMA CancelAllStep ==
  ASSUME IInv, CancelAll, NotifyAll, phase' \in Phases, stopping' \in BOOLEAN,
         UNCHANGED <<deadline, slotOf, admission, executions, handed, now>>
  PROVE  IInv'
<1>. USE DEF IInv
<1>. DEFINE R == {s \in Slots : slots[s] # NoJob /\ jobState[slots[s]] # "running"}
<1>1. /\ cancelled' = [j \in Jobs |-> cancelled[j] \/ ownsJob(j)]
      /\ jobState' = [j \in Jobs |-> IF ownsJob(j) /\ slots[slotOf[j]] # NoJob
                                        /\ jobState[slots[slotOf[j]]] # "running"
                                     THEN "retired" ELSE jobState[j]]
      /\ slots' = [s \in Slots |-> IF slots[s] # NoJob /\ jobState[slots[s]] # "running"
                                   THEN NoJob ELSE slots[s]]
      /\ queue' = << >>
      /\ counts' = [c \in Counters |->
                      CASE c \in {"queued", "ready"} -> counts[c] - Cardinality(SlotsIn(c))
                        [] c = "outstanding" -> counts[c] - Cardinality(R)
                        [] c = "released"    -> counts[c] + Cardinality(R)
                        [] OTHER             -> counts[c]]
  BY Zenon DEF CancelAll
<1>2. \A j \in Jobs : ownsJob(j) <=> jobState[j] \in Live
  BY ExecutorAssumption DEF JobPlaces, Live, ownsJob, TypeOK
<1>3. \A j \in Jobs : /\ cancelled'[j] = (cancelled[j] \/ jobState[j] \in Live)
                      /\ jobState'[j] = IF jobState[j] \in {"queued", "ready"} THEN "retired"
                                        ELSE jobState[j]
  BY <1>1, <1>2, ExecutorAssumption DEF ownsJob, Live, TypeOK, JobStates
<1>4. \A s \in Slots : /\ slots[s] # NoJob => slots[s] \in Jobs /\ jobState[slots[s]] \in Live
                       /\ slots'[s] = IF s \in R THEN NoJob ELSE slots[s]
  BY SMTT(30), <1>1 DEF JobPlaces, TypeOK, Live
<1>. HIDE DEF R
<1>5. /\ SlotsIn("running")' = SlotsIn("running")
      /\ SlotsIn("queued")' = {} /\ SlotsIn("ready")' = {}
  BY <1>3, <1>4 DEF SlotsIn, R, Live
<1>6. (Slots \ EmptySlots)' = (Slots \ EmptySlots) \ R /\ R \subseteq Slots \ EmptySlots
  BY Zenon, <1>4 DEF EmptySlots, R
<1>7. /\ IsFiniteSet(Slots \ EmptySlots) /\ Cardinality(Slots \ EmptySlots) \in Nat
      /\ IsFiniteSet(R) /\ Cardinality(R) \in Nat
      /\ Cardinality((Slots \ EmptySlots)') \in Nat
      /\ (Slots \ EmptySlots) \cap R = R
  <2>1. (Slots \ EmptySlots)' \in SUBSET Slots /\ R \in SUBSET Slots
    BY Zenon, <1>6
  <2>. QED  BY Zenon, <1>6, <2>1, FiniteParts
<1>8. Cardinality((Slots \ EmptySlots)') = Cardinality(Slots \ EmptySlots) - Cardinality(R)
  BY Zenon, <1>6, <1>7, FS_Difference
<1>9. /\ counts' = [c \in Counters |-> counts'[c]]
      /\ counts'["queued"] = counts["queued"] - Cardinality(SlotsIn("queued"))
      /\ counts'["ready"] = counts["ready"] - Cardinality(SlotsIn("ready"))
      /\ counts'["running"] = counts["running"]
      /\ counts'["outstanding"] = counts["outstanding"] - Cardinality(R)
      /\ counts'["released"] = counts["released"] + Cardinality(R)
      /\ counts'["admitted"] = counts["admitted"]
  BY Zenon, <1>1 DEF Counters
<1>10. \A c \in Counters : counts[c] \in Nat
  BY Zenon DEF TypeOK
<1>11. counts'["queued"] = 0 /\ counts'["ready"] = 0
  <2>1. /\ counts["queued"] = Cardinality(SlotsIn("queued")) /\ counts["queued"] \in Nat
        /\ counts["ready"] = Cardinality(SlotsIn("ready")) /\ counts["ready"] \in Nat
    BY Zenon, <1>10 DEF CountsAgree, Counters
  <2>. QED  BY ONLY <1>9, <2>1
<1>12. counts'["outstanding"] = Cardinality((Slots \ EmptySlots)')
  BY Zenon, <1>8, <1>9 DEF CountsAgree
<1>13. counts' \in [Counters -> Nat]
  <2>1. \A c \in Counters : counts'[c] \in Nat
    BY SMTT(30), <1>7, <1>9, <1>10, <1>11, <1>12 DEF Counters
  <2>. QED  BY Zenon, <1>9, <2>1
<1>14. counts'["admitted"] = counts'["released"] + counts'["outstanding"]
  BY <1>7, <1>9, <1>10 DEF CountsAgree, Counters
<1>15. /\ worker' \in [Workers -> [step : WorkerSteps, job : Jobs \cup {NoJob}]]
       /\ Busy' = Busy
       /\ \A w \in Busy : worker'[w] = worker[w]
  BY Zenon, NotifyFrame
<1>16. TypeOK'
  <2>1. /\ cancelled' \in [Jobs -> BOOLEAN] /\ jobState' \in [Jobs -> JobStates]
    BY Zenon, <1>1 DEF TypeOK, JobStates, ownsJob
  <2>2. slots' \in [Slots -> Jobs \cup {NoJob}] /\ queue' \in Seq(Jobs)
    BY <1>1 DEF TypeOK
  <2>. QED  BY Zenon, <1>13, <1>15, <2>1, <2>2 DEF TypeOK
<1>17. JobPlaces'
  <2>1. ASSUME NEW s \in Slots, slots'[s] # NoJob
        PROVE  slotOf'[slots'[s]] = s /\ jobState'[slots'[s]] \in Live
    <3>1. slots'[s] = slots[s] /\ slots[s] \in Jobs /\ jobState[slots[s]] = "running"
      BY Zenon, <1>4, <2>1 DEF R
    <3>2. slotOf[slots[s]] = s
      BY Zenon, <2>1, <3>1 DEF JobPlaces
    <3>. QED  BY Zenon, <1>3, <3>1, <3>2 DEF Live
  <2>2. ASSUME NEW k \in Jobs, jobState'[k] \in Live
        PROVE  ownsJob(k)'
    <3>1. jobState[k] = "running" /\ jobState'[k] = "running"
      BY Zenon, <1>3, <2>2 DEF Live
    <3>2. slotOf[k] \in Slots /\ slots[slotOf[k]] = k
      BY Zenon, <1>2, <3>1 DEF ownsJob, TypeOK, Live
    <3>. QED  BY Zenon, <1>4, <3>1, <3>2 DEF ownsJob, R
  <2>3. \A k \in Jobs : jobState'[k] # "queued"
    BY Zenon, <1>3
  <2>4. Len(queue') = 0
    BY Zenon, <1>1
  <2>. QED  BY <2>1, <2>2, <2>3, <2>4 DEF JobPlaces, Live
<1>18. WorkersHold'
  BY <1>3, <1>15 DEF WorkersHold
<1>19. JobHistory'
  <2>. SUFFICES ASSUME NEW k \in Jobs
                PROVE  /\ admission[k] # "accepted" => jobState'[k] = "new"
                       /\ jobState'[k] \in {"new", "queued", "ready"} => ~cancelled'[k]
                       /\ jobState'[k] \in {"new", "queued"} => executions[k] = 0
                       /\ executions[k] <= 1
                       /\ k \in handed => jobState'[k] = "retired" /\ ~cancelled'[k]
                       /\ deadline[k] <= now + Timeout
    BY Zenon DEF JobHistory
  <2>1. /\ cancelled'[k] = (cancelled[k] \/ jobState[k] \in Live)
        /\ jobState'[k] = IF jobState[k] \in {"queued", "ready"} THEN "retired" ELSE jobState[k]
    BY Zenon, <1>3
  <2>. QED  BY Zenon, <2>1 DEF JobHistory, Live
<1>20. CountsAgree'
  <2>1. counts'["queued"] = Len(queue') /\ counts'["running"] = Cardinality(Busy')
    BY Zenon, <1>1, <1>9, <1>11, <1>15 DEF CountsAgree
  <2>2. \A st \in {"queued", "running", "ready"} : counts'[st] = Cardinality(SlotsIn(st)')
    BY Zenon, <1>5, <1>9, <1>11, FS_EmptySet DEF CountsAgree
  <2>. QED  BY Zenon, <1>12, <1>14, <2>1, <2>2 DEF CountsAgree
<1>21. QueueInDeadlineOrder' /\ Len(queue') <= QueueCapacity /\ counts'["outstanding"] <= TotalBound'
  <2>1. Len(queue') = 0 /\ QueueCapacity \in Nat /\ TotalBound \in Nat /\ TotalBound' = TotalBound
    BY Zenon, <1>1, ExecutorAssumption, FiniteParts DEF TotalBound
  <2>2. counts'["outstanding"] <= TotalBound
    BY SMTT(30), <1>7, <1>9, <1>10, <2>1 DEF Counters
  <2>. QED  BY <2>1, <2>2 DEF QueueInDeadlineOrder
<1>. QED  BY Zenon, <1>16, <1>17, <1>18, <1>19, <1>20, <1>21

(* A thread takes the oldest job.                                           *)
LEMMA ClaimStep ==
  ASSUME IInv, NEW w \in Workers, w \notin Busy, queue # << >>,
         queue' = Tail(queue),
         counts' = [counts EXCEPT !["queued"] = @ - 1, !["running"] = @ + 1],
         jobState' = [jobState EXCEPT ![Head(queue)] = "running"],
         worker' = [worker EXCEPT ![w] = [step |-> "claimed", job |-> Head(queue)]],
         UNCHANGED <<phase, stopping, cancelled, deadline, slotOf, slots, admission,
                     executions, handed, now>>
  PROVE  IInv'
<1>. USE DEF IInv
<1>. DEFINE j == Head(queue)
<1>1. /\ queue \in Seq(Jobs) /\ Len(queue) \in Nat /\ Len(queue) > 0
      /\ \A i \in 1 .. Len(queue) : queue[i] \in Jobs
      /\ j = queue[1] /\ j \in Jobs
      /\ queue' \in Seq(Jobs) /\ Len(queue') = Len(queue) - 1
      /\ \A i \in 1 .. Len(queue') : queue'[i] = queue[i + 1]
  <2>1. queue \in Seq(Jobs)
    BY Zenon DEF TypeOK
  <2>. QED  BY <2>1
<1>2. jobState[j] = "queued"
  BY <1>1 DEF JobPlaces
<1>. HIDE DEF j
<1>3. /\ counts' \in [Counters -> Nat]
      /\ \A st \in Live : counts'[st] = Cardinality(SlotsIn(st)')
      /\ counts'["queued"] = counts["queued"] - 1 /\ counts'["running"] = counts["running"] + 1
      /\ counts'["outstanding"] = Cardinality((Slots \ EmptySlots)')
      /\ counts'["outstanding"] = counts["outstanding"]
      /\ counts'["admitted"] = counts'["released"] + counts'["outstanding"]
      /\ \A s \in Slots : slots'[s] # NoJob =>
           slotOf'[slots'[s]] = s /\ jobState'[slots'[s]] \in Live
      /\ \A k \in Jobs : jobState'[k] \in Live => ownsJob(k)'
  <2>1. "queued" \in Live /\ "running" \in Live /\ "queued" # "running"
    BY Zenon DEF Live
  <2>2. jobState' = [jobState EXCEPT ![j] = "running"]
    BY Zenon DEF j
  <2>3. /\ counts' \in [Counters -> Nat]
        /\ \A st \in Live : counts'[st] = Cardinality(SlotsIn(st)')
        /\ \A st \in Live : counts'[st] = IF st = "queued" THEN counts[st] - 1
                                          ELSE IF st = "running" THEN counts[st] + 1 ELSE counts[st]
        /\ counts'["outstanding"] = Cardinality((Slots \ EmptySlots)')
        /\ counts'["outstanding"] = counts["outstanding"]
        /\ counts'["admitted"] = counts'["released"] + counts'["outstanding"]
        /\ \A s \in Slots : slots'[s] # NoJob =>
             slotOf'[slots'[s]] = s /\ jobState'[slots'[s]] \in Live
        /\ \A k \in Jobs : jobState'[k] \in Live => ownsJob(k)'
    BY Zenon, <1>1, <1>2, <2>1, <2>2, SlotMoves
  <2>. QED  BY Zenon, <2>1, <2>3
<1>4. \A k \in Jobs : jobState'[k] = IF k = j THEN "running" ELSE jobState[k]
  BY Zenon, <1>1 DEF TypeOK, j
<1>5. /\ worker' \in [Workers -> [step : WorkerSteps, job : Jobs \cup {NoJob}]]
      /\ worker'[w].step = "claimed" /\ worker'[w].job = j
      /\ \A v \in Workers \ {w} : worker'[v] = worker[v]
  BY Zenon, <1>1 DEF TypeOK, WorkerSteps, j
<1>6. Busy' = Busy \cup {w}
  BY Zenon, <1>5 DEF Busy
<1>7. TypeOK'
  <2>1. jobState' \in [Jobs -> JobStates]
    BY Zenon, <1>1 DEF TypeOK, JobStates, j
  <2>. QED  BY Zenon, <1>1, <1>3, <1>5, <2>1 DEF TypeOK
<1>8. JobPlaces'
  <2>1. ASSUME NEW i \in 1 .. Len(queue')
        PROVE  /\ jobState'[queue'[i]] = "queued"
               /\ \A k \in 1 .. Len(queue') : queue'[i] = queue'[k] => i = k
    <3>1. i + 1 \in 1 .. Len(queue) /\ queue'[i] = queue[i + 1] /\ 1 \in 1 .. Len(queue)
      BY <1>1
    <3>2. queue[i + 1] # j /\ queue[i + 1] \in Jobs /\ jobState[queue[i + 1]] = "queued"
      BY <1>1, <3>1 DEF JobPlaces
    <3>3. ASSUME NEW k \in 1 .. Len(queue'), queue'[i] = queue'[k]
          PROVE  i = k
      <4>1. k + 1 \in 1 .. Len(queue) /\ queue'[k] = queue[k + 1]
        BY <1>1
      <4>2. i + 1 = k + 1
        BY <3>1, <3>3, <4>1 DEF JobPlaces
      <4>. QED  BY <1>1, <4>2
    <3>. QED  BY Zenon, <1>4, <3>1, <3>2, <3>3
  <2>2. ASSUME NEW k \in Jobs, jobState'[k] = "queued"
        PROVE  \E i \in 1 .. Len(queue') : queue'[i] = k
    <3>1. k # j /\ jobState[k] = "queued"
      BY <1>4, <2>2
    <3>2. PICK i \in 1 .. Len(queue) : queue[i] = k
      BY Zenon, <3>1 DEF JobPlaces
    <3>3. i - 1 \in 1 .. Len(queue') /\ queue'[i - 1] = queue[i]
      BY <1>1, <3>1, <3>2
    <3>. QED  BY Zenon, <3>2, <3>3
  <2>. QED  BY Zenon, <1>3, <2>1, <2>2 DEF JobPlaces, Live
<1>9. WorkersHold'
  <2>1. executions[j] = 0
    BY Zenon, <1>1, <1>2 DEF JobHistory
  <2>2. \A v \in Busy : worker[v].job # j /\ worker[v].job \in Jobs /\ worker'[v] = worker[v]
    BY Zenon, <1>2, <1>5 DEF WorkersHold, Busy
  <2>3. \A v \in Busy : /\ worker'[v].job \in Jobs
                        /\ jobState'[worker'[v].job] = "running"
                        /\ worker'[v].step = "claimed" => executions'[worker'[v].job] = 0
    BY <1>4, <2>2 DEF WorkersHold
  <2>4. worker'[w].job \in Jobs /\ jobState'[worker'[w].job] = "running"
        /\ executions'[worker'[w].job] = 0
    BY Zenon, <1>1, <1>4, <1>5, <2>1
  <2>5. \A u, v \in Busy \cup {w} : worker'[u].job = worker'[v].job => u = v
    BY <1>5, <2>2 DEF WorkersHold
  <2>. QED  BY Zenon, <1>6, <2>3, <2>4, <2>5 DEF WorkersHold
<1>10. JobHistory'
  BY ZenonT(30), <1>2, <1>4 DEF JobHistory
<1>11. CountsAgree'
  <2>1. Cardinality(Busy') = Cardinality(Busy) + 1
    <3>1. IsFiniteSet(Busy)
      BY Zenon, FiniteParts DEF Busy
    <3>. QED  BY Zenon, <1>6, <3>1, FS_AddElement
  <2>2. counts'["queued"] = Len(queue') /\ counts'["running"] = Cardinality(Busy')
    BY Zenon, <1>1, <1>3, <2>1 DEF CountsAgree
  <2>. QED  BY Zenon, <1>3, <2>2 DEF CountsAgree, Live
<1>12. QueueInDeadlineOrder'
  <2>. SUFFICES ASSUME NEW a \in 1 .. Len(queue'), NEW b \in 1 .. Len(queue'), a <= b
                PROVE  deadline[queue'[a]] <= deadline[queue'[b]]
    BY Zenon DEF QueueInDeadlineOrder
  <2>1. /\ a + 1 \in 1 .. Len(queue) /\ b + 1 \in 1 .. Len(queue) /\ a + 1 <= b + 1
        /\ queue'[a] = queue[a + 1] /\ queue'[b] = queue[b + 1]
    BY <1>1
  <2>. QED  BY Zenon, <2>1 DEF QueueInDeadlineOrder
<1>13. Len(queue') <= QueueCapacity /\ counts'["outstanding"] <= TotalBound'
  <2>1. Len(queue') = Len(queue) - 1 /\ Len(queue) \in Nat /\ QueueCapacity \in Nat
    BY Zenon, <1>1, ExecutorAssumption
  <2>2. Len(queue) <= QueueCapacity
    OBVIOUS
  <2>3. Len(queue') <= QueueCapacity
    BY ONLY <2>1, <2>2
  <2>4. TotalBound' = TotalBound
    BY Zenon DEF TotalBound
  <2>. QED  BY Zenon, <1>3, <2>3, <2>4
<1>. QED  BY Zenon, <1>7, <1>8, <1>9, <1>10, <1>11, <1>12, <1>13

(* A thread returns from the work: the job becomes Ready, or retires when   *)
(* it was cancelled meanwhile.                                              *)
LEMMA CompleteStep ==
  ASSUME IInv, NEW w \in Workers, CompleteJob(w)
  PROVE  IInv'
<1>. USE DEF IInv
<1>. DEFINE j == worker[w].job
<1>1. w \in Busy /\ j \in Jobs /\ jobState[j] = "running"
  BY Zenon DEF CompleteJob, Busy, WorkersHold
<1>2. UNCHANGED <<phase, stopping, cancelled, deadline, slotOf, queue, admission,
                  executions, handed, now>>
  BY Zenon DEF CompleteJob
<1>3. /\ worker' \in [Workers -> [step : WorkerSteps, job : Jobs \cup {NoJob}]]
      /\ worker'[w].step = "idle"
      /\ \A v \in Workers \ {w} : worker'[v] = worker[v]
  BY Zenon DEF CompleteJob, TypeOK, WorkerSteps
<1>4. Busy' = Busy \ {w}
  BY Zenon, <1>3 DEF Busy
<1>5. \A v \in Busy' : v \in Busy /\ worker'[v] = worker[v] /\ worker[v].job # j
  BY Zenon, <1>1, <1>3, <1>4 DEF WorkersHold, Busy
<1>6. PublishOrRetire(j)
  BY Zenon DEF CompleteJob
<1>. HIDE DEF j
<1>7. PICK st \in {"ready", "retired"} :
        /\ jobState' = [jobState EXCEPT ![j] = st]
        /\ st = "ready" => ~cancelled[j]
  BY Zenon, <1>1, <1>6 DEF PublishOrRetire, MakeReady, retireJob, TypeOK
<1>8. \A k \in Jobs : jobState'[k] = IF k = j THEN st ELSE jobState[k]
  BY Zenon, <1>1, <1>7 DEF TypeOK
<1>9. /\ counts' \in [Counters -> Nat]
      /\ slots' \in [Slots -> Jobs \cup {NoJob}]
      /\ \A s \in Live : counts'[s] = Cardinality(SlotsIn(s)')
      /\ counts'["queued"] = counts["queued"] /\ counts'["running"] = counts["running"] - 1
      /\ counts'["outstanding"] = Cardinality((Slots \ EmptySlots)')
      /\ counts'["outstanding"] \in {counts["outstanding"], counts["outstanding"] - 1}
      /\ counts'["admitted"] = counts'["released"] + counts'["outstanding"]
      /\ \A s \in Slots : slots'[s] # NoJob =>
           slotOf'[slots'[s]] = s /\ jobState'[slots'[s]] \in Live
      /\ \A k \in Jobs : jobState'[k] \in Live => ownsJob(k)'
  <2>1. "ready" \in Live /\ "running" \in Live /\ "queued" \in Live
    BY Zenon DEF Live
  <2>2. CASE cancelled[j]
    <3>1. retireJob(j) /\ UNCHANGED slotOf
      BY Zenon, <1>2, <1>6, <2>2 DEF PublishOrRetire
    <3>2. /\ counts' \in [Counters -> Nat]
          /\ \A s \in Live : counts'[s] = Cardinality(SlotsIn(s)')
          /\ \A s \in Live : counts'[s] = IF s = jobState[j] THEN counts[s] - 1 ELSE counts[s]
          /\ counts'["outstanding"] = Cardinality((Slots \ EmptySlots)')
          /\ counts'["outstanding"] = counts["outstanding"] - 1
          /\ counts'["admitted"] = counts'["released"] + counts'["outstanding"]
      BY Zenon, <1>1, <2>1, <3>1, RetireCounts
    <3>3. /\ slots' \in [Slots -> Jobs \cup {NoJob}]
          /\ \A s \in Slots : slots'[s] # NoJob =>
               slotOf'[slots'[s]] = s /\ jobState'[slots'[s]] \in Live
          /\ \A k \in Jobs : jobState'[k] \in Live => ownsJob(k)'
      BY Zenon, <1>1, <2>1, <3>1, RetirePlaces
    <3>. QED  BY Zenon, <1>1, <2>1, <3>2, <3>3
  <2>3. CASE ~cancelled[j]
    <3>1. /\ UNCHANGED <<slots, slotOf>>
          /\ jobState' = [jobState EXCEPT ![j] = "ready"]
          /\ counts' = [counts EXCEPT !["running"] = @ - 1, !["ready"] = @ + 1]
      BY Zenon, <1>2, <1>6, <2>3 DEF PublishOrRetire, MakeReady
    <3>2. /\ counts' \in [Counters -> Nat]
          /\ \A s \in Live : counts'[s] = Cardinality(SlotsIn(s)')
          /\ \A s \in Live : counts'[s] = IF s = "running" THEN counts[s] - 1
                                          ELSE IF s = "ready" THEN counts[s] + 1 ELSE counts[s]
          /\ counts'["outstanding"] = Cardinality((Slots \ EmptySlots)')
          /\ counts'["outstanding"] = counts["outstanding"]
          /\ counts'["admitted"] = counts'["released"] + counts'["outstanding"]
          /\ \A s \in Slots : slots'[s] # NoJob =>
               slotOf'[slots'[s]] = s /\ jobState'[slots'[s]] \in Live
          /\ \A k \in Jobs : jobState'[k] \in Live => ownsJob(k)'
      BY Zenon, <1>1, <2>1, <3>1, SlotMoves
    <3>. QED  BY Zenon, <2>1, <3>1, <3>2 DEF TypeOK
  <2>. QED  BY Zenon, <2>2, <2>3
<1>10. TypeOK'
  <2>1. jobState' \in [Jobs -> JobStates]
    BY ZenonT(60), <1>7 DEF TypeOK, JobStates
  <2>. QED  BY Zenon, <1>2, <1>3, <1>9, <2>1 DEF TypeOK
<1>11. JobPlaces'
  <2>1. \A i \in 1 .. Len(queue) : queue[i] \in Jobs
    BY DEF TypeOK
  <2>2. \A i \in 1 .. Len(queue) :
          /\ jobState'[queue[i]] = "queued"
          /\ \A k \in 1 .. Len(queue) : queue[i] = queue[k] => i = k
    BY ZenonT(30), <1>1, <1>8, <2>1 DEF JobPlaces
  <2>3. \A k \in Jobs : jobState'[k] = "queued" => \E i \in 1 .. Len(queue) : queue[i] = k
    BY SMTT(30), <1>7, <1>8 DEF JobPlaces
  <2>. QED  BY <1>2, <1>9, <2>2, <2>3 DEF JobPlaces, Live
<1>12. WorkersHold'
  BY <1>2, <1>5, <1>8 DEF WorkersHold
<1>13. JobHistory'
  BY ZenonT(30), <1>1, <1>2, <1>7, <1>8 DEF JobHistory
<1>14. CountsAgree'
  <2>1. Cardinality(Busy') = Cardinality(Busy) - 1
    <3>1. IsFiniteSet(Busy)
      BY Zenon, FiniteParts DEF Busy
    <3>. QED  BY Zenon, <1>1, <1>4, <3>1, FS_RemoveElement
  <2>2. counts'["queued"] = Len(queue') /\ counts'["running"] = Cardinality(Busy')
    BY Zenon, <1>2, <1>9, <2>1 DEF CountsAgree
  <2>. QED  BY Zenon, <1>9, <2>2 DEF CountsAgree, Live
<1>15. QueueInDeadlineOrder' /\ Len(queue') <= QueueCapacity /\ counts'["outstanding"] <= TotalBound'
  <2>1. counts["outstanding"] \in Nat /\ TotalBound \in Nat /\ TotalBound' = TotalBound
    BY Zenon, FiniteParts DEF TypeOK, Counters, TotalBound
  <2>. QED  BY <1>2, <1>9, <2>1 DEF QueueInDeadlineOrder
<1>. QED  BY Zenon, <1>10, <1>11, <1>12, <1>13, <1>14, <1>15

-----------------------------------------------------------------------------
(* The invariant.                                                           *)

(* The constructor's first state satisfies the invariant.                   *)
LEMMA InitIInv == Init => IInv
<1>. SUFFICES ASSUME Init
              PROVE  IInv
  OBVIOUS
<1>. USE DEF Init
<1>1. 0 \in Slots
  <2>1. Cardinality(Workers) \in Nat
    BY Zenon, FiniteParts
  <2>. QED  BY <2>1, ExecutorAssumption DEF Slots
<1>2. TypeOK
  <2>1. worker \in [Workers -> [step : WorkerSteps, job : Jobs \cup {NoJob}]]
    BY Zenon DEF WorkerSteps
  <2>2. counts \in [Counters -> Nat] /\ queue \in Seq(Jobs) /\ slots \in [Slots -> Jobs \cup {NoJob}]
    OBVIOUS
  <2>3. /\ slotOf \in [Jobs -> Slots] /\ jobState \in [Jobs -> JobStates]
        /\ cancelled \in [Jobs -> BOOLEAN] /\ deadline \in [Jobs -> Nat]
        /\ executions \in [Jobs -> Nat]
        /\ admission \in [Jobs -> {"none", "accepted", "overloaded", "stopping"}]
    BY Zenon, <1>1 DEF JobStates
  <2>4. phase \in Phases /\ stopping \in BOOLEAN /\ handed \subseteq Jobs /\ now \in Nat
    BY Zenon DEF Phases
  <2>. HIDE DEF Init
  <2>. QED  BY Zenon, <2>1, <2>2, <2>3, <2>4 DEF TypeOK
<1>3. JobPlaces /\ QueueInDeadlineOrder /\ Len(queue) <= QueueCapacity
  BY ExecutorAssumption DEF JobPlaces, QueueInDeadlineOrder
<1>4. WorkersHold /\ Busy = {}
  BY Zenon DEF WorkersHold, Busy
<1>5. JobHistory
  BY ExecutorAssumption DEF JobHistory
<1>6. CountsAgree
  <2>1. \A st \in Live : SlotsIn(st) = {}
    BY Zenon DEF SlotsIn
  <2>2. Slots \ EmptySlots = {}
    BY Zenon DEF EmptySlots
  <2>3. /\ counts["queued"] = 0 /\ counts["running"] = 0 /\ counts["ready"] = 0
        /\ counts["outstanding"] = 0 /\ counts["admitted"] = 0 /\ counts["released"] = 0
    BY Zenon DEF Counters
  <2>4. Cardinality({}) = 0 /\ Len(queue) = 0
    BY Zenon, FS_EmptySet
  <2>5. \A st \in {"queued", "running", "ready"} : counts[st] = Cardinality(SlotsIn(st))
    BY Zenon, <2>1, <2>3, <2>4 DEF Live
  <2>6. counts["running"] = Cardinality(Busy) /\ counts["outstanding"] = Cardinality(Slots \ EmptySlots)
    BY Zenon, <1>4, <2>2, <2>3, <2>4
  <2>. QED  BY <2>3, <2>4, <2>5, <2>6 DEF CountsAgree
<1>7. counts["outstanding"] <= TotalBound
  BY FiniteParts DEF Counters
<1>. QED  BY Zenon, <1>2, <1>3, <1>4, <1>5, <1>6, <1>7 DEF IInv

(* Every action of the owner, the threads and the clock preserves it.       *)
LEMMA NextIInv == IInv /\ [Next]_vars => IInv'
<1>. SUFFICES ASSUME IInv, [Next]_vars
              PROVE  IInv'
  OBVIOUS
<1>1. ASSUME NEW j \in Jobs, OwnerCall(j)
      PROVE  IInv'
  <2>1. CASE submitTask(j)
    BY Zenon, <2>1, SubmitStep
  <2>2. CASE cancelTask(j)
    <3>1. CASE jobState[j] = "running"
      BY Zenon, <2>2, <3>1, RunningMarked DEF cancelTask, cancelLocked
    <3>2. CASE jobState[j] = "queued"
      BY Zenon, <2>2, <3>2, QueuedLeaves DEF cancelTask, cancelLocked
    <3>3. CASE jobState[j] = "ready"
      BY Zenon, <2>2, <3>3, ReadyLeaves DEF cancelTask, cancelLocked
    <3>. QED  BY Zenon, <2>2, <3>1, <3>2, <3>3 DEF cancelTask, cancelLocked
  <2>3. CASE collectTask(j)
    BY Zenon, <2>3, ReadyLeaves DEF collectTask
  <2>. QED  BY Zenon, <1>1, <2>1, <2>2, <2>3 DEF OwnerCall
<1>2. ASSUME NEW w \in Workers, StartWorker(w)
      PROVE  IInv'
  <2>1. w \notin Busy /\ "idle" \in WorkerSteps \ {"claimed", "executing", "skipped"}
    BY Zenon, <1>2 DEF StartWorker, Busy, WorkerSteps
  <2>2. /\ SetStep(w, "idle") /\ phase' \in Phases
        /\ UNCHANGED <<stopping, jobVars, poolVars, admission, executions, handed, now>>
    BY Zenon, <1>2 DEF StartWorker, Phases
  <2>. QED  BY Zenon, <2>1, <2>2, FreeThreadSteps
<1>3. ASSUME NEW w \in Workers, TakeJob(w)
      PROVE  IInv'
  <2>1. w \notin Busy
    BY Zenon, <1>3 DEF TakeJob, Busy
  <2>2. CASE stopping \/ queue = << >>
    <3>1. PICK step \in {"waiting", "exited"} : SetStep(w, step) /\ UNCHANGED <<jobState, queue, counts>>
      BY Zenon, <1>3, <2>2 DEF TakeJob
    <3>2. step \in WorkerSteps \ {"claimed", "executing", "skipped"}
      BY Zenon DEF WorkerSteps
    <3>3. phase' \in Phases /\ UNCHANGED <<stopping, jobVars, poolVars, admission, executions, handed, now>>
      BY Zenon, <1>3, <3>1 DEF TakeJob, jobVars, poolVars, IInv, TypeOK
    <3>. QED  BY Zenon, <2>1, <3>1, <3>2, <3>3, FreeThreadSteps
  <2>3. CASE ~stopping /\ queue # << >>
    BY Zenon, <1>3, <2>1, <2>3, ClaimStep DEF TakeJob
  <2>. QED  BY Zenon, <2>2, <2>3
<1>4. ASSUME NEW w \in Workers, SpuriousWakeup(w)
      PROVE  IInv'
  <2>1. w \notin Busy /\ "idle" \in WorkerSteps \ {"claimed", "executing", "skipped"}
    BY Zenon, <1>4 DEF SpuriousWakeup, Busy, WorkerSteps
  <2>2. /\ SetStep(w, "idle") /\ phase' \in Phases
        /\ UNCHANGED <<stopping, jobVars, poolVars, admission, executions, handed, now>>
    BY Zenon, <1>4 DEF SpuriousWakeup, IInv, TypeOK
  <2>. QED  BY Zenon, <2>1, <2>2, FreeThreadSteps
<1>5. ASSUME stopAcceptingAndCancel \/ ConstructorFails
      PROVE  IInv'
  <2>1. /\ CancelAll /\ NotifyAll /\ stopping' \in BOOLEAN
        /\ UNCHANGED <<deadline, slotOf, admission, executions, handed, now>>
    BY ZenonT(60), <1>5 DEF stopAcceptingAndCancel, ConstructorFails
  <2>2. phase' \in Phases
    BY Zenon, <1>5 DEF stopAcceptingAndCancel, ConstructorFails, Phases, IInv, TypeOK
  <2>. QED  BY Zenon, <2>1, <2>2, CancelAllStep
<1>6. ASSUME joinWorkers
      PROVE  IInv'
  <2>. USE <1>6 DEF joinWorkers, jobVars, poolVars, IInv
  <2>1. TypeOK'
    BY ZenonT(30) DEF TypeOK, Phases
  <2>2. JobPlaces' /\ WorkersHold' /\ JobHistory' /\ QueueInDeadlineOrder'
    BY DEF JobPlaces, WorkersHold, JobHistory, QueueInDeadlineOrder, ownsJob, Busy
  <2>3. CountsAgree'
    BY Zenon DEF CountsAgree, SlotsIn, EmptySlots, Busy
  <2>. QED  BY Zenon, <2>1, <2>2, <2>3 DEF TotalBound
<1>7. CASE UNCHANGED vars
  <2>. USE <1>7 DEF vars, jobVars, poolVars, IInv
  <2>1. TypeOK'
    BY ZenonT(30) DEF TypeOK
  <2>2. JobPlaces' /\ WorkersHold' /\ JobHistory' /\ QueueInDeadlineOrder'
    BY SMTT(30) DEF JobPlaces, WorkersHold, JobHistory, QueueInDeadlineOrder, ownsJob, Busy
  <2>3. CountsAgree'
    BY Zenon DEF CountsAgree, SlotsIn, EmptySlots, Busy
  <2>. QED  BY Zenon, <2>1, <2>2, <2>3 DEF TotalBound
<1>. QED  BY Zenon, <1>1, <1>2, <1>3, <1>4, <1>5, <1>6, <1>7, RunStep, CompleteStep, TickStep
          DEF Next, WorkerStep, Joined

(* The bookkeeping of the executor is right in every reachable state: its   *)
(* counters, its slots and its queue describe the same jobs, and a worker   *)
(* holds exactly the running ones.                                          *)
THEOREM ExecutorInvariant == Spec => []IInv
  BY InitIInv, NextIInv, PTL DEF Spec

(* Every variable keeps its type; no counter of counts_ wraps below zero.   *)
THEOREM ExecutorTypes == Spec => []TypeOK
<1>1. IInv => TypeOK
  BY Zenon DEF IInv
<1>. QED  BY <1>1, ExecutorInvariant, PTL

(* snapshot() agrees with slots_, queue_ and the threads at all times.      *)
THEOREM ExecutorCounts == Spec => []CountsAgree
<1>1. IInv => CountsAgree
  BY Zenon DEF IInv
<1>. QED  BY <1>1, ExecutorInvariant, PTL

(* Every live job owns one slot, and queue_ lists the queued ones once.     *)
THEOREM ExecutorPlaces == Spec => []JobPlaces
<1>1. IInv => JobPlaces
  BY Zenon DEF IInv
<1>. QED  BY <1>1, ExecutorInvariant, PTL

(* For any number of threads and queue places that fit slots_, submitTask   *)
(* never indexes slots_ with the end iterator.                              *)
THEOREM ExecutorFindsSlot == Spec => []SubmitFindsSlot
<1>1. IInv => SubmitFindsSlot
  <2>. SUFFICES ASSUME IInv, Len(queue) # QueueCapacity, counts["outstanding"] # TotalBound
                PROVE  /\ EmptySlots # {}
                       /\ counts["outstanding"] < TotalBound
                       /\ Len(queue) < QueueCapacity
    BY Zenon DEF SubmitFindsSlot
  <2>1. /\ counts["outstanding"] \in Nat /\ TotalBound \in Nat
        /\ TotalBound <= SlotCount /\ SlotCount \in Nat
        /\ counts["outstanding"] = Cardinality(Slots \ EmptySlots)
        /\ counts["outstanding"] <= TotalBound
    BY Zenon, FiniteParts, ExecutorAssumption DEF IInv, TypeOK, Counters, TotalBound, CountsAgree
  <2>2. Len(queue) \in Nat /\ QueueCapacity \in Nat /\ Len(queue) <= QueueCapacity
    BY ExecutorAssumption DEF IInv, TypeOK
  <2>3. EmptySlots = {} => Cardinality(Slots \ EmptySlots) = SlotCount
    <3>1. EmptySlots = {} => Slots \ EmptySlots = Slots
      OBVIOUS
    <3>. QED  BY Zenon, <3>1, FiniteParts
  <2>4. counts["outstanding"] < TotalBound /\ Len(queue) < QueueCapacity
    BY <2>1, <2>2
  <2>. QED  BY <2>1, <2>3, <2>4
<1>. QED  BY <1>1, ExecutorInvariant, PTL

(* cancelTask and collectTask never both succeed on one job.                *)
THEOREM ExecutorCancelWins == Spec => []CancelledNeverHanded
<1>1. IInv => CancelledNeverHanded
  BY Zenon DEF IInv, CancelledNeverHanded, JobHistory, WorkersHold, TypeOK
<1>. QED  BY <1>1, ExecutorInvariant, PTL

(* No work is entered twice, and no two threads hold one job.               *)
THEOREM ExecutorRunsOnce == Spec => []ExecutedAtMostOnce
<1>1. IInv => ExecutedAtMostOnce
  BY Zenon DEF IInv, ExecutedAtMostOnce, JobHistory, WorkersHold
<1>. QED  BY <1>1, ExecutorInvariant, PTL

(* The queue is ordered by deadline, so the oldest job is taken first.      *)
THEOREM ExecutorDeadlineOrder == Spec => []QueueInDeadlineOrder
<1>1. IInv => QueueInDeadlineOrder
  BY Zenon DEF IInv
<1>. QED  BY <1>1, ExecutorInvariant, PTL

(* A retired job is never revived, requeued or run again.                   *)
THEOREM ExecutorRetirementFinal == Spec => RetiredForever
<1>1. ASSUME IInv, [Next]_vars, NEW j \in Jobs, jobState[j] = "retired"
      PROVE  jobState'[j] = "retired" /\ executions'[j] = executions[j]
  <2>. USE <1>1 DEF IInv, jobVars, poolVars
  <2>0. jobState \in [Jobs -> JobStates] /\ admission[j] = "accepted" /\ ~ownsJob(j)
    <3>1. admission[j] = "accepted"
      BY Zenon DEF JobHistory
    <3>2. ~ownsJob(j)
      <4>1. slotOf[j] \in Slots /\ j # NoJob
        BY Zenon, ExecutorAssumption DEF TypeOK
      <4>. QED  BY Zenon, <4>1 DEF JobPlaces, ownsJob
    <3>. QED  BY Zenon, <3>1, <3>2 DEF TypeOK
  <2>1. ASSUME NEW k \in Jobs, OwnerCall(k)
        PROVE  jobState'[j] = "retired" /\ executions'[j] = executions[j]
    <3>1. executions' = executions
      BY Zenon, <2>1 DEF OwnerCall, submitTask, cancelTask, collectTask
    <3>2. \/ jobState' = jobState
          \/ \E st \in JobStates : k # j /\ jobState' = [jobState EXCEPT ![k] = st]
      BY Zenon, <2>0, <2>1 DEF OwnerCall, submitTask, cancelTask, cancelLocked, collectTask,
         retireJob, JobStates
    <3>. QED  BY Zenon, <2>0, <3>1, <3>2
  <2>2. ASSUME NEW w \in Workers, TakeJob(w)
        PROVE  jobState'[j] = "retired" /\ executions'[j] = executions[j]
    <3>1. executions' = executions
      BY Zenon, <2>2 DEF TakeJob
    <3>2. CASE jobState' = jobState
      BY Zenon, <3>1, <3>2
    <3>3. CASE queue # << >> /\ jobState' = [jobState EXCEPT ![Head(queue)] = "running"]
      <4>1. queue \in Seq(Jobs)
        BY Zenon DEF TypeOK
      <4>2. Head(queue) \in Jobs /\ Head(queue) = queue[1] /\ 1 \in 1 .. Len(queue)
        BY SMTT(30), <3>3, <4>1
      <4>3. jobState[Head(queue)] = "queued"
        BY <4>2 DEF JobPlaces
      <4>. QED  BY Zenon, <2>0, <3>1, <3>3, <4>2, <4>3
    <3>. QED  BY Zenon, <2>2, <3>2, <3>3 DEF TakeJob
  <2>3. ASSUME NEW w \in Workers, RunTask(w)
        PROVE  jobState'[j] = "retired" /\ executions'[j] = executions[j]
    <3>1. w \in Busy
      BY Zenon, <2>3 DEF RunTask, Busy
    <3>2. worker[w].job \in Jobs /\ worker[w].job # j
      BY Zenon, <3>1 DEF WorkersHold
    <3>. QED  BY Zenon, <2>3, <3>2 DEF RunTask, TypeOK
  <2>4. ASSUME NEW w \in Workers, CompleteJob(w)
        PROVE  jobState'[j] = "retired" /\ executions'[j] = executions[j]
    <3>1. w \in Busy
      BY Zenon, <2>4 DEF CompleteJob, Busy
    <3>2. worker[w].job \in Jobs /\ worker[w].job # j
      BY Zenon, <3>1 DEF WorkersHold
    <3>3. \E st \in JobStates : jobState' = [jobState EXCEPT ![worker[w].job] = st]
      BY Zenon, <2>4 DEF CompleteJob, PublishOrRetire, MakeReady, retireJob, JobStates
    <3>. QED  BY Zenon, <2>0, <2>4, <3>2, <3>3 DEF CompleteJob
  <2>5. ASSUME stopAcceptingAndCancel \/ ConstructorFails
        PROVE  jobState'[j] = "retired" /\ executions'[j] = executions[j]
    BY Zenon, <2>0, <2>5 DEF stopAcceptingAndCancel, ConstructorFails, CancelAll
  <2>6. ASSUME \/ \E w \in Workers : StartWorker(w) \/ SpuriousWakeup(w)
               \/ joinWorkers \/ Tick \/ Joined \/ UNCHANGED vars
        PROVE  jobState'[j] = "retired" /\ executions'[j] = executions[j]
    BY Zenon, <2>6 DEF StartWorker, SpuriousWakeup, joinWorkers, Tick, Joined, vars
  <2>. QED  BY Zenon, <2>1, <2>2, <2>3, <2>4, <2>5, <2>6 DEF Next, WorkerStep
<1>2. IInv /\ [Next]_vars => [\A j \in Jobs : jobState[j] = "retired" =>
        jobState'[j] = "retired" /\ executions'[j] = executions[j]]_vars
  BY Zenon, <1>1
<1>. QED  BY <1>2, ExecutorInvariant, PTL DEF Spec, RetiredForever
=============================================================================
