------------------------ MODULE BoundedTaskExecutor ------------------------
(***************************************************************************)
(* hp::business::BoundedTaskExecutor: a fixed set of worker threads that    *)
(* take jobs from a bounded queue, run their work outside the mutex and     *)
(* leave the result in the job until its owner collects or cancels it.      *)
(*                                                                          *)
(* One mutex guards everything but the run of the work itself, so every     *)
(* critical section is one action.  A worker's two critical sections and    *)
(* the unlocked stretch between them are separate actions.                  *)
(***************************************************************************)
EXTENDS Integers, Sequences, FiniteSets

CONSTANTS
  Jobs,           \* job identities: one per call of submitTask
  Workers,        \* the threads of workers_
  QueueCapacity,  \* options_.queueCapacity
  SlotCount,      \* size of the array slots_ (34 in the code)
  Timeout,        \* options_.timeout, in ticks
  MaxTime,        \* bound of the model: the clock stops here
  NoJob           \* the null shared_ptr

ASSUME ExecutorAssumption ==
  /\ IsFiniteSet(Workers) /\ Workers # {}
  /\ QueueCapacity \in Nat \ {0}
  /\ SlotCount \in Nat
  /\ Cardinality(Workers) + QueueCapacity <= SlotCount
  /\ Timeout \in Nat \ {0}
  /\ MaxTime \in Nat
  /\ NoJob \notin Jobs

VARIABLES
  phase,       \* life of the executor object
  stopping,    \* stopping_
  jobState,    \* TaskJob::state_ ("new": no job object accepted yet)
  cancelled,   \* TaskJob::cancelled_
  deadline,    \* TaskJob::deadline_
  slotOf,      \* TaskJob::slot_
  slots,       \* slots_
  queue,       \* queue_
  counts,      \* counts_
  worker,      \* each thread's place in runWorkerTasks and its local job
  admission,   \* what submitTask answered for the job
  executions,  \* how often executeTask was entered for the job
  handed,      \* jobs whose work collectTask gave to its caller
  now          \* steady_clock::now()

jobVars  == <<jobState, cancelled, deadline, slotOf>>
poolVars == <<slots, queue, counts>>
vars == <<phase, stopping, jobVars, poolVars, worker, admission, executions, handed, now>>

Slots       == 0 .. SlotCount - 1
Counters    == {"queued", "running", "ready", "outstanding", "admitted", "released"}
JobStates   == {"new", "queued", "running", "ready", "retired"}
WorkerSteps == {"unborn", "idle", "waiting", "claimed", "executing", "skipped", "exited"}
Phases      == {"constructing", "open", "failed", "joined"}

(* A worker between its two critical sections holds a job.                  *)
Busy == {w \in Workers : worker[w].step \in {"claimed", "executing", "skipped"}}

EmptySlots   == {s \in Slots : slots[s] = NoJob}
SlotsIn(st)  == {s \in Slots : slots[s] # NoJob /\ jobState[slots[s]] = st}
TotalBound   == Cardinality(Workers) + QueueCapacity

Init ==
  /\ phase = "constructing"
  /\ stopping = FALSE
  /\ jobState = [j \in Jobs |-> "new"]
  /\ cancelled = [j \in Jobs |-> FALSE]
  /\ deadline = [j \in Jobs |-> 0]
  /\ slotOf = [j \in Jobs |-> 0]
  /\ slots = [s \in Slots |-> NoJob]
  /\ queue = << >>
  /\ counts = [c \in Counters |-> 0]
  /\ worker = [w \in Workers |-> [step |-> "unborn", job |-> NoJob]]
  /\ admission = [j \in Jobs |-> "none"]
  /\ executions = [j \in Jobs |-> 0]
  /\ handed = {}
  /\ now = 0

-----------------------------------------------------------------------------
(* Helpers under the mutex.                                                 *)

ownsJob(j) == slots[slotOf[j]] = j

(* queue_.push_back(job)                                                    *)
PushBack(q, j) == Append(q, j)

(* queue_.erase(std::find(queue_.begin(), queue_.end(), job))               *)
Erase(q, j) ==
  LET i == CHOOSE k \in 1 .. Len(q) : q[k] = j
  IN  [k \in 1 .. Len(q) - 1 |-> IF k < i THEN q[k] ELSE q[k + 1]]

(* The first null entry of slots_.                                          *)
FreeSlot == CHOOSE s \in EmptySlots : \A t \in EmptySlots : s <= t

(* retireJob: the job leaves the counter of its state, and its slot.        *)
RetiredCounts(st) ==
  [c \in Counters |-> CASE c = st            -> counts[c] - 1
                        [] c = "outstanding" -> counts[c] - 1
                        [] c = "released"    -> counts[c] + 1
                        [] OTHER             -> counts[c]]

retireJob(j) ==
  /\ counts' = RetiredCounts(jobState[j])
  /\ jobState' = [jobState EXCEPT ![j] = "retired"]
  /\ slots' = [slots EXCEPT ![slotOf[j]] = NoJob]

(* cancelLocked: a running job is only marked; its worker retires it.       *)

cancelLocked(j) ==
  /\ cancelled' = [cancelled EXCEPT ![j] = TRUE]
  /\ \/ /\ jobState[j] = "running"
        /\ UNCHANGED <<jobState, poolVars>>
     \/ /\ jobState[j] = "queued"
        /\ queue' = Erase(queue, j)
        /\ retireJob(j)
     \/ /\ jobState[j] = "ready"
        /\ UNCHANGED queue
        /\ retireJob(j)

stopRequested(j) == cancelled[j] \/ now >= deadline[j]

SetStep(w, step) == worker' = [worker EXCEPT ![w].step = step]

(* available_.notify_one(): one thread blocked in the wait returns from it. *)
NotifiedNobody == UNCHANGED worker
NotifyOne ==
  LET blocked == {w \in Workers : worker[w].step = "waiting"}
  IN  IF blocked = {} THEN UNCHANGED worker ELSE \E w \in blocked : SetStep(w, "idle")

(* available_.notify_all().                                                 *)
NotifiedOnlyOne == NotifyOne
NotifyAll ==
  worker' = [w \in Workers |-> [worker[w] EXCEPT !.step = IF @ = "waiting" THEN "idle" ELSE @]]

-----------------------------------------------------------------------------
(* The owner's calls.                                                       *)

submitTask(j) ==
  /\ phase = "open"
  /\ admission[j] = "none"
  /\ \/ /\ stopping
        /\ admission' = [admission EXCEPT ![j] = "stopping"]
        /\ UNCHANGED <<jobVars, poolVars, worker>>
     \/ /\ ~stopping
        /\ Len(queue) = QueueCapacity \/ counts["outstanding"] = TotalBound
        /\ admission' = [admission EXCEPT ![j] = "overloaded"]
        /\ UNCHANGED <<jobVars, poolVars, worker>>
     \/ /\ ~stopping
        /\ Len(queue) # QueueCapacity /\ counts["outstanding"] # TotalBound
        /\ admission' = [admission EXCEPT ![j] = "accepted"]
        /\ jobState' = [jobState EXCEPT ![j] = "queued"]
        /\ deadline' = [deadline EXCEPT ![j] = now + Timeout]
        /\ slotOf' = [slotOf EXCEPT ![j] = FreeSlot]
        /\ slots' = [slots EXCEPT ![FreeSlot] = j]
        /\ queue' = PushBack(queue, j)
        /\ counts' = [c \in Counters |-> IF c \in {"queued", "outstanding", "admitted"}
                                         THEN counts[c] + 1 ELSE counts[c]]
        /\ NotifyOne
        /\ UNCHANGED cancelled
  /\ UNCHANGED <<phase, stopping, executions, handed, now>>

cancelTask(j) ==
  /\ phase = "open"
  /\ ownsJob(j)
  /\ cancelLocked(j)
  /\ UNCHANGED <<phase, stopping, deadline, slotOf, worker, admission, executions, handed, now>>

(* Only a Ready job changes hands; every other answer leaves the state.     *)
collectTask(j) ==
  /\ phase = "open"
  /\ ownsJob(j)
  /\ jobState[j] = "ready"
  /\ retireJob(j)
  /\ handed' = handed \cup {j}
  /\ UNCHANGED <<phase, stopping, cancelled, deadline, slotOf, queue, worker,
                 admission, executions, now>>

(* The loop of cancelLocked over slots_: running jobs are only marked, all  *)
(* others retire.  Every queued job sits in a slot, so queue_ ends empty.   *)
CancelAll ==
  LET retiring(s) == slots[s] # NoJob /\ jobState[slots[s]] # "running"
      n(S) == Cardinality(S)
  IN  /\ cancelled' = [j \in Jobs |-> cancelled[j] \/ ownsJob(j)]
      /\ jobState' = [j \in Jobs |-> IF ownsJob(j) /\ retiring(slotOf[j])
                                     THEN "retired" ELSE jobState[j]]
      /\ slots' = [s \in Slots |-> IF retiring(s) THEN NoJob ELSE slots[s]]
      /\ queue' = << >>
      /\ counts' = [c \in Counters |->
                      CASE c \in {"queued", "ready"} -> counts[c] - n(SlotsIn(c))
                        [] c = "outstanding" -> counts[c] - n({s \in Slots : retiring(s)})
                        [] c = "released"    -> counts[c] + n({s \in Slots : retiring(s)})
                        [] OTHER             -> counts[c]]

stopAcceptingAndCancel ==
  /\ phase = "open"
  /\ stopping' = TRUE
  /\ CancelAll
  /\ NotifyAll
  /\ UNCHANGED <<phase, deadline, slotOf, admission, executions, handed, now>>

(* The constructor starts the threads one by one; when one cannot be        *)
(* created it stops and joins the ones already running and throws.          *)
StartWorker(w) ==
  /\ phase = "constructing"
  /\ worker[w].step = "unborn"
  /\ SetStep(w, "idle")
  /\ phase' = IF \A v \in Workers \ {w} : worker[v].step # "unborn"
              THEN "open" ELSE "constructing"
  /\ UNCHANGED <<stopping, jobVars, poolVars, admission, executions, handed, now>>

ConstructorFails ==
  /\ phase = "constructing"
  /\ phase' = "failed"
  /\ stopping' = TRUE
  /\ CancelAll
  /\ NotifyAll
  /\ UNCHANGED <<deadline, slotOf, admission, executions, handed, now>>

joinWorkers ==
  /\ phase \in {"open", "failed"}
  /\ stopping
  /\ \A w \in Workers : worker[w].step \in {"unborn", "exited"}
  /\ phase' = "joined"
  /\ UNCHANGED <<stopping, jobVars, poolVars, worker, admission, executions, handed, now>>

-----------------------------------------------------------------------------
(* runWorkerTasks.                                                          *)

(* First critical section: wait, leave, or take the oldest job.             *)
TakeJob(w) ==
  /\ worker[w].step = "idle"
  /\ \/ /\ ~stopping /\ queue = << >>
        /\ SetStep(w, "waiting")
        /\ UNCHANGED <<jobState, queue, counts>>
     \/ /\ stopping
        /\ SetStep(w, "exited")
        /\ UNCHANGED <<jobState, queue, counts>>
     \/ /\ ~stopping /\ queue # << >>
        /\ queue' = Tail(queue)
        /\ counts' = [counts EXCEPT !["queued"] = @ - 1, !["running"] = @ + 1]
        /\ jobState' = [jobState EXCEPT ![Head(queue)] = "running"]
        /\ worker' = [worker EXCEPT ![w] = [step |-> "claimed", job |-> Head(queue)]]
  /\ UNCHANGED <<phase, stopping, cancelled, deadline, slotOf, slots, admission,
                 executions, handed, now>>

(* A condition variable may return without a notification.                  *)
SpuriousWakeup(w) ==
  /\ worker[w].step = "waiting"
  /\ SetStep(w, "idle")
  /\ UNCHANGED <<phase, stopping, jobVars, poolVars, admission, executions, handed, now>>

(* Outside the mutex: the work runs unless it was cancelled or is too late. *)
RunTask(w) ==
  /\ worker[w].step = "claimed"
  /\ LET j == worker[w].job
     IN  IF stopRequested(j)
         THEN /\ SetStep(w, "skipped")
              /\ UNCHANGED executions
         ELSE /\ SetStep(w, "executing")
              /\ executions' = [executions EXCEPT ![j] = @ + 1]
  /\ UNCHANGED <<phase, stopping, jobVars, poolVars, admission, handed, now>>

(* Second critical section, after the work returned, threw or was skipped.  *)
MakeReady(j) ==
  /\ counts' = [counts EXCEPT !["running"] = @ - 1, !["ready"] = @ + 1]
  /\ jobState' = [jobState EXCEPT ![j] = "ready"]
  /\ UNCHANGED slots

ReadyButStillCounted(j) ==
  IF cancelled[j]
  THEN retireJob(j)
  ELSE /\ counts' = [counts EXCEPT !["ready"] = @ + 1]
       /\ jobState' = [jobState EXCEPT ![j] = "ready"]
       /\ UNCHANGED slots

PublishOrRetire(j) == IF cancelled[j] THEN retireJob(j) ELSE MakeReady(j)

CompleteJob(w) ==
  /\ worker[w].step \in {"executing", "skipped"}
  /\ PublishOrRetire(worker[w].job)
  /\ worker' = [worker EXCEPT ![w] = [step |-> "idle", job |-> NoJob]]
  /\ UNCHANGED <<phase, stopping, cancelled, deadline, slotOf, queue, admission,
                 executions, handed, now>>

Tick ==
  /\ now < MaxTime
  /\ now' = now + 1
  /\ UNCHANGED <<phase, stopping, jobVars, poolVars, worker, admission, executions, handed>>

(* The executor is gone: nothing is left to happen.                         *)
Joined == phase = "joined" /\ UNCHANGED vars

OwnerCall(j)  == submitTask(j) \/ cancelTask(j) \/ collectTask(j)
WorkerStep(w) == TakeJob(w) \/ RunTask(w) \/ CompleteJob(w)

Next ==
  \/ \E j \in Jobs : OwnerCall(j)
  \/ \E w \in Workers : StartWorker(w) \/ WorkerStep(w) \/ SpuriousWakeup(w)
  \/ stopAcceptingAndCancel
  \/ ConstructorFails
  \/ joinWorkers
  \/ Tick
  \/ Joined

Spec == Init /\ [][Next]_vars

(* Every thread is scheduled and the work it runs returns.                  *)
FairSpec == Spec /\ \A w \in Workers : WF_vars(WorkerStep(w))

-----------------------------------------------------------------------------
(* Properties.                                                              *)

TypeOK ==
  /\ phase \in Phases
  /\ stopping \in BOOLEAN
  /\ jobState \in [Jobs -> JobStates]
  /\ cancelled \in [Jobs -> BOOLEAN]
  /\ deadline \in [Jobs -> Nat]
  /\ slotOf \in [Jobs -> Slots]
  /\ slots \in [Slots -> Jobs \cup {NoJob}]
  /\ queue \in Seq(Jobs)
  /\ counts \in [Counters -> Nat]
  /\ worker \in [Workers -> [step : WorkerSteps, job : Jobs \cup {NoJob}]]
  /\ admission \in [Jobs -> {"none", "accepted", "overloaded", "stopping"}]
  /\ executions \in [Jobs -> Nat]
  /\ handed \subseteq Jobs
  /\ now \in Nat

(* snapshot() never lies: each counter equals the number of slots in that   *)
(* state, the queue holds exactly the queued jobs, running jobs are exactly *)
(* the ones in a worker's hands, and no admitted job is lost or released    *)
(* twice, whatever the order of cancel, collect, stop and completion.       *)
CountsAgree ==
  /\ \A st \in {"queued", "running", "ready"} : counts[st] = Cardinality(SlotsIn(st))
  /\ counts["queued"] = Len(queue)
  /\ counts["running"] = Cardinality(Busy)
  /\ counts["outstanding"] = Cardinality(Slots \ EmptySlots)
  /\ counts["admitted"] = counts["released"] + counts["outstanding"]

(* Every live job is in exactly one place: it owns the slot it remembers,   *)
(* no two jobs share a slot, and queue_ lists each queued job once and      *)
(* nothing else.                                                            *)
JobPlaces ==
  /\ \A s \in Slots : slots[s] # NoJob =>
       slotOf[slots[s]] = s /\ jobState[slots[s]] \in {"queued", "running", "ready"}
  /\ \A j \in Jobs : jobState[j] \in {"queued", "running", "ready"} => ownsJob(j)
  /\ \A i \in 1 .. Len(queue) :
       jobState[queue[i]] = "queued" /\ \A k \in 1 .. Len(queue) : queue[i] = queue[k] => i = k
  /\ \A j \in Jobs : jobState[j] = "queued" => \E i \in 1 .. Len(queue) : queue[i] = j

(* The two refusals of submitTask are all that stands between std::find     *)
(* returning slots_.end() and a write past the array: whenever neither      *)
(* refusal applies, a slot is free.                                         *)
SubmitFindsSlot ==
  (Len(queue) # QueueCapacity /\ counts["outstanding"] # TotalBound)
    => /\ EmptySlots # {}
       /\ counts["outstanding"] < TotalBound
       /\ Len(queue) < QueueCapacity

(* A job cancelled while it runs never becomes a result: cancelTask and     *)
(* collectTask never both succeed on one job, and work is handed over only  *)
(* when no worker can still write into it.                                  *)
CancelledNeverHanded ==
  \A j \in handed :
    /\ ~cancelled[j]
    /\ jobState[j] = "retired"
    /\ \A w \in Busy : worker[w].job # j

(* Each job's work is entered at most once, and never after the job has     *)
(* left the queue through a cancel: a queued job has not run, and a retired *)
(* one is in no worker's hands.                                             *)
ExecutedAtMostOnce ==
  /\ \A j \in Jobs : executions[j] <= 1 /\ (jobState[j] = "queued" => executions[j] = 0)
  /\ \A w \in Busy : /\ jobState[worker[w].job] = "running"
                     /\ \A v \in Busy : worker[v].job = worker[w].job => v = w

(* Workers take jobs in admission order: nothing in the queue waits behind  *)
(* a job with a later deadline.                                             *)
QueueInDeadlineOrder ==
  \A i, k \in 1 .. Len(queue) : i <= k => deadline[queue[i]] <= deadline[queue[k]]

(* Retirement is final: no step brings a retired job back, reuses its       *)
(* identity or runs it.                                                     *)
RetiredForever ==
  [][\A j \in Jobs : jobState[j] = "retired" =>
        jobState'[j] = "retired" /\ executions'[j] = executions[j]]_vars

(* No wakeup is lost: an admitted job is eventually taken, cancelled or     *)
(* swept by the stop.                                                       *)
QueuedJobLeaves == \A j \in Jobs : (jobState[j] = "queued") ~> (jobState[j] # "queued")

(* After a stop every slot is given back and every thread returns, so       *)
(* joinWorkers cannot hang.                                                 *)
StopDrains ==
  stopping ~> /\ counts["outstanding"] = 0
              /\ \A w \in Workers : worker[w].step \in {"unborn", "exited"}
=============================================================================
