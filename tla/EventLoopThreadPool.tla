------------------------- MODULE EventLoopThreadPool -------------------------
(***************************************************************************)
(* hp::net::EventLoopThreadPool and its EventLoopThreads: start-up, posting *)
(* to a worker, drain, stop and join.  The pool's mutex_ and each thread's  *)
(* mutex_ guard separate state; every locked section is one action.  A task *)
(* stands for the call that posts it.  The worker's EventLoop is reduced to *)
(* what module EventLoop shows of it: it runs its queue in order and stops  *)
(* once the queue is empty, or fails and releases the queue.                *)
(***************************************************************************)
EXTENDS Integers, Sequences, FiniteSets

CONSTANTS
  N,             \* workerCount
  Tasks,         \* the calls of postTaskToWorkerAtIndex
  TaskCapacity   \* kTaskCapacity, the same for the pool and for a loop

ASSUME PoolAssumption == N \in Nat \ {0} /\ TaskCapacity \in Nat \ {0}

VARIABLES
  ready, stopping, draining, forwarding, outstanding,   \* the pool's members
  mpc, at,            \* the owner: its place, and the worker it is dealing with
  tell,               \* the worker requestAllWorkersStop comes to next, per caller
  call, target,       \* each post: how far it is, and its worker
  place,              \* where its task is
  wpc,                \* each worker thread's place
  published,          \* workerEventLoop_ is set
  succeeded,          \* startupSucceeded_
  stopRequested,      \* stopRequested_
  failure,            \* the loop failed or init threw
  loop, queue,        \* the loop's state_ and accepted tasks
  loopOutstanding,    \* the loop's outstanding_
  drainAsked          \* the loop has a drain or force request

pool    == <<ready, stopping, draining, forwarding, outstanding>>
posts   == <<call, target, place>>
thread  == <<wpc, published, succeeded, stopRequested, failure>>
loops   == <<loop, queue, loopOutstanding, drainAsked>>
vars    == <<pool, mpc, at, tell, posts, thread, loops>>

Workers == 1 .. N

(* Who can run requestAllWorkersStop: the owner, a post, a worker.          *)
Callers == {<<"owner", 0>>} \cup ({"worker"} \X Workers) \cup ({"post"} \X Tasks)
Owner   == <<"owner", 0>>
Self(w) == <<"worker", w>>
Post(t) == <<"post", t>>
Quiet(c) == tell[c] = 0

Init ==
  /\ ready = FALSE /\ stopping = FALSE /\ draining = FALSE /\ forwarding = 0
  /\ outstanding = [w \in Workers |-> 0]
  /\ mpc = "new" /\ at = 1
  /\ tell = [c \in Callers |-> 0]
  /\ call = [t \in Tasks |-> "idle"] /\ target = [t \in Tasks |-> 1]
  /\ place = [t \in Tasks |-> "none"]
  /\ wpc = [w \in Workers |-> "none"]
  /\ published = [w \in Workers |-> FALSE] /\ succeeded = [w \in Workers |-> FALSE]
  /\ stopRequested = [w \in Workers |-> FALSE] /\ failure = [w \in Workers |-> FALSE]
  /\ loop = [w \in Workers |-> "none"] /\ queue = [w \in Workers |-> << >>]
  /\ loopOutstanding = [w \in Workers |-> 0] /\ drainAsked = [w \in Workers |-> FALSE]

-----------------------------------------------------------------------------
(* Stopping the pool, from any caller.                                      *)

(* requestWorkerStop on one worker: a loop that is not published yet will   *)
(* find stopRequested_ when it is.                                          *)
requestWorkerStop(w) ==
  /\ stopRequested' = [stopRequested EXCEPT ![w] = @ \/ wpc[w] # "none"]
  /\ loop' = [loop EXCEPT ![w] = IF published[w] /\ @ = "running" THEN "stopping" ELSE @]

(* requestAllWorkersStop, one worker at a time.                             *)
requestAllWorkersStop(c) ==
  /\ tell[c] \in Workers
  /\ requestWorkerStop(tell[c])
  /\ tell' = [tell EXCEPT ![c] = IF @ = N THEN 0 ELSE @ + 1]
  /\ UNCHANGED <<pool, mpc, at, posts, wpc, published, succeeded, failure, queue,
                 loopOutstanding, drainAsked>>

(* The workers are told at once only if no forward is in progress.          *)
StopAtOnce == TRUE
MayStopNow == forwarding = 0

requestPoolStop(c) ==
  /\ stopping' = TRUE
  /\ tell' = [tell EXCEPT ![c] = IF MayStopNow THEN 1 ELSE 0]
  /\ UNCHANGED <<ready, draining, forwarding, outstanding>>

-----------------------------------------------------------------------------
(* The destruction of n tasks of a worker gives their places back.          *)
PlacesFreed(w, n)      == outstanding' = [outstanding EXCEPT ![w] = @ - n]

-----------------------------------------------------------------------------
(* Posting.                                                                 *)

(* The pool takes the task and a ticket for it.  (When the pool is not      *)
(* ready, is stopping or has no place the call returns false at once.)      *)
postTaskToWorkerAtIndex(t, w) ==
  /\ call[t] = "idle"
  /\ ready /\ ~stopping
  /\ outstanding[w] # TaskCapacity
  /\ outstanding' = [outstanding EXCEPT ![w] = @ + 1]
  /\ forwarding' = forwarding + 1
  /\ call' = [call EXCEPT ![t] = "reserved"]
  /\ target' = [target EXCEPT ![t] = w]
  /\ place' = [place EXCEPT ![t] = "held"]
  /\ UNCHANGED <<ready, stopping, draining, mpc, at, tell, thread, loops>>

(* The loop accepts the task.                                               *)
LoopTakes(w) == published[w] /\ loop[w] = "running" /\ loopOutstanding[w] # TaskCapacity

(* Without the pool's lock: the worker's loop takes the task, or refuses it *)
(* (or the call throws) and the ticket is given back on the way out.        *)
postTaskToWorker(t) ==
  LET w == target[t] IN
  /\ call[t] = "reserved"
  /\ call' = [call EXCEPT ![t] = "posted"]
  /\ \/ /\ LoopTakes(w)
        /\ queue' = [queue EXCEPT ![w] = Append(@, t)]
        /\ loopOutstanding' = [loopOutstanding EXCEPT ![w] = @ + 1]
        /\ place' = [place EXCEPT ![t] = "queued"]
        /\ UNCHANGED outstanding
     \/ /\ ~LoopTakes(w)
        /\ place' = [place EXCEPT ![t] = "refused"]
        /\ PlacesFreed(w, 1)
        /\ UNCHANGED <<queue, loopOutstanding>>
  /\ UNCHANGED <<ready, stopping, draining, forwarding, mpc, at, tell, target, thread, loop,
                 drainAsked>>

(* The last forward of a stopping pool tells the workers.                   *)
LastForward == stopping /\ forwarding = 1

finishTaskForward(t) ==
  /\ call[t] = "posted"
  /\ call' = [call EXCEPT ![t] = "done"]
  /\ forwarding' = forwarding - 1
  /\ tell' = [tell EXCEPT ![Post(t)] = IF LastForward THEN 1 ELSE 0]
  /\ UNCHANGED <<ready, stopping, draining, outstanding, mpc, at, target, place, thread, loops>>

-----------------------------------------------------------------------------
(* The worker thread, runWorkerEventLoop.                                   *)

Goto(w, p) == wpc' = [wpc EXCEPT ![w] = p]

(* Init succeeds and the loop is published, already stopping if a stop was  *)
(* requested meanwhile; or init throws; or the EventLoop cannot be built,   *)
(* and then nothing is left to clean up.                                    *)
Publish(w) ==
  /\ wpc[w] = "init"
  /\ Goto(w, "run")
  /\ published' = [published EXCEPT ![w] = TRUE]
  /\ succeeded' = [succeeded EXCEPT ![w] = TRUE]
  /\ loop' = [loop EXCEPT ![w] = IF stopRequested[w] THEN "stopping" ELSE "running"]
  /\ UNCHANGED <<pool, mpc, at, tell, posts, stopRequested, failure, queue, loopOutstanding,
                 drainAsked>>

InitFails(w) ==
  /\ wpc[w] = "init"
  /\ Goto(w, "ended") \/ Goto(w, "final")
  /\ failure' = [failure EXCEPT ![w] = TRUE]
  /\ UNCHANGED <<pool, mpc, at, tell, posts, published, succeeded, stopRequested, loops>>

(* The loop runs its next task and destroys it, ticket first.               *)
RunTask(w) ==
  /\ wpc[w] = "run" /\ loop[w] \in {"running", "stopping"}
  /\ queue[w] # << >> /\ loopOutstanding[w] = Len(queue[w])
  /\ place' = [place EXCEPT ![Head(queue[w])] = "ran"]
  /\ queue' = [queue EXCEPT ![w] = Tail(@)]
  /\ PlacesFreed(w, 1)
  /\ UNCHANGED <<ready, stopping, draining, forwarding, mpc, at, tell, call, target, thread, loop,
                 loopOutstanding, drainAsked>>

(* Then it counts the task out.                                             *)
CountOut(w) ==
  /\ loopOutstanding[w] > Len(queue[w])
  /\ loopOutstanding' = [loopOutstanding EXCEPT ![w] = @ - 1]
  /\ UNCHANGED <<pool, mpc, at, tell, posts, thread, loop, queue, drainAsked>>

(* The last connection of a draining worker is gone.                        *)
LoopDrained(w) ==
  /\ loop[w] = "running" /\ drainAsked[w]
  /\ loop' = [loop EXCEPT ![w] = "stopping"]
  /\ UNCHANGED <<pool, mpc, at, tell, posts, thread, queue, loopOutstanding, drainAsked>>

LoopStops(w) ==
  /\ wpc[w] = "run" /\ loop[w] = "stopping"
  /\ queue[w] = << >> /\ loopOutstanding[w] = 0
  /\ loop' = [loop EXCEPT ![w] = "stopped"]
  /\ Goto(w, "ended")
  /\ UNCHANGED <<pool, mpc, at, tell, posts, published, succeeded, stopRequested, failure, queue,
                 loopOutstanding, drainAsked>>

(* The loop fails, in a task or elsewhere, and releases its queue.          *)
LoopFails(w) ==
  /\ wpc[w] = "run" /\ loop[w] \in {"running", "stopping"}
  /\ loop' = [loop EXCEPT ![w] = "failed"]
  /\ failure' = [failure EXCEPT ![w] = TRUE]
  /\ place' = [t \in Tasks |-> IF place[t] = "queued" /\ target[t] = w THEN "released" ELSE place[t]]
  /\ PlacesFreed(w, Len(queue[w]))
  /\ queue' = [queue EXCEPT ![w] = << >>]
  /\ loopOutstanding' = [loopOutstanding EXCEPT ![w] = 0]
  /\ Goto(w, "ended")
  /\ UNCHANGED <<ready, stopping, draining, forwarding, mpc, at, tell, call, target, published,
                 succeeded, stopRequested, drainAsked>>

Unpublish(w) ==
  /\ wpc[w] = "ended"
  /\ published' = [published EXCEPT ![w] = FALSE]
  /\ Goto(w, "cleanup")
  /\ UNCHANGED <<pool, mpc, at, tell, posts, succeeded, stopRequested, failure, loops>>

(* cleanupWorker first looks whether the end was planned ...                *)
Planned(w)       == draining /\ loop[w] # "failed"

cleanupWorker(w) ==
  /\ wpc[w] = "cleanup"
  /\ Goto(w, IF Planned(w) THEN "callback" ELSE "stopAll")
  /\ UNCHANGED <<pool, mpc, at, tell, posts, published, succeeded, stopRequested, failure, loops>>

(* ... stops the pool if not ...                                            *)
WorkerStopsPool(w) ==
  /\ wpc[w] = "stopAll"
  /\ requestPoolStop(Self(w))
  /\ Goto(w, "callback")
  /\ UNCHANGED <<mpc, at, posts, published, succeeded, stopRequested, failure, loops>>

(* ... and calls the user's callback, which may throw too; then the loop    *)
(* goes out of scope.                                                       *)
CleanupCallback(w) ==
  /\ wpc[w] = "callback" /\ Quiet(Self(w))
  /\ Goto(w, "final")
  /\ \E thrown \in BOOLEAN : failure' = [failure EXCEPT ![w] = @ \/ thrown]
  /\ UNCHANGED <<pool, mpc, at, tell, posts, published, succeeded, stopRequested, loops>>

(* readyFlag_ is set for an owner that may still be waiting.                *)
ThreadEnds(w) ==
  /\ wpc[w] = "final"
  /\ Goto(w, "done")
  /\ UNCHANGED <<pool, mpc, at, tell, posts, published, succeeded, stopRequested, failure, loops>>

-----------------------------------------------------------------------------
(* The owner of the pool.                                                   *)

Proceed(p, w) == mpc' = p /\ at' = w

(* createWorkerThread for the next worker: std::thread may throw.           *)
createWorkerThread ==
  /\ mpc \in {"new", "create"} /\ at \in Workers
  /\ \/ wpc' = [wpc EXCEPT ![at] = "init"] /\ Proceed("await", at)
     \/ wpc' = [wpc EXCEPT ![at] = "noThread"] /\ Proceed("stop", 1)
  /\ UNCHANGED <<pool, tell, posts, published, succeeded, stopRequested, failure, loops>>

(* The wait for readyFlag_; a worker that did not start is joined first.    *)
WorkerReady ==
  /\ mpc = "await"
  /\ \/ succeeded[at] /\ Proceed("create", at + 1)
     \/ ~succeeded[at] /\ wpc[at] = "done" /\ Proceed("stop", 1)
  /\ UNCHANGED <<pool, tell, posts, thread, loops>>

(* A worker that ended during start-up has set stopping_; the workers that  *)
(* were not started then have not been told.                                *)
NobodyToTell == FALSE
StoppedEarly == stopping

createWorkerThreads ==
  /\ mpc = "create" /\ at = N + 1
  /\ ready' = TRUE
  /\ tell' = [tell EXCEPT ![Owner] = IF StoppedEarly THEN 1 ELSE 0]
  /\ Proceed("serving", 1)
  /\ UNCHANGED <<stopping, draining, forwarding, outstanding, posts, thread, loops>>

(* requestWorkersDrain and requestWorkersForceClose.                        *)
requestWorkersDrain ==
  /\ mpc = "serving" /\ Quiet(Owner)
  /\ draining' = TRUE
  /\ Proceed("draining", 1)
  /\ UNCHANGED <<ready, stopping, forwarding, outstanding, tell, posts, thread, loops>>

requestWorkerDrain ==
  /\ mpc = "draining" /\ at \in Workers
  /\ drainAsked' = [drainAsked EXCEPT ![at] = @ \/ (published[at] /\ loop[at] \in {"running", "stopping"})]
  /\ IF at = N THEN Proceed("serving", 1) ELSE Proceed("draining", at + 1)
  /\ UNCHANGED <<pool, tell, posts, thread, loop, queue, loopOutstanding>>

(* The stop of a pool that served, or of one whose start-up failed.         *)
OwnerStopsPool ==
  /\ mpc \in {"serving", "stop"} /\ Quiet(Owner)
  /\ requestPoolStop(Owner)
  /\ Proceed("join", 0)
  /\ UNCHANGED <<posts, thread, loops>>

(* joinWorkerThreads: the forwards first ...                                *)
DoNotWait == TRUE
taskForwardsFinished == forwarding = 0

joinWorkerThreads ==
  /\ mpc = "join" /\ at = 0 /\ Quiet(Owner)
  /\ taskForwardsFinished
  /\ Proceed("join", 1)
  /\ UNCHANGED <<pool, tell, posts, thread, loops>>

(* ... then every thread that was started, in order.                        *)
joinWorkerThread ==
  /\ mpc = "join" /\ at \in Workers
  /\ wpc[at] \in {"none", "noThread", "done"}
  /\ IF at = N THEN Proceed("joined", 1) ELSE Proceed("join", at + 1)
  /\ UNCHANGED <<pool, tell, posts, thread, loops>>

(* The pool is gone; a post that returned is over too.                      *)
Gone ==
  /\ mpc = "joined" /\ \A t \in Tasks : call[t] \in {"idle", "done"} /\ Quiet(Post(t))
  /\ UNCHANGED vars

OwnerStep ==
  \/ createWorkerThread \/ WorkerReady \/ createWorkerThreads \/ requestWorkerDrain
  \/ joinWorkerThreads \/ joinWorkerThread
  \/ requestAllWorkersStop(Owner)

PostStep(t) == postTaskToWorker(t) \/ finishTaskForward(t) \/ requestAllWorkersStop(Post(t))

WorkerStep(w) ==
  \/ Publish(w) \/ InitFails(w)
  \/ RunTask(w) \/ CountOut(w) \/ LoopStops(w)
  \/ Unpublish(w) \/ cleanupWorker(w) \/ WorkerStopsPool(w) \/ requestAllWorkersStop(Self(w))
  \/ CleanupCallback(w) \/ ThreadEnds(w)

Next ==
  \/ OwnerStep \/ OwnerStopsPool \/ requestWorkersDrain
  \/ \E t \in Tasks : PostStep(t) \/ \E w \in Workers : postTaskToWorkerAtIndex(t, w)
  \/ \E w \in Workers : WorkerStep(w) \/ LoopDrained(w) \/ LoopFails(w)
  \/ Gone

Spec == Init /\ [][Next]_vars

(* Threads that can run do run.  The owner need not ever stop the pool, and *)
(* a loop need not ever fail or drain.                                      *)
FairSpec ==
  /\ Spec
  /\ WF_vars(OwnerStep) /\ WF_vars(mpc = "stop" /\ OwnerStopsPool)
  /\ \A t \in Tasks : WF_vars(PostStep(t))
  /\ \A w \in Workers : WF_vars(WorkerStep(w))

-----------------------------------------------------------------------------
(* What must hold.                                                          *)

TypeOK ==
  /\ ready \in BOOLEAN /\ stopping \in BOOLEAN /\ draining \in BOOLEAN
  /\ forwarding \in 0 .. Cardinality(Tasks)
  /\ outstanding \in [Workers -> 0 .. TaskCapacity]
  /\ mpc \in {"new", "create", "await", "serving", "draining", "stop", "join", "joined"}
  /\ at \in 0 .. N + 1
  /\ tell \in [Callers -> 0 .. N]
  /\ call \in [Tasks -> {"idle", "reserved", "posted", "done"}]
  /\ target \in [Tasks -> Workers]
  /\ place \in [Tasks -> {"none", "held", "queued", "ran", "released", "refused"}]
  /\ wpc \in [Workers -> {"none", "noThread", "init", "run", "ended", "cleanup", "stopAll",
                          "callback", "final", "done"}]
  /\ published \in [Workers -> BOOLEAN] /\ succeeded \in [Workers -> BOOLEAN]
  /\ stopRequested \in [Workers -> BOOLEAN] /\ failure \in [Workers -> BOOLEAN]
  /\ loop \in [Workers -> {"none", "running", "stopping", "stopped", "failed"}]
  /\ queue \in [Workers -> Seq(Tasks)]
  /\ loopOutstanding \in [Workers -> 0 .. TaskCapacity]
  /\ drainAsked \in [Workers -> BOOLEAN]

(* The stop fence: a post that the pool took before it stopped is not       *)
(* turned away by a worker because of that stop.  Only a loop that failed,  *)
(* that drains, or that is still counting out its last task refuses it.     *)
StopFence ==
  [][\A t \in Tasks : place[t] = "held" /\ place'[t] = "refused" =>
       LET w == target[t] IN
       failure[w] \/ drainAsked[w] \/ loopOutstanding[w] = TaskCapacity]_vars

(* When the owner comes back from joinWorkerThreads nothing refers to the   *)
(* pool any more: no call is between its two critical sections, every       *)
(* ticket is back, and every accepted task has run or its loop had failed.  *)
(* Until then a published loop is one whose thread is inside runEventLoop   *)
(* or just returned from it: nobody posts to, or stops, a loop that is      *)
(* being destroyed, and no task is queued on one that will not look again.  *)
JoinedClean ==
  /\ TypeOK
  /\ mpc = "joined" =>
       /\ \A t \in Tasks : place[t] \notin {"held", "queued"} /\ call[t] \in {"idle", "done"}
       /\ \A w \in Workers : outstanding[w] = 0 /\ ~published[w]
       /\ \A t \in Tasks : place[t] = "released" => failure[target[t]]
  /\ \A w \in Workers :
       /\ published[w] => wpc[w] \in {"run", "ended"}
       /\ queue[w] # << >> => wpc[w] = "run" /\ loop[w] \in {"running", "stopping"}

(* A stop reaches every worker, whoever asked for it and whenever: during   *)
(* start-up, behind a forward in progress, or because a worker failed,      *)
(* which ends the others even during a drain.  Start-up, a drain request    *)
(* and a join come to an end: the owner is back in service, or has joined   *)
(* every thread.                                                            *)
StopEnds ==
  /\ stopping \/ (\E w \in Workers : loop[w] = "failed")
       ~> \A w \in Workers : wpc[w] \in {"none", "noThread", "done"}
  /\ mpc # "serving" ~> mpc \in {"serving", "joined"}
=============================================================================
