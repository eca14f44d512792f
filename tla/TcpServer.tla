------------------------------ MODULE TcpServer ------------------------------
(***************************************************************************)
(* hp::net::TcpServer with workers: hand-off of accepted connections to the *)
(* worker loops, graceful shutdown, force close, immediate stop, and the    *)
(* failure of a worker.  Loops, pool and registries are reduced to what     *)
(* their own modules show; here it matters who tells whom to stop, in which *)
(* order, and what happens to the connections meanwhile.                    *)
(***************************************************************************)
EXTENDS Integers, Sequences, FiniteSets

CONSTANTS
  N,      \* workerCount_
  Conns   \* the connections that clients open

ASSUME ServerAssumption == N \in Nat \ {0}

VARIABLES
  stopping, workerFailed, workersFinished,   \* the server's atomics
  draining,             \* draining_, the server's and with it the pool's
  listening,            \* the listener is open and watched
  nextWorker,           \* nextWorkerIndex_
  main,                 \* the main loop: control, pending, state, place, worker it tells
  worker,               \* per worker: loop state, control, pending, place
  registry,             \* per worker: draining_ and notified_ of its ConnectionRegistry
  handoffs,             \* per worker: adoptConnection tasks in its loop
  request,              \* a shutdown call that has set stopping_ but not told the loop
  late,                 \* the deadline of the graceful shutdown has passed
  conn, home            \* each connection's state, and its worker

serverVars == <<stopping, workerFailed, workersFinished, draining, listening, nextWorker>>
connVars   == <<conn, home>>
vars == <<serverVars, main, worker, registry, handoffs, request, late, connVars>>

Workers == 1 .. N

(* Where a connection is: offered by a client, handed off to a worker, open *)
(* with nothing to write or with output pending, closed; dropped without    *)
(* ever being served; or cut off with output pending.                       *)
Held == {"handed", "idle", "writing"}
Open == {"idle", "writing"}

Mine(w) == {c \in Conns : home[c] = w /\ conn[c] \in Open}

Running(l) == l \in {"running", "stopping"}

NewRegistry == [draining |-> FALSE, notified |-> FALSE]

Init ==
  /\ stopping = FALSE /\ workerFailed = FALSE /\ workersFinished = 0
  /\ draining = FALSE /\ listening = TRUE /\ nextWorker = 1
  /\ main = [loop |-> "running", control |-> "None", pending |-> FALSE, pc |-> "poll", at |-> 0]
  /\ worker = [w \in Workers |-> [loop |-> "running", control |-> "None", pending |-> FALSE,
                                  pc |-> "poll"]]
  /\ registry = [w \in Workers |-> NewRegistry]
  /\ handoffs = [w \in Workers |-> << >>]
  /\ request = "None" /\ late = FALSE
  /\ conn = [c \in Conns |-> "new"] /\ home = [c \in Conns |-> 1]

-----------------------------------------------------------------------------
(* Requests, from a signal or from any thread: stopping_ is set first, then *)
(* the main loop is told.                                                   *)

(* What a loop's control becomes when it is asked for kind.                 *)
Told(l, kind) ==
  IF Running(l.loop) THEN [l EXCEPT !.control = IF @ = "Force" THEN @ ELSE kind, !.pending = TRUE]
  ELSE l

BeginRequest(kind) ==
  /\ ~stopping
  /\ stopping' = TRUE
  /\ request' = kind
  /\ UNCHANGED <<workerFailed, workersFinished, draining, listening, nextWorker, main, worker,
                 registry, handoffs, late, connVars>>

(* The second half of a request; while stopping_ is set already a request   *)
(* has no first half that would change anything.  Bound of the model: such  *)
(* a request is for something that the main loop is not doing yet.          *)
Tells(kind, l) ==
  /\ stopping /\ main.pc # "returned"
  /\ request = kind \/ l.control # main.control \/ l.loop # main.loop
  /\ request' = IF request = kind THEN "None" ELSE request
  /\ main' = l
  /\ UNCHANGED <<serverVars, worker, registry, handoffs, late, connVars>>

requestServerGracefulShutdown == Tells("Drain", Told(main, "Drain"))
requestServerForceClose       == Tells("Force", Told(main, "Force"))
requestServerStop ==
  Tells("Stop", [main EXCEPT !.loop = IF @ = "running" THEN "stopping" ELSE @])

(* The deadline of the drain, on every loop's clock.                        *)
DeadlinePasses ==
  /\ ~late
  /\ main.control = "Drain" \/ \E w \in Workers : worker[w].control = "Drain"
  /\ late' = TRUE
  /\ UNCHANGED <<serverVars, main, worker, registry, handoffs, request, connVars>>

-----------------------------------------------------------------------------
(* The main loop.                                                           *)

(* Connections go to the workers in turn.                                   *)
InTurn    == (nextWorker % N) + 1

(* onAccepted: while stopping_ the socket is closed and accepting disabled; *)
(* otherwise the connection goes to the next worker, unless the budget, the *)
(* pool or the worker's loop turns it away.                                 *)
onAccepted(c) ==
  /\ main.pc = "poll" /\ Running(main.loop)
  /\ listening
  /\ conn[c] = "new"
  /\ \/ /\ stopping
        /\ listening' = FALSE
        /\ conn' = [conn EXCEPT ![c] = "dropped"]
        /\ UNCHANGED <<nextWorker, handoffs, home>>
     \/ /\ ~stopping
        /\ conn' = [conn EXCEPT ![c] = "dropped"]
        /\ nextWorker' \in {nextWorker, InTurn}
        /\ UNCHANGED <<listening, handoffs, home>>
     \/ /\ ~stopping
        /\ worker[nextWorker].pc = "poll" /\ worker[nextWorker].loop = "running"
        /\ conn' = [conn EXCEPT ![c] = "handed"]
        /\ home' = [home EXCEPT ![c] = nextWorker]
        /\ handoffs' = [handoffs EXCEPT ![nextWorker] = Append(@, c)]
        /\ nextWorker' = InTurn
        /\ UNCHANGED listening
  /\ UNCHANGED <<stopping, workerFailed, workersFinished, draining, main, worker, registry,
                 request, late>>

Expired(l) == l.control = "Drain" /\ late

(* dispatchControl and the head of onControl.  An end of onControl follows  *)
(* when the workers have been told; a drain that was passed on already is   *)
(* not passed on again.                                                     *)
onControl ==
  /\ main.pc = "poll" /\ Running(main.loop)
  /\ main.pending \/ Expired(main)
  /\ LET kind == IF Expired(main) THEN "Force" ELSE main.control
         tells == kind = "Force" \/ (kind = "Drain" /\ ~draining)
     IN /\ main' = [main EXCEPT !.control = kind, !.pending = FALSE,
                                !.pc = IF kind = "None" THEN "poll" ELSE "tell",
                                !.at = IF tells THEN 1 ELSE 0]
        /\ draining' = (draining \/ tells)
        /\ listening' = (listening /\ kind = "None")
  /\ UNCHANGED <<stopping, workerFailed, workersFinished, nextWorker, worker, registry, handoffs,
                 request, late, connVars>>

(* requestWorkersDrain or requestWorkersForceClose, one worker at a time;   *)
(* a worker whose loop is over is skipped.                                  *)
TellWorker ==
  /\ main.pc = "tell" /\ main.at \in Workers
  /\ worker' = [worker EXCEPT ![main.at] = Told(@, main.control)]
  /\ main' = [main EXCEPT !.at = IF @ = N THEN 0 ELSE @ + 1]
  /\ UNCHANGED <<serverVars, registry, handoffs, request, late, connVars>>

(* The end of onControl: when every worker has finished the main loop       *)
(* stops.                                                                   *)
CountWorkers ==
  /\ main.pc = "tell" /\ main.at = 0
  /\ main' = [main EXCEPT !.pc = "poll",
                          !.loop = IF @ = "running" /\ workersFinished = N THEN "stopping" ELSE @]
  /\ UNCHANGED <<serverVars, worker, registry, handoffs, request, late, connVars>>

(* A loop that is over: nobody looks at its control any more.               *)
Over(l, how, next) == [l EXCEPT !.loop = how, !.pc = next, !.control = "None", !.pending = FALSE]

(* The main loop returns or throws.                                         *)
MainLoopEnds ==
  /\ main.pc = "poll"
  /\ main.loop = "stopping"
  /\ main' = Over(main, "stopped", "shutdown")
  /\ UNCHANGED <<serverVars, worker, registry, handoffs, request, late, connVars>>

MainLoopFails ==
  /\ main.pc \in {"poll", "tell"} /\ Running(main.loop)
  /\ main' = [Over(main, "failed", "shutdown") EXCEPT !.at = 0]
  /\ UNCHANGED <<serverVars, worker, registry, handoffs, request, late, connVars>>

(* requestPoolStop, up to the last worker told.                             *)
PoolStopped == [w \in Workers |-> [worker[w] EXCEPT !.loop =
                                     IF worker[w].pc = "poll" /\ @ = "running" THEN "stopping" ELSE @]]

shutdownTcpServer ==
  /\ main.pc = "shutdown"
  /\ stopping' = TRUE
  /\ listening' = FALSE
  /\ worker' = PoolStopped
  /\ main' = [main EXCEPT !.pc = "join"]
  /\ UNCHANGED <<workerFailed, workersFinished, draining, nextWorker, registry, handoffs,
                 request, late, connVars>>

(* joinWorkerThreads returns, and so does runTcpServer; it throws when the  *)
(* main loop or a worker failed.                                            *)
runTcpServer ==
  /\ main.pc = "join"
  /\ \A w \in Workers : worker[w].pc = "done"
  /\ main' = [main EXCEPT !.pc = "returned"]
  /\ UNCHANGED <<serverVars, worker, registry, handoffs, request, late, connVars>>

-----------------------------------------------------------------------------
(* A worker.                                                                *)

(* The registry of w with draining_ = d and these connections left: when it *)
(* drains and is empty it stops its loop, once.                             *)
Emptied(w, d, left) == d /\ left = {} /\ ~registry[w].notified

onCleanup(w, d, left, l) ==
  /\ registry' = [registry EXCEPT ![w] = [draining |-> d,
                                          notified |-> @.notified \/ Emptied(w, d, left)]]
  /\ worker' = [worker EXCEPT ![w] = [l EXCEPT !.loop =
                  IF @ = "running" /\ Emptied(w, d, left) THEN "stopping" ELSE @]]

Polls(w) == worker[w].pc = "poll" /\ Running(worker[w].loop)

(* dispatchControl, the worker's onControl and beginConnectionsDrain: a     *)
(* force close ends every connection, a drain those without output.         *)
ClosedBy(kind) == IF kind = "Force" THEN Open ELSE {"idle"}

beginConnectionsDrain(w) ==
  /\ Polls(w)
  /\ worker[w].pending \/ Expired(worker[w])
  /\ LET kind   == IF Expired(worker[w]) THEN "Force" ELSE worker[w].control
         closed == {c \in Mine(w) : conn[c] \in ClosedBy(kind)}
     IN /\ conn' = [c \in Conns |-> IF c \notin closed THEN conn[c]
                                    ELSE IF conn[c] = "writing" THEN "cut" ELSE "closed"]
        /\ onCleanup(w, TRUE, Mine(w) \ closed,
                     [worker[w] EXCEPT !.control = kind, !.pending = FALSE])
  /\ UNCHANGED <<serverVars, main, handoffs, request, late, home>>

(* adoptConnection looks at stopping_ again; then the registry takes the    *)
(* connection unless it drains or registering it fails.                     *)
MayAdopt     == ~stopping

adoptConnection(w) ==
  /\ Polls(w)
  /\ handoffs[w] # << >>
  /\ handoffs' = [handoffs EXCEPT ![w] = Tail(@)]
  /\ \E next \in (IF MayAdopt /\ ~registry[w].draining THEN {"idle", "dropped"} ELSE {"dropped"}) :
       conn' = [conn EXCEPT ![Head(handoffs[w])] = next]
  /\ UNCHANGED <<serverVars, main, worker, registry, request, late, home>>

(* A request is answered: output is queued.                                 *)
Respond(c) ==
  /\ conn[c] = "idle" /\ Polls(home[c]) /\ ~registry[home[c]].draining
  /\ conn' = [conn EXCEPT ![c] = "writing"]
  /\ UNCHANGED <<serverVars, main, worker, registry, handoffs, request, late, home>>

(* Its output is flushed; a draining connection closes then.                *)
Flush(c) ==
  LET w == home[c] d == registry[home[c]].draining IN
  /\ conn[c] = "writing" /\ Polls(w)
  /\ conn' = [conn EXCEPT ![c] = IF d THEN "closed" ELSE "idle"]
  /\ IF d THEN onCleanup(w, d, Mine(w) \ {c}, worker[w]) ELSE UNCHANGED <<registry, worker>>
  /\ UNCHANGED <<serverVars, main, handoffs, request, late, home>>

(* The peer closes, the connection errs or times out.                       *)
PeerCloses(c) ==
  LET w == home[c] IN
  /\ conn[c] \in Open /\ Polls(w)
  /\ conn' = [conn EXCEPT ![c] = "closed"]
  /\ onCleanup(w, registry[w].draining, Mine(w) \ {c}, worker[w])
  /\ UNCHANGED <<serverVars, main, handoffs, request, late, home>>

(* The loop stops once its tasks have run, or fails and releases them.      *)
TasksIgnored(w) == TRUE
TasksRun(w)     == handoffs[w] = << >>

WorkerLoopEnds(w) ==
  /\ Polls(w)
  /\ worker[w].loop = "stopping" /\ TasksRun(w)
  /\ worker' = [worker EXCEPT ![w] = Over(@, "stopped", "ended")]
  /\ UNCHANGED <<serverVars, main, registry, handoffs, request, late, connVars>>

WorkerLoopFails(w) ==
  /\ Polls(w)
  /\ worker' = [worker EXCEPT ![w] = Over(@, "failed", "ended")]
  /\ conn' = [c \in Conns |-> IF conn[c] = "handed" /\ home[c] = w THEN "dropped" ELSE conn[c]]
  /\ handoffs' = [handoffs EXCEPT ![w] = << >>]
  /\ UNCHANGED <<serverVars, main, registry, request, late, home>>

(* The pool's cleanupWorker: an end that nobody planned stops every worker. *)
AlwaysStops(w)  == TRUE
StopsOthers(w)  == ~draining \/ worker[w].loop = "failed"

cleanupWorker(w) ==
  /\ worker[w].pc = "ended"
  /\ worker' = [(IF StopsOthers(w) THEN PoolStopped ELSE worker) EXCEPT ![w].pc = "cleanup"]
  /\ UNCHANGED <<serverVars, main, registry, handoffs, request, late, connVars>>

(* cleanupWorkerRegistry: a failed worker, or one that ended before anybody *)
(* asked for it, makes the server fail and force-close.                     *)
OnlyUnasked(w) == ~stopping
Unexpected(w)  == worker[w].loop = "failed" \/ ~stopping

cleanupWorkerRegistry(w) ==
  /\ worker[w].pc = "cleanup"
  /\ stopping' = TRUE
  /\ workerFailed' = (workerFailed \/ Unexpected(w))
  /\ main' = IF Unexpected(w) THEN Told(main, "Force") ELSE main
  /\ worker' = [worker EXCEPT ![w].pc = "reset"]
  /\ UNCHANGED <<workersFinished, draining, listening, nextWorker, registry, handoffs,
                 request, late, connVars>>

(* The registry and its connections are destroyed, the worker is counted,   *)
(* and only then the main loop is told to look at the count.                *)
ResetRegistry(w) ==
  /\ worker[w].pc = "reset"
  /\ conn' = [c \in Conns |-> IF c \notin Mine(w) THEN conn[c]
                              ELSE IF conn[c] = "writing" THEN "cut" ELSE "closed"]
  /\ workersFinished' = workersFinished + 1
  /\ registry' = [registry EXCEPT ![w] = NewRegistry]
  /\ worker' = [worker EXCEPT ![w].pc = "notify"]
  /\ UNCHANGED <<stopping, workerFailed, draining, listening, nextWorker, main, handoffs, request,
                 late, home>>

NotNotified == main
Notified    == IF Running(main.loop) THEN [main EXCEPT !.pending = TRUE] ELSE main

notifyControl(w) ==
  /\ worker[w].pc = "notify"
  /\ main' = Notified
  /\ worker' = [worker EXCEPT ![w].pc = "done"]
  /\ UNCHANGED <<serverVars, registry, handoffs, request, late, connVars>>

-----------------------------------------------------------------------------
MainStep == onControl \/ TellWorker \/ CountWorkers \/ MainLoopEnds \/ shutdownTcpServer \/ runTcpServer

WorkerStep(w) ==
  \/ beginConnectionsDrain(w) \/ adoptConnection(w) \/ WorkerLoopEnds(w)
  \/ cleanupWorker(w) \/ cleanupWorkerRegistry(w) \/ ResetRegistry(w) \/ notifyControl(w)

RequestStep ==
  requestServerGracefulShutdown \/ requestServerForceClose \/ requestServerStop

Next ==
  \/ \E kind \in {"Drain", "Force", "Stop"} : BeginRequest(kind)
  \/ RequestStep
  \/ DeadlinePasses
  \/ MainStep \/ MainLoopFails
  \/ \E w \in Workers : WorkerStep(w) \/ WorkerLoopFails(w)
  \/ \E c \in Conns : onAccepted(c) \/ Respond(c) \/ Flush(c) \/ PeerCloses(c)
  \/ main.pc = "returned" /\ UNCHANGED vars

Spec == Init /\ [][Next]_vars

(* Threads run, a request that was begun is completed, and time passes.     *)
(* Nothing is assumed of clients, and nobody has to ask for a shutdown.     *)
FairSpec ==
  /\ Spec
  /\ WF_vars(MainStep) /\ WF_vars(DeadlinePasses)
  /\ WF_vars(request # "None" /\ RequestStep /\ request' = "None")
  /\ \A w \in Workers : WF_vars(WorkerStep(w))

-----------------------------------------------------------------------------
(* What must hold.                                                          *)

Loops    == {"running", "stopping", "stopped", "failed"}
Controls == {"None", "Drain", "Force"}

TypeOK ==
  /\ stopping \in BOOLEAN /\ workerFailed \in BOOLEAN /\ workersFinished \in 0 .. N
  /\ draining \in BOOLEAN /\ listening \in BOOLEAN /\ nextWorker \in Workers
  /\ main \in [loop : Loops, control : Controls, pending : BOOLEAN, at : 0 .. N,
               pc : {"poll", "tell", "shutdown", "join", "returned"}]
  /\ worker \in [Workers -> [loop : Loops, control : Controls, pending : BOOLEAN,
                             pc : {"poll", "ended", "cleanup", "reset", "notify", "done"}]]
  /\ registry \in [Workers -> [draining : BOOLEAN, notified : BOOLEAN]]
  /\ handoffs \in [Workers -> Seq(Conns)]
  /\ request \in {"None", "Drain", "Force", "Stop"} /\ late \in BOOLEAN
  /\ conn \in [Conns -> {"new", "handed", "idle", "writing", "closed", "dropped", "cut"}]
  /\ home \in [Conns -> Workers]

(* A connection that was handed off is in exactly one worker's queue, and   *)
(* an open one has a registry that still exists; so when runTcpServer       *)
(* returns no connection, and no lease on the budget, is left behind.       *)
NothingLeft ==
  /\ TypeOK
  /\ \A c \in Conns : conn[c] = "handed" =>
       /\ worker[home[c]].pc = "poll"
       /\ Cardinality({i \in 1 .. Len(handoffs[home[c]]) : handoffs[home[c]][i] = c}) = 1
  /\ \A c \in Conns : conn[c] \in Open => worker[home[c]].pc \notin {"notify", "done"}
  /\ main.pc = "returned" => workersFinished = N /\ \A c \in Conns : conn[c] \notin Held

(* runTcpServer reports a worker failure if and only if a worker failed: a  *)
(* drain in which workers end at different times is not mistaken for one,   *)
(* and a failure during a shutdown is not hidden by it.                     *)
FailureReported ==
  main.pc = "returned" => (workerFailed <=> \E w \in Workers : worker[w].loop = "failed")

(* A graceful shutdown cuts nobody off before its deadline: output that is  *)
(* pending is lost only to a force close of that worker, to a failure, or   *)
(* to an immediate stop.  The end of one drained worker is no reason.       *)
DrainKeepsOutput ==
  [][\A c \in Conns : conn[c] = "writing" /\ conn'[c] = "cut" =>
       \/ worker'[home[c]].control = "Force"
       \/ \E w \in Workers : worker[w].loop = "failed"
       \/ main.loop # "running"]_vars

(* Every request to shut down, and every failure of a worker, ends with     *)
(* runTcpServer returning, whatever clients do: nobody waits for a worker   *)
(* that has finished, or finishes without the main loop learning of it.     *)
ShutdownEnds ==
  stopping \/ (\E w \in Workers : worker[w].loop = "failed") ~> main.pc = "returned"
=============================================================================
