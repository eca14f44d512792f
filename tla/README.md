# Formal model of HP-HTTP-Server

TLA+ modules, TLC configurations and TLAPS proofs for the concurrent core of the
server and for the scripts that run it. Each module translates one component of the
source. For every definition `PROJECT.json` (`map`) names the lines it stands for.

## 1. The system and its parts

HP-HTTP-Server is a multi-reactor HTTP/1.1 server. `main` builds the services, starts an
optional management server on a thread of its own and runs a `TcpServer`. The main
`EventLoop` accepts connections and hands each socket to one of the worker loops of an
`EventLoopThreadPool`. A worker owns its connections through a `ConnectionRegistry`. A
`TcpConnection` drives the buffers and the socket of its `ConnectionIo` and calls an HTTP
`Session`, which feeds a `RequestParser`, answers from the router, or submits a task to the
`BoundedTaskExecutor` and polls for the result with a timer. A `ResourceBudget` shared by
all loops bounds connections and bytes, and a log thread (`AsyncLogger`) writes the log.

Two Python scripts run the finished server as a child process: `verify_deployment.py` checks
a deployment (options, permissions, restart, faults), `demo_task_application.py` shows the
task API. Each owns processes, reader threads and directories, and has to give them back
whatever fails and whenever a signal arrives.

| Part | State | Operations | Interacts with |
| --- | --- | --- | --- |
| Task executor | queue, slots, job states, counters, threads | submit, cancel, collect, stop, join, worker loop | session, signal handler |
| Resource budget | use, peak and refusals per resource; leases | acquire, release, move, absorb | accept path, session, output |
| Timer queue | timers by id and by deadline, id counter | add, re-arm, cancel, clear, run the due ones | event loop, registry |
| Event loop | task queue, control request, stop, wake-up, failure | post, drain, force, notify, stop, poll round | everything on the loop |
| Worker pool | per-pool and per-thread state, tickets | create, post, drain, stop, cleanup, join | server, loops |
| TCP server | stopping, draining, finished workers, failure | hand-off, shutdown, force, stop, cleanup | pool, registries, main |
| Connection registry | connections by descriptor, closing list, timers, channel table | register, time out, close, recover, drain | loop, timers, connections |
| Connection and session | input, output, interest, request in progress, leases, job | read, parse, answer, await, write, close | parser, executor, budget |
| Request parser | position, flags, counters, body | feed, reset | session |
| Async logger | ring, batch, counters, consumer thread | submit, consume, stop | every thread |
| Management server, `main` | lifecycle, published pointer, startup flags, exit code | start, run, fail, stop, signal, join | both servers |
| Task table and API | tasks by identifier, next identifier | create, get, list, replace, delete | clients, scripts |
| Scripts | child, readers, owning object, exception on its way, files | construct, use, clean up, report, signal | the server process |

What makes this code hard to test: wake-ups that race with a loop going to sleep; a stop
that overtakes a post on its way to a worker; callbacks that change the container being
walked; descriptors reused while old events are still queued; timers that fire for a
connection that is gone; a job that is cancelled while it runs; several threads stopping
the same object; pointers to objects on another thread's stack; failures half-way through
a start-up; input cut at any byte. `PROJECT.json` (`hazards`) lists them with the line
where each one bites and the properties that would catch it.

## 2. Modules

Every component has its module and an `MC` module, which is what TLC runs and which adds at
most symmetry sets and constant definitions.

| Module | Code | How state and actions correspond |
| --- | --- | --- |
| `BoundedTaskExecutor` | `src/business/BoundedTaskExecutor.*` | One action per critical section. A worker is waiting, has claimed a job, runs it, or has finished; jobs carry a state, a deadline and a cancel flag. Construction may fail at any thread. |
| `ResourceBudget` | `src/base/ResourceBudget.*` | The ledger and a set of lease objects; sizes wrap at `SizeRange`. One action per operation on a lease. |
| `TimerQueue` | `src/timer/TimerQueue.*` | `records_` and `ordered_` are kept as two structures. Adding and re-arming take a step per index update, and the insertion into `ordered_` may fail. A run of due timers is a series of actions between which callbacks act, nested runs included. |
| `EventLoop` | `src/net/EventLoop.*` | `pc` is where the owner is in `pollOnce`; other threads act in every gap. The eventfd is a flag, time is a counter. |
| `EventLoopThreadPool` | `src/net/EventLoopThreadPool.*`, `EventLoopThread.*` | Two mutexes, hence two critical sections per post. The owner thread, posting calls, workers and their clean-up interleave. |
| `TcpServer` | `src/net/TcpServer.*` | Main loop, worker loops, requests from any thread. Each store to an atomic is a step. |
| `ConnectionRegistry` | `src/net/ConnectionRegistry.*`, parts of `TcpConnection.*`, the channel table of `EventLoop.cpp` | Single-threaded: methods are operators on the registry's state, a callback is a series of actions. `channels_`, `channelFds_` and epoll's set are kept as three structures; adding, changing and removing a channel may fail. Events carry tokens; events and timers already collected may be stale. |
| `HttpSession` | `app/HttpConnectionHandler.*`, `TcpConnection.*`, `ConnectionIo.*`, `AsyncTaskHandler.*` | One connection. Reading, parsing, responding, writing and ending an event are steps; the clock and the executor move between them. |
| `HttpExchange` | (abstract) | What a connection promises about the requests it counts; `HttpSession` refines it. |
| `AsyncLogger` | `src/base/AsyncLogger.*` | Ring with head and size, batch of the consumer, counters, several stopping threads. |
| `LogQueue` | (abstract) | A FIFO queue that refuses when full and a sink that may break; `AsyncLogger` refines it. |
| `RequestParser` | `src/http/HttpRequest.*` | The parser is a record; a call of `feedRequestBytes` begins, takes bytes and returns at any point. |
| `RequestFraming` | (reference) | What one request is, defined on the byte sequence alone. |
| `ManagementServer` | `app/ManagementServer.cpp`, `app/main.cpp` | The whole process. Two program counters, one for the main and one for the management thread; each locked section and each access to an atomic is a step. |
| `ServerLifetime` | (abstract) `app/main.cpp` | What the process promises to its parent: the order of start, announcements, service, metrics and exit, and the exit codes. `ManagementServer` refines it. |
| `TaskService` | `src/business/TaskService.cpp`, `src/http/TaskApiHandler.cpp` | Every operation is one critical section, hence an operator on the table; a request is method, digits of the path and body. |
| `OwnedServer` | both scripts | The child (`ServerLifetime` with a task table), reader threads, and the steps both scripts share. |
| `VerifyDeployment` | `scripts/verify_deployment.py` | The main thread, one label per statement that can fail or be interrupted; `interrupted` says what a signal does at each label. |
| `DemoTaskApplication` | `scripts/demo_task_application.py` | Likewise, with one step per request about tasks. |
| `Scripts` | both scripts | Composition: one of the scripts with child, readers, signals and other clients. |
| `BoundedTaskExecutorProofs`, `ResourceBudgetProofs`, `TimerQueueProofs`, `EventLoopProofs`, `TcpServerProofs`, `HttpSessionProofs`, `AsyncLoggerProofs`, `ManagementServerProofs` | | Theorems and proofs, section 5. |

**Composition.** Modules stack by promise rather than in one product state space:
`EventLoopThreadPool` uses of a worker's loop only what `EventLoop` shows (tasks run in
order, a stop runs the rest of the queue, a failure releases it); `TcpServer` uses of pool
and loops what `EventLoopThreadPool` shows; `ManagementServer` uses that a `TcpServer` which
is told to stop returns (`ShutdownEnds`); the scripts use of the process only
`ServerLifetime`, which `ManagementServer` is shown to implement. `HttpSession` composes
connection, session, leases and the session's view of the executor in one module, because
their steps interleave; `Scripts` likewise composes a script with child, readers and signals.


## 3. Runs

Every run is a passing one.

| Run | Properties | What it shows |
| --- | --- | --- |
| `executor` | `CountsAgree`, `CancelledNeverHanded`, `QueuedJobLeaves`, `StopDrains` | Counters equal what slots, queue and threads hold; cancel and collect never both win; no queued job is forgotten; a stop frees every slot and ends every thread. |
| `resource_budget` | `UsageIsHeld`, `PeakWithinLimits` | The ledger equals the sum of the leases and stays within limits although sizes are unsigned. |
| `timer_queue` | `IndexesAgree`, `FiredAsAsked` | Both indexes agree after every call, one that threw included, and inside a call differ only by its own entry; a timer fires only if it is still wanted, at its current deadline; a finished run leaves no due timer behind. |
| `event_loop` | `NoOversleep`, `FifoOnce`, `RequestsHonoured` | No lost wake-up; tasks run once and in order and their places are returned; accepted tasks settle; stop, control and the drain deadline take effect. |
| `thread_pool` | `JoinedClean`, `StopFence`, `StopEnds` | After the join nothing refers to the pool; the published loop is alive; a post that was accepted is not turned away by a stop; a stop reaches every worker; start-up and join return. |
| `tcp_server` | `NothingLeft`, `FailureReported`, `DrainKeepsOutput`, `ShutdownEnds` | No connection survives the server; an exception is thrown exactly when something failed; a drained worker does not cut off another one's output; every shutdown ends. |
| `registry` | `ClosingListed`, `TimeoutArmed`, `ChannelTableSound` | The closing list holds exactly the closing connections, metrics match, a drained registry stops its loop; the armed timer is the earliest of the three limits and belongs to a live connection; the loop's two maps, epoll and the connections agree although registrations fail half-way and `EPOLL_CTL_DEL` may fail, and a stale event finds nobody, also when its descriptor has a new owner. |
| `http_session` | `NothingLeaks`, `AnsweredInOrder`, `NeverStuck`, `DeadlineFollowsRequest`, `CountedOnce`, `AwaitEnds` | Leases and jobs are returned; responses come in order; an open connection always has something that will wake it; the read deadline belongs to the current request; metrics refine `HttpExchange`; waiting for a task ends. |
| `logger` | `StopFlushes`, `QueueImplemented`, `StopReturns` | When any stop returns the ring is flushed and counters balance; the ring implements `LogQueue`; every stop returns. |
| `request_parser` | `WithinLimits`, `FramesOneMessage`, `ContinueOnce` | No write outside the storage and no body beyond its limit; the parser completes exactly when the bytes are one request; 100-continue is offered once, before the body. |
| `management` | `LifetimesNest`, `ProcessEnds`, `LifetimeImplemented` | No dangling pointer between the two threads, no readiness after a recorded failure; a failure ends the process with exit code 1 and a signal ends it; the process implements `ServerLifetime`. |
| `scripts` | `PassIsEarned`, `TasksAsAsked`, `CauseKept`, `ScriptEnds` | A script that ends without an exception has swallowed nothing and leaves nothing behind; tasks and identifiers behave as the scripts require unless another client interferes, and an identifier never comes back; cleanup and reporting never replace the cause of a failure; every wait ends. |

Type invariants are conjuncts of one invariant per module (`CountsAgree` and the budget
modules excepted, whose types are proved).

### Bounds

| Run | Bounds | Why they are enough to meet the hard cases |
| --- | --- | --- |
| `executor` | 3 jobs, 2 threads, queue of 1, 3 slots, 2 moments | The queue fills while both threads are busy, slots are reused, deadlines pass before and after a claim. A refusal because all places are in use needs more jobs than places: the same properties hold with one thread and two slots, where the three jobs reach it. More jobs: section 5. |
| `resource_budget` | 3 leases, limits 2/3/3, sizes modulo 5 | Limits run out, differences would wrap, three leases allow a move and an absorption with a bystander. |
| `timer_queue` | 4 ids, 3 moments | Ids run out; either insertion fails, in and outside a run; a callback can add, re-arm and cancel timers on both sides of the one that runs. |
| `event_loop` | 2 tasks, capacity 2, 2 moments, 1 timer, wait of 2 | A batch and a queue exist together; a deadline passes inside and outside a wait. The refusal at full capacity is a guard that this run does not meet: there are as many places as tasks. With a third moment the properties hold too (868,000 states), at four times the cost. |
| `thread_pool` | 2 workers, 1 post | One worker can fail, stop or finish while the other goes on and the post is in any of its sections. Two posts pass too, at more than ten times the cost. |
| `tcp_server` | 2 workers, 1 connection | One worker finishes early while the other still holds output. |
| `registry` | two settings: 2 descriptors, 3 identities and tokens, `EPOLL_CTL_DEL` may fail, no clock; 1 descriptor, 2 identities and tokens, 4 moments, idle 2, keep-alive 1 | A descriptor is reused in the batch of events that closed it, identities and tokens run out; all orders of the three limits, reuse with an old timer pending. |
| `http_session` | 4 requests, window of 3 pieces, responses of up to 2 | Pipelining fills the window and pauses reading; partial writes; a request after an awaited one. |
| `logger` | 3 slots, batches of 2, 5 records, 2 stoppers | The ring wraps, fills and is drained in partial batches. |
| `request_parser` | head of at most 14 symbols, request line of 2, body of 2, `uint64_t` of 32 values | Up to three fields, every limit is met exactly and exceeded, sizes overflow, requests follow one another. |
| `management` | 2 signals | The first drains, the second forces, or one stays unread to the end. |
| `scripts` | 2 signals, 2 requests of others per server, 2 identifiers in binary, a table of 2 | A signal while another one, or a failure, is being cleaned up; the table fills and identifiers run out under the script; the smallest identifier that is too large has as many digits as the largest valid one. |

Symmetry is used only in `resource_budget`, which has no liveness property and treats all
leases alike.

### Fairness

Only weak fairness is assumed, and only where the code's scheduling gives it: threads of
the process are scheduled and tasks, callbacks and jobs return (`executor`, `event_loop`,
`thread_pool`, `tcp_server`, `logger`, `management`); time passes, so that a deadline, the
cap on a wait, or the one-second limit of `ManagementServer::start` is reached; a thread that
has begun a stop goes on. Nothing is assumed of clients, of those who may request a
shutdown, of signals, or of failures: these may happen and need not. In `scripts` the main
thread and the readers run, timeouts pass and a child that was sent SIGKILL dies; of
everything else the child does nothing is assumed.

### What the runs say about signals

Three results are weaker than one might expect, and the properties say so.

*Exit code of the server.* `main` blocks SIGINT and SIGTERM and reads them from a signalfd.
A signal that nobody has read by the time the mask is restored (`app/main.cpp`, line 96)
takes its default effect: a process on its way to exit code 0 is ended by the signal instead.
`documentation/RUNNING.md` (line 10) promises 0 for an end by signal, which holds for the
signals that were read. `ServerLifetime` allows both ends after a SIGTERM, so the scripts are
checked against both: a script sends the signal once, and a signal that ends the child leads
to a failed requirement.

*Torn cleanup in the scripts.* Both scripts turn a signal into an exception in the main
thread. It can arrive between `mkdir` or fork and the assignment that records it, between the
construction of a server and the `with` or `try` that owns it, inside `kill()`, or between two
statements of a cleanup that runs only once. The variable `torn` marks these places. After
such a signal a child or a directory may be left behind, and the interpreter may wait for a
reader whose child nobody ends. `ScriptEnds` and the last conjunct of `PassIsEarned` exclude
these cases; that a pass is earned holds in them too.

*A summary that says passed.* Both scripts set `summary['passed']` inside the `try` statement
whose `except` clause records an exception. A signal between the two leaves a summary with
`passed: true` next to `original_error`, and the script still ends with the exception; so does
a signal or a failed announcement after the summary was written. `PassIsEarned` therefore speaks
about the way a script ends, and of the summary alone it says only that every stage was passed,
the directory was removed and nothing but a signal or the reporting itself went wrong.

In the fault stages of `verify_deployment.py` a signal is caught together with the injected
fault, and the comparison that follows reports an `AssertionError` instead; a server that
should not have started is cleaned up without being told of the exception on its way.
`CauseKept` names these two places as its exceptions.

## 4. What the models leave out

- Memory: `std::bad_alloc` and other exceptions are modelled where the code has a handler
  for them (start-up, registration, callbacks, loops); inside a session only exhausted
  budgets are.
- `EventLoop`: the channel table is reduced to events that occur or not; it is modelled in
  `ConnectionRegistry`, whose connections use it.
- `EventLoopThreadPool`: a post from another thread may still be inside
  `requestAllWorkersStop` when a join returns. The server posts only from the thread that
  joins, and the model does the same with what follows a join.
- `TcpServer`: `workerCount` 0, where the registry sits on the main loop.
- `HttpSession`: the parser's verdict and the response are chosen freely; bytes are counted
  in pieces.
- `RequestParser`: a symbol stands for the meaning of a line or field. Letter case, white
  space, token characters, the conditional fields and the content type are left out, and so
  are the scan counters.
- `ManagementServer`: what a request to `/readyz` and the other pages returns.
- `TaskService`: a task's title and flag are one value, a body is good, bad or too large;
  the JSON parser, media types and the size of a response are left out.
- Scripts: what `verify_unit` compares and what a health or metrics page holds are answers
  that are as expected or not. SIGINT in `verify_deployment.py`, which has no handler for it,
  is not sent. A request of others matters only while a script is about to ask for tasks.
- Not modelled at all (reasons in `PROJECT.json`): descriptor wrappers, the acceptor's accept
  loop, buffers, routing, static files, formatting, metrics, parsing of the configuration, and
  `scripts/format_cpp.py`, a developer's tool that runs clang-format. Benchmarks, tests,
  examples and third-party code are not part of the server.

## 5. Proofs

TLAPS checks 36 theorems about eight components, for every value of the constants. Each component
has an inductive invariant (`IInv` or `Inv`) that TLC has checked first on the instance of its run.

**Executor** (`BoundedTaskExecutorProofs`). Assumptions (`ExecutorAssumption`): finitely many
threads, natural capacities, and enough slots for the queue and the threads. `CountsAgree` is not
inductive: to see that a counter may be decremented one must know that the job a thread
holds is running and has a slot of its own. `IInv` therefore adds

- `JobPlaces`: every live job owns exactly one slot and the queue lists each queued job once;
- `WorkersHold`: a thread between two critical sections holds a running job that no other
  thread holds;
- `JobHistory`: what a job's state says of its cancel flag, its runs and its hand-over;
- `QueueInDeadlineOrder`, and the bounds on the queue and on the outstanding jobs.

The counting argument is isolated in lemmas about moving one slot between states
(`SlotMoves`), erasing a job from the queue (`EraseProperties`) and finding a free slot
(`FreeSlotIsEmpty`); each action then has its own lemma. From `IInv` follow `ExecutorTypes`,
`ExecutorCounts` (the run's `CountsAgree`), `ExecutorPlaces`, `ExecutorFindsSlot` (the search
for a slot after an accepted submit succeeds), `ExecutorCancelWins` (the run's
`CancelledNeverHanded`), `ExecutorRunsOnce`, `ExecutorDeadlineOrder` and the action property
`ExecutorRetirementFinal`.

**Resource budget** (`ResourceBudgetProofs`). Assumptions (`BudgetAssumption`): finitely many
leases, limits below the range of `size_t`. The sum over leases is the cardinality of the set
of units they hold, so that the library's facts on finite sets replace an induction;
`ChangeOne` says what changing one lease does to it. The invariant needs that the ledger
equals the sum, that use is within the limits, and that an unbound lease holds nothing,
together: only then does no subtraction wrap. Theorems: `BudgetTypes`, `BudgetLedger` (the
run's `UsageIsHeld`), `BudgetWithinLimits` (the run's `PeakWithinLimits`), `BudgetUnbound`,
`BudgetRefusals`.

**Timer queue** (`TimerQueueProofs`). `IndexesAlwaysAgree` (the run's `IndexesAgree`) and
`AlwaysFiredAsAsked` (the run's `FiredAsAsked`) follow from `Inv`: between calls the
pairs in `ordered_` are exactly the deadlines in `records_` and what the callers still want, and
inside a call they differ by the entry it is about, which the invariant identifies (`Indexed`); an id is not
given twice before the counter wraps, so a timer that fired is not listed again (`Fresh`); and
what was collected before the cutoff, if it is still listed with that deadline, is due
(`Collected`). The last two are needed because callbacks add, re-arm and cancel timers between
the collection and their turn.

**Event loop** (`EventLoopProofs`). `AlwaysFifoOnce` (the run's `FifoOnce`) rests on `InOrder`:
the accepted tasks are, in this order, those released, the rest of the batch and the queue,
position by position; it is kept everywhere except on the path of a failure, where the rest
is thrown away. `NeverOversleeps` (the run's `NoOversleep`) rests on `Awake`: from the moment the
wait's bound is computed, work that arrives has written the eventfd or made the loop fail. The
invariant already speaks of the place between the computation and `epoll_wait`, and of the `lag`
by which the clock moved in between. `Locals` says where the owner's locals are in use (a batch
is left only inside the loop over it), `Verdicts` that `failure_` and `state_` agree.

**Server** (`TcpServerProofs`). All three safety properties of the run, for any number of workers
(at least one, `ServerAssumption`) and any set of connections. None is inductive, because a shutdown
passes through the main loop, the pool and every worker one step at a time; `Inv` adds

- `Queued`: a connection is handed off exactly while it is in its worker's queue, once, and the queue
  of a worker whose loop is over is empty;
- `Served`: an open connection has a registry that was not destroyed;
- `Places`: where the threads are, and that `workersFinished_` counts the workers past `ResetRegistry`;
- `Asked`: who is told to drain was told after `stopping_` was set, a worker after `draining_`;
- `Reasons`: a worker's loop stops because somebody asked or a worker failed; and while no worker
  failed and the main loop runs on, because its registry drains and has no connection left;
- `Recorded`: a failure is recorded before the worker is counted, and nothing else is recorded.

`ShutdownLeavesNothing` (the run's `NothingLeft`) follows from the first three.
`FailuresAreReported` (`FailureReported`) and the action property `DrainsKeepOutput`
(`DrainKeepsOutput`) both turn on `cleanupWorker` and `cleanupWorkerRegistry`, which take the end of
a worker for unplanned by looking at `draining_` and `stopping_`: `Asked` and `Reasons` show that a
worker that drained by itself is never taken for one, and that a worker that ends before anybody
asked was stopped because another one failed. `WorkersTold`, `OnCleanup_Inv` and `HandOff_Inv` are
shared by the actions that tell workers, close connections and hand them off.

**Session** (`HttpSessionProofs`). All five safety properties of the run, for any window, response
size and number of requests (`SessionAssumption`: each at least one). `IInv` relates the two
records that `TcpConnection` and `Session` keep of the same request. None of the five is inductive
alone, because each event is several steps and both records change in each:

- `Control`: `handlingEvent_` is set exactly between the start and the end of an event, and
  `onMessage` runs only on an active connection whose session is reading;
- `Phases`: for an active connection, what each phase says of the output, the answer it carries, the
  continuation, pausing and draining. A session that writes or has sent an interim response has output
  pending, and conversely; one that waits for a job has a continuation of its own generation;
- `Interest`: what epoll is asked for is up to date whenever the loop waits (within an event it is not);
- `Leases` and `Deadline`: the leases as in the property, and the connection's deadline lasts as
  long as the input lease while the request is received;
- `Input`: a request is begun by a piece of input that is not consumed yet, so there are no more
  requests than pieces sent;
- `Numbers`: requests, outcomes, answers and generations are numbered alike, and an active
  connection has aborted nothing.

Closing is where most paths meet: `Closes` says what a path must have settled before
`requestClose`, and every closing path (an expired request, a refused lease, the end of an event, a
drain, a time limit, the last write) is an instance of it. `Responds` does the same for
`sendFinalResponse`, `WriteCompletes` for `onWriteComplete`. From `IInv` follow `LeasesAreExact`
(the run's `NothingLeaks`), `ResponsesInOrder` (`AnsweredInOrder`), `ConnectionNeverDeaf`
(`NeverStuck`) and `DeadlineIsTheRequests` (`DeadlineFollowsRequest`). `RequestsCountedOnce` is the
refinement of `HttpExchange` (`CountedOnce`): a step of `Message` begins a request, a step that
finishes or destroys ends it (`Settles`), the others stutter; that a request begins only after
completed ones comes from `Numbers`.

**Logger** (`AsyncLoggerProofs`). `StopAlwaysFlushes` (the run's `StopFlushes`) needs where each
thread is and what it left (`Places`: an ended consumer left an empty ring that refuses
records), that the counters add up with the batch that is out of the lock (`Counted`), and
that a stream that did not fail has taken what is counted as written, plus the batch between the
write and its accounting (`Flushed`). `QueueRefined` is the refinement of `LogQueue`
(`QueueImplemented`): `submitLogRecord` appends or stutters, taking a batch stutters,
`writeRecordBatch` removes the batch from the front. `Wrap`, `SlotsApart` and `Advance` are
the modular arithmetic of the ring, for every number of slots.

**Management server** (`ManagementServerProofs`). `LifetimesNestAlways` (the run's
`LifetimesNest`) and `LifetimeRefined`, the refinement of `ServerLifetime`
(`LifetimeImplemented`). `Inv` says for every place of the two threads which objects
exist (`Scopes`), what an exception on its way was caused by (`Causes`), how the lifecycle word
and the business server follow the main thread (`Lifecycles`), and what was said to the parent
(`Promises`). Three facts had to be added before it was inductive: a management thread that has
not reached `clearControl` has thrown nothing; before the wait for the startup there is no
management thread; metrics are printed only if they were asked for. The refinement is shown step by
step: `LifeOf` maps the main thread's place to a phase of `ServerLifetime`, and each step either
keeps what the parent sees or is one step of it (`Simulated`).

Assumptions on constants are those the modules state (`QueueAssumption`, `LoopAssumption`,
`LoggerAssumption`: bounds and capacities are natural numbers, ring and batch are not empty).

**Only model-checked.** Every liveness property, as liveness under fairness is beyond the
prover. The reference definition of `RequestFraming` is recursive, which keeps
`FramesOneMessage` with TLC for good. The safety properties of the pool, the registry, the
parser's limits, the task table and the scripts are within the prover's reach in principle but have
no proof yet.

## 6. Plan

Done, in this order: executor and budget with proofs; timer queue and event loop; pool and
server; registry, connection and session; logger; parser; management and process lifecycle;
task table and API; the scripts with the process they run; proofs for timer queue, event loop,
logger and management server; proofs for the session and the server.

Next, for the model: the acceptor and `workerCount` 0 in `TcpServer`; buffers against a
sequence; ranges and preconditions of static files, and path normalisation as
pure modules.

Next, for the proofs: `JoinedClean` of the pool; `ClosingListed` of the registry;
`WithinLimits` of the parser, which does not need the recursive module.

## 7. Checking

In this directory: `tlc -config <file>.cfg <module>` for the pairs listed in `PROJECT.json`
(`runs`), and `tlapm <module>.tla` for the proof modules (section 5). For every property
`PROJECT.json` (`mutants`) names a plausible bug in a translated definition that TLC finds
with it.
