----------------------------- MODULE EventLoop -----------------------------
(***************************************************************************)
(* hp::net::EventLoop: one owner thread that polls, and any number of other *)
(* threads that post tasks and request drain, force or stop.  mutex_ guards *)
(* the state they share; every locked section is one action, and what the   *)
(* owner does between two of them is a place (pc) where others interleave.  *)
(*                                                                          *)
(* Callbacks of channels, timers, tasks and control are opaque: they return *)
(* or throw, and whatever they call on their own loop is an action others   *)
(* can take at the same place.                                              *)
(***************************************************************************)
EXTENDS Integers, Sequences, FiniteSets

CONSTANTS
  Tasks,         \* identities of posted tasks
  TaskCapacity,  \* kTaskCapacity
  MaxWait,       \* the 1000 ms cap on a wait, in ticks
  MaxTime,       \* bound of the model: the clock stops here
  MaxTimers      \* bound of the model on the timers that are armed at once

ASSUME LoopAssumption ==
  /\ TaskCapacity \in Nat \ {0}
  /\ MaxWait \in Nat \ {0}
  /\ MaxTime \in Nat /\ MaxTimers \in Nat

VARIABLES
  state,            \* state_
  failure,          \* failure_ is set
  control, controlDeadline, controlPending,
  tasks,            \* tasks_
  batch,            \* pollOnce's batch, tasks not yet released
  outstanding,      \* outstanding_
  wake,             \* the eventfd is readable
  pc, ret,          \* where the owner is, and where dispatchControl returns to
  events,           \* events of the last wait not yet dispatched
  timeoutMs,        \* the wait's length, from Prepare to Arm
  waitUntil,        \* when the wait times out
  lag,              \* history: the time that passed between Prepare and Arm
  timers,           \* deadlines of timers up to this round's cutoff
  newTimers,        \* deadlines of timers added in this round
  due,              \* timers runDueTimers has collected
  now,
  accepted,         \* tasks for which enqueueLoopTask answered true, in order
  executed,         \* tasks that were started, in order
  given             \* the last control passed to controlCallback_

shared == <<state, failure, control, controlDeadline, controlPending, tasks, outstanding, wake>>
wait   == <<timeoutMs, waitUntil, lag>>
owner  == <<batch, pc, ret, events, wait, timers, newTimers, due>>
ghost  == <<accepted, executed, given>>
vars   == <<shared, owner, ghost, now>>

Times    == 0 .. MaxTime
States   == {"Ready", "Running", "Stopping", "Stopped", "Failed"}
Controls == {"None", "Drain", "Force"}
Places   == {"ready", "top", "control", "prepare", "arm", "waiting", "woken", "events",
             "channel", "batch", "check", "task", "timers", "due", "fire", "settle", "loop", "failing",
             "ended", "destroyed"}

Elements(s) == {s[i] : i \in 1 .. Len(s)}

Earliest(S) == CHOOSE t \in S : \A u \in S : t <= u
Later(t, u) == IF t < u THEN u ELSE t

Init ==
  /\ state = "Ready" /\ failure = FALSE
  /\ control = "None" /\ controlDeadline = 0 /\ controlPending = FALSE
  /\ tasks = << >> /\ batch = << >> /\ outstanding = 0
  /\ wake = FALSE
  /\ pc = "ready" /\ ret = "ready" /\ events = << >>
  /\ timeoutMs = 0 /\ waitUntil = 0 /\ lag = 0
  /\ timers = {} /\ newTimers = {} /\ due = {}
  /\ now = 0
  /\ accepted = << >> /\ executed = << >> /\ given = "None"

-----------------------------------------------------------------------------
(* Calls from any thread.                                                   *)

Alive == pc # "destroyed"

(* Mutated: the owner is not woken.                                         *)
WakeForgotten(next) == state' = next /\ UNCHANGED <<failure, wake>>

(* The write to the eventfd succeeds, or finds the counter full, or fails   *)
(* and makes the loop fail; next is the state_ the caller has set.          *)
wakeLocked(next) ==
  \/ wake' = TRUE /\ state' = next /\ UNCHANGED failure
  \/ state' = "Failed" /\ failure' = TRUE /\ UNCHANGED wake

(* tasks_.push_back                                                         *)
PushBack(t)  == Append(tasks, t)

enqueueLoopTask(t) ==
  /\ Alive
  /\ t \notin Elements(accepted)
  /\ state \in {"Ready", "Running"}
  /\ outstanding # TaskCapacity
  /\ tasks' = PushBack(t)
  /\ outstanding' = outstanding + 1
  /\ accepted' = Append(accepted, t)
  /\ wakeLocked(state)
  /\ UNCHANGED <<control, controlDeadline, controlPending, owner, executed, given, now>>

(* A drain never weakens a force close.                                     *)
MayDrain    == state \notin {"Stopped", "Failed"} /\ control # "Force"

requestLoopDrain(deadline) ==
  /\ Alive
  /\ MayDrain
  /\ controlDeadline' = IF control = "None" \/ deadline < controlDeadline THEN deadline
                        ELSE controlDeadline
  /\ control' = "Drain"
  /\ controlPending' = TRUE
  /\ wakeLocked(state)
  /\ UNCHANGED <<tasks, outstanding, owner, ghost, now>>

requestLoopForceClose ==
  /\ Alive
  /\ state \notin {"Stopped", "Failed"}
  /\ control' = "Force"
  /\ controlPending' = TRUE
  /\ wakeLocked(state)
  /\ UNCHANGED <<controlDeadline, tasks, outstanding, owner, ghost, now>>

notifyControl ==
  /\ Alive
  /\ state \notin {"Stopped", "Failed"}
  /\ controlPending' = TRUE
  /\ wakeLocked(state)
  /\ UNCHANGED <<control, controlDeadline, tasks, outstanding, owner, ghost, now>>

requestLoopStop ==
  /\ Alive
  /\ state \in {"Ready", "Running"}
  /\ wakeLocked("Stopping")
  /\ UNCHANGED <<control, controlDeadline, controlPending, tasks, outstanding, owner, ghost, now>>

-----------------------------------------------------------------------------
(* The owner thread.                                                        *)

timersAllowed == state \in {"Ready", "Running"}

Goto(place) == pc' = place

(* A drain whose deadline has passed becomes a force close.                 *)
NeverExpires == FALSE
Expired      == control = "Drain" /\ now >= controlDeadline

(* There is something to tell the callback.                                 *)
ToDeliver        == Expired \/ controlPending

(* dispatchControl, called at one place and returning to another.           *)
dispatchControl(from, to) ==
  /\ pc = from
  /\ control' = IF Expired THEN "Force" ELSE control
  /\ \/ /\ ~ToDeliver
        /\ Goto(to) /\ UNCHANGED <<controlPending, ret, given>>
     \/ /\ ToDeliver
        /\ controlPending' = FALSE
        /\ given' = control'
        /\ Goto("control") /\ ret' = to

(* What dispatchControl leaves alone.                                       *)
ControlFrame ==
  UNCHANGED <<state, failure, controlDeadline, tasks, outstanding, wake, batch, events,
              wait, timers, newTimers, due, accepted, executed, now>>

(* controlCallback_ returns or throws.  (A local the owner will not read    *)
(* again, like ret here, goes back to its initial value.)                   *)
ControlReturns ==
  /\ pc = "control"
  /\ Goto(ret) \/ Goto("failing")
  /\ ret' = "ready"
  /\ UNCHANGED <<shared, batch, events, wait, timers, newTimers, due, ghost, now>>

(* A failure recorded before the loop runs is thrown at once.               *)
runEventLoop ==
  /\ pc = "ready"
  /\ state' = IF state = "Ready" THEN "Running" ELSE state
  /\ Goto(IF failure THEN "ended" ELSE "top")
  /\ UNCHANGED <<failure, control, controlDeadline, controlPending, tasks, outstanding, wake,
                 batch, ret, events, wait, timers, newTimers, due, ghost, now>>

(* The start of pollOnce: the cutoff of this round's timers, then control.  *)
StartRound ==
  /\ dispatchControl("top", "prepare")
  /\ timers' = timers \cup newTimers
  /\ newTimers' = {}
  /\ UNCHANGED <<state, failure, controlDeadline, tasks, outstanding, wake, batch, events,
                 wait, due, accepted, executed, now>>

(* The first locked section, and the wait's bound from work and timers.     *)
Prepare ==
  /\ pc = "prepare"
  /\ \/ /\ failure
        /\ Goto("failing") /\ UNCHANGED timeoutMs
     \/ /\ ~failure
        /\ Goto("arm")
        /\ timeoutMs' = IF tasks # << >> \/ state = "Stopping" \/ controlPending THEN 0
                        ELSE Earliest({MaxWait} \cup {Later(t - now, 0) : t \in timers \cup newTimers})
  /\ UNCHANGED <<shared, batch, ret, events, waitUntil, lag, timers, newTimers, due, ghost, now>>

(* The second one: a drain's deadline bounds the wait as well.  (The clock  *)
(* of the model stops at MaxTime, so no wait goes beyond it.)               *)
Arm ==
  /\ pc = "arm"
  /\ Goto("waiting")
  /\ waitUntil' = Earliest({now + timeoutMs, MaxTime}
                           \cup (IF control = "Drain" THEN {Later(controlDeadline, now)} ELSE {}))
  /\ timeoutMs' = 0
  /\ UNCHANGED <<shared, batch, ret, events, lag, timers, newTimers, due, ghost, now>>

(* epoll_wait returns what is ready, or nothing when the time is over, or   *)
(* throws.                                                                  *)
WaitReturns ==
  /\ pc = "waiting"
  /\ \/ \E io \in {<< >>, <<"io">>} :
          /\ wake \/ io # << >> \/ now >= waitUntil
          /\ \E seen \in (IF wake THEN {<<"wake">> \o io, io \o <<"wake">>} ELSE {io}) :
               events' = seen
          /\ Goto("woken")
     \/ Goto("failing") /\ UNCHANGED events
  /\ waitUntil' = 0 /\ lag' = 0
  /\ UNCHANGED <<shared, batch, ret, timeoutMs, timers, newTimers, due, ghost, now>>

AfterWait == dispatchControl("woken", "events") /\ ControlFrame

NextEvent ==
  /\ events # << >>
  /\ dispatchControl("events", "channel")
  /\ ControlFrame

(* The wake-up channel's handler empties the eventfd; another channel's     *)
(* callback (and the cleanup after it) returns.  Either may throw.          *)
dispatchChannelEvent ==
  /\ pc = "channel"
  /\ \/ Goto("failing") /\ UNCHANGED <<wake, events>>
     \/ /\ Goto("events")
        /\ events' = Tail(events)
        /\ wake' = (wake /\ Head(events) # "wake")
  /\ UNCHANGED <<state, failure, control, controlDeadline, controlPending, tasks, outstanding,
                 batch, ret, wait, timers, newTimers, due, ghost, now>>

(* What batch.swap(tasks_) takes.                                           *)
Taken == tasks

SwapBatch ==
  /\ pc = "events" /\ events = << >>
  /\ \/ failure /\ Goto("failing") /\ UNCHANGED <<batch, tasks>>
     \/ ~failure /\ Goto("batch") /\ batch' = Taken /\ tasks' = << >>
  /\ UNCHANGED <<state, failure, control, controlDeadline, controlPending, outstanding, wake,
                 ret, events, wait, timers, newTimers, due, ghost, now>>

NextTask ==
  /\ batch # << >>
  /\ dispatchControl("batch", "check")
  /\ ControlFrame

StartTask ==
  /\ pc = "check"
  /\ \/ failure /\ Goto("failing") /\ UNCHANGED executed
     \/ ~failure /\ Goto("task") /\ executed' = Append(executed, Head(batch))
  /\ UNCHANGED <<shared, batch, ret, events, wait, timers, newTimers, due, accepted, given,
                 now>>

(* The task returns and releaseTask gives its place back, or it throws and  *)
(* the place is given back with the rest of the batch.                      *)
FinishTask ==
  /\ pc = "task"
  /\ \/ /\ Goto("batch")
        /\ batch' = Tail(batch)
        /\ outstanding' = outstanding - 1
     \/ Goto("failing") /\ UNCHANGED <<batch, outstanding>>
  /\ UNCHANGED <<state, failure, control, controlDeadline, controlPending, tasks, wake, ret,
                 events, wait, timers, newTimers, due, ghost, now>>

AfterBatch ==
  /\ batch = << >>
  /\ dispatchControl("batch", "timers")
  /\ ControlFrame

runDueTimers ==
  /\ pc = "timers"
  /\ due' = IF timersAllowed THEN {t \in timers : t <= now} ELSE {}
  /\ Goto("due")
  /\ UNCHANGED <<shared, batch, ret, events, wait, timers, newTimers, ghost, now>>

(* A due timer leaves the queue; its wrapper first looks at control.        *)
NextTimer ==
  /\ due # {}
  /\ timers' = timers \ {Earliest(due)}
  /\ due' = due \ {Earliest(due)}
  /\ dispatchControl("due", "fire")
  /\ UNCHANGED <<state, failure, controlDeadline, tasks, outstanding, wake, batch, events,
                 wait, newTimers, accepted, executed, now>>

(* The timer's task is skipped once the loop is stopping.                   *)
dispatchTimerTask ==
  /\ pc = "fire"
  /\ Goto("due") \/ (timersAllowed /\ Goto("failing"))
  /\ UNCHANGED <<shared, batch, ret, events, wait, timers, newTimers, due, ghost, now>>

clearTimers ==
  /\ pc = "due" /\ due = {}
  /\ Goto("settle")
  /\ timers' = IF timersAllowed THEN timers ELSE {}
  /\ newTimers' = IF timersAllowed THEN newTimers ELSE {}
  /\ UNCHANGED <<shared, batch, ret, events, wait, due, ghost, now>>

(* A stop is complete when no accepted task is left.                        *)
StopComplete      == state = "Stopping" /\ tasks = << >>

(* The last locked section of pollOnce.                                     *)
Settle ==
  /\ pc = "settle"
  /\ Goto("loop")
  /\ state' = IF StopComplete THEN "Stopped" ELSE state
  /\ UNCHANGED <<failure, control, controlDeadline, controlPending, tasks, outstanding, wake,
                 batch, ret, events, wait, timers, newTimers, due, ghost, now>>

(* runEventLoop between two rounds.                                         *)
NextRound ==
  /\ pc = "loop"
  /\ Goto(CASE state = "Stopped" -> "ended" [] failure -> "failing" [] OTHER -> "top")
  /\ UNCHANGED <<shared, batch, ret, events, wait, timers, newTimers, due, ghost, now>>

(* The places that failEventLoop and the release of the batch give back.    *)
PlacesOfQueue    == Len(tasks)
PlacesReleased   == Len(tasks) + Len(batch)

failEventLoop ==
  /\ pc = "failing"
  /\ failure' = TRUE /\ state' = "Failed"
  /\ tasks' = << >> /\ batch' = << >>
  /\ outstanding' = outstanding - PlacesReleased
  /\ timers' = {} /\ newTimers' = {} /\ due' = {}
  /\ events' = << >>
  /\ Goto("ended")
  /\ UNCHANGED <<control, controlDeadline, controlPending, wake, ret, wait, ghost, now>>

(* ~EventLoop.                                                              *)
Destroy ==
  /\ pc \in {"ready", "ended"}
  /\ state' = "Stopped"
  /\ timers' = {} /\ newTimers' = {}
  /\ tasks' = << >> /\ outstanding' = outstanding - Len(tasks)
  /\ Goto("destroyed")
  /\ UNCHANGED <<failure, control, controlDeadline, controlPending, wake, batch, ret, events,
                 wait, due, ghost, now>>

(* A callback on the owner thread adds a timer.                             *)
addTimer(deadline) ==
  /\ pc \in {"control", "channel", "task", "fire"}
  /\ timersAllowed
  /\ Cardinality(timers \cup newTimers) < MaxTimers
  /\ newTimers' = newTimers \cup {deadline}
  /\ UNCHANGED <<shared, batch, pc, ret, events, wait, timers, due, ghost, now>>

Tick ==
  /\ now < MaxTime
  /\ now' = now + 1
  /\ lag' = IF pc = "arm" THEN lag + 1 ELSE lag
  /\ UNCHANGED <<shared, batch, pc, ret, events, timeoutMs, waitUntil, timers, newTimers, due,
                 ghost>>

Poll ==
  \/ StartRound \/ Prepare \/ Arm \/ WaitReturns \/ AfterWait
  \/ NextEvent \/ dispatchChannelEvent \/ SwapBatch
  \/ NextTask \/ StartTask \/ FinishTask \/ AfterBatch
  \/ runDueTimers \/ NextTimer \/ dispatchTimerTask \/ clearTimers
  \/ Settle \/ NextRound \/ ControlReturns \/ failEventLoop

Requests ==
  \/ \E t \in Tasks : enqueueLoopTask(t)
  \/ \E deadline \in Times : requestLoopDrain(deadline)
  \/ requestLoopForceClose
  \/ notifyControl
  \/ requestLoopStop

(* The loop object is gone: nothing happens any more.                       *)
Gone == pc = "destroyed" /\ UNCHANGED vars

Next ==
  \/ Requests
  \/ runEventLoop
  \/ Poll
  \/ \E deadline \in Times : addTimer(deadline)
  \/ Destroy
  \/ Tick
  \/ Gone

Spec == Init /\ [][Next]_vars

(* The owner thread is scheduled and callbacks return; time passes.         *)
Fairness == WF_vars(Poll) /\ WF_vars(runEventLoop) /\ WF_vars(Tick)

FairSpec == Spec /\ Fairness

-----------------------------------------------------------------------------
(* What must hold.                                                          *)

TypeOK ==
  /\ state \in States /\ failure \in BOOLEAN
  /\ control \in Controls /\ controlDeadline \in Times /\ controlPending \in BOOLEAN
  /\ tasks \in Seq(Tasks) /\ batch \in Seq(Tasks)
  /\ outstanding \in 0 .. TaskCapacity
  /\ wake \in BOOLEAN
  /\ pc \in Places /\ ret \in Places
  /\ events \in Seq({"wake", "io"}) /\ timeoutMs \in 0 .. MaxWait
  /\ waitUntil \in Times /\ lag \in Times
  /\ timers \subseteq Times /\ newTimers \subseteq Times /\ due \subseteq Times
  /\ now \in Times
  /\ accepted \in Seq(Tasks) /\ executed \in Seq(Tasks)
  /\ given \in Controls

(* While the owner sleeps in epoll_wait beyond the present moment, no work  *)
(* is waiting that it has not been woken for: a task, a stop or a control   *)
(* request is either visible on the eventfd or has made the loop fail, and  *)
(* it never sleeps past a drain deadline, nor past a timer by more than the *)
(* time that went by between the two readings of the clock.                 *)
NoOversleep ==
  pc = "waiting" /\ waitUntil > now /\ ~failure =>
    /\ tasks # << >> \/ state = "Stopping" \/ controlPending => wake
    /\ control = "Drain" => wake \/ waitUntil <= controlDeadline
    /\ \A t \in timers \cup newTimers : waitUntil <= t + lag

(* Tasks run in the order in which they were accepted, each at most once,   *)
(* and a loop that stops without failing has run every task it accepted.    *)
(* outstanding_ counts exactly the accepted tasks that were not released    *)
(* yet, whatever the loop is doing: a count that drifts would close the     *)
(* loop for new tasks or open it beyond its capacity.                       *)
FifoOnce ==
  /\ TypeOK
  /\ executed = SubSeq(accepted, 1, Len(executed))
  /\ pc = "ended" /\ state = "Stopped" => executed = accepted
  /\ outstanding = Len(tasks) + Len(batch)

Over == pc \in {"ended", "destroyed"}

(* Requests are honoured: an accepted task is run, or released by a loop    *)
(* that is over, a stop ends the loop, a control request reaches the        *)
(* callback, and a drain that nothing completes turns into a force close    *)
(* once its deadline has passed.                                            *)
RequestsHonoured ==
  /\ \A t \in Tasks : t \in Elements(accepted) ~> t \in Elements(executed) \/ Over
  /\ state = "Stopping" ~> Over
  /\ controlPending ~> ~controlPending \/ Over
  /\ control = "Drain" ~> given = "Force" \/ Over
=============================================================================
