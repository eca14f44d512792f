--------------------------- MODULE EventLoopProofs ---------------------------
(***************************************************************************)
(* Why an EventLoop runs the tasks it accepted in order and once, and never *)
(* sleeps over work it was given, for any number of tasks, any capacity and *)
(* any length of the clock, whatever other threads post and request between *)
(* two steps of the owner.                                                  *)
(***************************************************************************)
EXTENDS EventLoop, SequenceTheorems, WellFoundedInduction, TLAPS

(* Where the owner is, or where it goes on after the control callback.      *)
Place == IF pc = "control" THEN ret ELSE pc

(* The owner's locals: what is left of the batch and of the events is kept  *)
(* only where the loops over them are.                                      *)
Locals ==
  /\ pc = "control" => ret \in {"prepare", "events", "channel", "check", "timers", "fire"}
  /\ batch # << >> => Place \in {"batch", "check", "task", "failing"}
  /\ Place \in {"check", "task"} => batch # << >>
  /\ Place = "channel" => events # << >>
  /\ pc \notin {"arm", "waiting"} => lag = 0
  /\ lag <= now

(* failure_ and state_ say the same; a loop that stopped had nothing left.  *)
Verdicts ==
  /\ failure => state \in {"Failed", "Stopped"}
  /\ failure /\ state = "Stopped" => pc = "destroyed"
  /\ pc = "ended" => state \in {"Stopped", "Failed"}
  /\ pc = "destroyed" => state = "Stopped"
  /\ state = "Stopped" => pc \in {"loop", "ended", "destroyed"} /\ tasks = << >> /\ batch = << >>

(* The tasks that were started and released.                                *)
Released == IF pc = "task" THEN Len(executed) - 1 ELSE Len(executed)

(* What was accepted was started, is in the batch, or waits behind it.      *)
InOrder ==
  /\ Len(executed) <= Len(accepted)
  /\ \A i \in 1 .. Len(executed) : executed[i] = accepted[i]
  /\ pc \notin {"failing", "destroyed"} /\ (pc = "ended" => state = "Stopped") =>
       /\ Len(accepted) = Released + Len(batch) + Len(tasks)
       /\ \A i \in 1 .. Len(batch) : accepted[Released + i] = batch[i]
       /\ \A i \in 1 .. Len(tasks) : accepted[Released + Len(batch) + i] = tasks[i]
  /\ pc = "task" => executed # << >>
  /\ outstanding = Len(tasks) + Len(batch)

(* A wait with a positive bound was prepared when nothing was waiting; what *)
(* came since has written the eventfd or made the loop fail.                *)
Work == tasks # << >> \/ state = "Stopping" \/ controlPending

Awake ==
  /\ pc = "arm" /\ timeoutMs > 0 =>
       /\ failure \/ (Work => wake)
       /\ \A t \in timers \cup newTimers : now + timeoutMs <= t + lag
  /\ pc = "waiting" /\ waitUntil > now =>
       /\ failure \/ (Work => wake)
       /\ failure \/ (control = "Drain" => wake \/ waitUntil <= controlDeadline)
       /\ \A t \in timers \cup newTimers : waitUntil <= t + lag

Inv == TypeOK /\ Locals /\ Verdicts /\ InOrder /\ Awake

(* A set of times that is not empty has an earliest member.                 *)
LEMMA EarliestOf ==
  ASSUME NEW S \in SUBSET Nat, S # {}
  PROVE  Earliest(S) \in S /\ \A u \in S : Earliest(S) <= u
<1>1. PICK x \in S : \A y \in S : ~(<<y, x>> \in OpToRel(<, Nat))
  BY Zenon, NatLessThanWellFounded, WFMin
<1>2. \A y \in S : x <= y
  <2>. SUFFICES ASSUME NEW y \in S PROVE x <= y
    OBVIOUS
  <2>1. ~(<<y, x>> \in {ss \in Nat \X Nat : ss[1] < ss[2]})
    BY <1>1 DEF OpToRel
  <2>2. x \in Nat /\ y \in Nat
    OBVIOUS
  <2>3. ~(y < x)
    BY <2>1, <2>2
  <2>. QED
    BY <2>2, <2>3
<1>. QED
  BY Zenon, <1>1, <1>2 DEF Earliest

(* A new loop has accepted nothing and waits for nothing.                   *)
LEMMA InitInv == Init => Inv
<1>. SUFFICES ASSUME Init PROVE Inv
  OBVIOUS
<1>. USE LoopAssumption DEF Init
<1>1. TypeOK
  <2>1. 0 \in Times /\ 0 \in 0 .. MaxWait /\ 0 \in 0 .. TaskCapacity
    BY DEF Times
  <2>2. tasks \in Seq(Tasks) /\ batch \in Seq(Tasks) /\ accepted \in Seq(Tasks) /\ executed \in Seq(Tasks)
    OBVIOUS
  <2>3. events \in Seq({"wake", "io"})
    OBVIOUS
  <2>. QED
    BY Zenon, <2>1, <2>2, <2>3 DEF TypeOK, States, Controls, Places
<1>2. Locals /\ Verdicts /\ Awake
  BY DEF Locals, Place, Verdicts, Awake
<1>3. InOrder
  BY DEF InOrder, Released
<1>. QED
  BY <1>1, <1>2, <1>3 DEF Inv

(* Every step keeps the types, one variable at a time: first how the        *)
(* variable can change, then that this keeps its type.                      *)
LEMMA TypesNext == TypeOK /\ Locals /\ outstanding = Len(tasks) + Len(batch) /\ [Next]_vars => TypeOK'
<1>. SUFFICES ASSUME TypeOK, Locals, outstanding = Len(tasks) + Len(batch), [Next]_vars PROVE TypeOK'
  BY SMTT(30)
<1>. USE DEF Next, Requests, Poll, enqueueLoopTask, requestLoopDrain, requestLoopForceClose,
   notifyControl, requestLoopStop, wakeLocked, dispatchControl, ControlFrame, ControlReturns,
   runEventLoop, StartRound, Prepare, Arm, WaitReturns, AfterWait, NextEvent,
   dispatchChannelEvent, SwapBatch, NextTask, StartTask, FinishTask, AfterBatch, runDueTimers,
   NextTimer, dispatchTimerTask, clearTimers, Settle, NextRound, failEventLoop, Destroy,
   addTimer, Tick, Gone, Goto, vars, shared, owner, ghost, wait, PushBack, Taken
<1>1. state' \in States
  BY ZenonT(60) DEF TypeOK, States
<1>2. failure' \in BOOLEAN
  BY ZenonT(60) DEF TypeOK
<1>3. control' \in Controls /\ given' \in Controls
  BY ZenonT(60) DEF TypeOK, Controls
<1>4. controlDeadline' \in Times
  BY Zenon DEF TypeOK
<1>20. now' \in Times
  <2>1. now' = now \/ (now < MaxTime /\ now' = now + 1)
    BY ZenonT(60)
  <2>. HIDE DEF Next, vars
  <2>. QED
    BY SMTT(30), <2>1, LoopAssumption DEF TypeOK, Times
<1>5. controlPending' \in BOOLEAN
  BY ZenonT(60) DEF TypeOK
<1>6. wake' \in BOOLEAN
  BY ZenonT(60) DEF TypeOK
<1>7. pc' \in Places
  BY ZenonT(60) DEF TypeOK, Places
<1>8. ret' \in Places
  BY Zenon DEF TypeOK, Places
<1>9. tasks' \in Seq(Tasks)
  <2>1. tasks' = tasks \/ tasks' = << >> \/ \E t \in Tasks : tasks' = Append(tasks, t)
    BY ZenonT(60)
  <2>2. tasks \in Seq(Tasks)
    BY Zenon DEF TypeOK
  <2>. HIDE DEF Next, vars
  <2>3. << >> \in Seq(Tasks) /\ \A t \in Tasks : Append(tasks, t) \in Seq(Tasks)
    BY <2>2
  <2>. QED
    BY Zenon, <2>1, <2>2, <2>3
<1>10. batch' \in Seq(Tasks)
  <2>1. batch' = batch \/ batch' = << >> \/ batch' = tasks \/ (batch # << >> /\ batch' = Tail(batch))
    BY ZenonT(60) DEF Locals, Place
  <2>2. batch \in Seq(Tasks) /\ tasks \in Seq(Tasks)
    BY Zenon DEF TypeOK
  <2>. HIDE DEF Next, vars
  <2>3. << >> \in Seq(Tasks) /\ (batch # << >> => Tail(batch) \in Seq(Tasks))
    BY <2>2
  <2>. QED
    BY Zenon, <2>1, <2>2, <2>3
<1>11. events' \in Seq({"wake", "io"})
  <2>1. \/ events' = events \/ events' = << >> \/ (events # << >> /\ events' = Tail(events))
        \/ \E io \in {<< >>, <<"io">>} : events' = io \/ events' = <<"wake">> \o io \/ events' = io \o <<"wake">>
    BY ZenonT(60) DEF Locals, Place
  <2>2. events \in Seq({"wake", "io"})
    BY Zenon DEF TypeOK
  <2>. HIDE DEF Next, vars
  <2>3. /\ << >> \in Seq({"wake", "io"}) /\ (events # << >> => Tail(events) \in Seq({"wake", "io"}))
        /\ \A io \in {<< >>, <<"io">>} : /\ io \in Seq({"wake", "io"})
                                        /\ <<"wake">> \o io \in Seq({"wake", "io"})
                                        /\ io \o <<"wake">> \in Seq({"wake", "io"})
    BY SMTT(30), <2>2
  <2>. QED
    BY Zenon, <2>1, <2>2, <2>3
<1>12. timers' \subseteq Times
  BY ZenonT(60) DEF TypeOK
<1>13. newTimers' \subseteq Times /\ due' \subseteq Times
  BY Zenon DEF TypeOK
<1>14. accepted' \in Seq(Tasks)
  <2>1. accepted' = accepted \/ \E t \in Tasks : accepted' = Append(accepted, t)
    BY ZenonT(60)
  <2>2. accepted \in Seq(Tasks)
    BY Zenon DEF TypeOK
  <2>. HIDE DEF Next, vars
  <2>3. \A t \in Tasks : Append(accepted, t) \in Seq(Tasks)
    BY <2>2
  <2>. QED
    BY SMTT(30), <2>1, <2>2, <2>3
<1>15. executed' \in Seq(Tasks)
  <2>1. executed' = executed \/ (batch # << >> /\ executed' = Append(executed, Head(batch)))
    BY ZenonT(60) DEF Locals, Place
  <2>2. executed \in Seq(Tasks) /\ batch \in Seq(Tasks)
    BY Zenon DEF TypeOK
  <2>. HIDE DEF Next, vars
  <2>3. batch # << >> => Append(executed, Head(batch)) \in Seq(Tasks)
    BY <2>2
  <2>. QED
    BY SMTT(30), <2>1, <2>2, <2>3
<1>16. timeoutMs' \in 0 .. MaxWait
  <2>1. \/ timeoutMs' \in {timeoutMs, 0}
        \/ timeoutMs' = Earliest({MaxWait} \cup {Later(t - now, 0) : t \in timers \cup newTimers})
    BY Zenon
  <2>. HIDE DEF Next, vars
  <2>2. {MaxWait} \cup {Later(t - now, 0) : t \in timers \cup newTimers} \in SUBSET Nat
    BY LoopAssumption DEF TypeOK, Times, Later
  <2>3. Earliest({MaxWait} \cup {Later(t - now, 0) : t \in timers \cup newTimers}) \in 0 .. MaxWait
    <3>. DEFINE waits == {MaxWait} \cup {Later(t - now, 0) : t \in timers \cup newTimers}
    <3>1. MaxWait \in waits /\ waits \in SUBSET Nat
      BY <2>2
    <3>. HIDE DEF waits
    <3>2. Earliest(waits) \in waits /\ Earliest(waits) <= MaxWait
      BY <3>1, EarliestOf
    <3>3. Earliest(waits) \in Nat /\ MaxWait \in Nat
      BY Zenon, <3>1, <3>2, LoopAssumption
    <3>4. Earliest(waits) \in 0 .. MaxWait
      BY <3>2, <3>3
    <3>. QED
      BY <3>4 DEF waits
  <2>. QED
    BY SMTT(30), <2>1, <2>3, LoopAssumption DEF TypeOK
<1>17. waitUntil' \in Times
  <2>. DEFINE ends == {now + timeoutMs, MaxTime}
                       \cup (IF control = "Drain" THEN {Later(controlDeadline, now)} ELSE {})
  <2>1. waitUntil' = waitUntil \/ waitUntil' = 0 \/ waitUntil' = Earliest(ends)
    BY Zenon
  <2>. HIDE DEF Next, vars
  <2>2. ends \in SUBSET Nat
    BY LoopAssumption DEF TypeOK, Times, Later
  <2>3. Earliest(ends) \in Times
    <3>1. MaxTime \in ends
      OBVIOUS
    <3>. HIDE DEF ends
    <3>2. Earliest(ends) \in ends /\ Earliest(ends) <= MaxTime
      BY <2>2, <3>1, EarliestOf
    <3>3. Earliest(ends) \in Nat /\ MaxTime \in Nat
      BY Zenon, <2>2, <3>2, LoopAssumption
    <3>. QED
      BY <3>2, <3>3 DEF Times
  <2>. QED
    BY <2>1, <2>3, LoopAssumption DEF TypeOK, Times
<1>18. lag' \in Times
  <2>1. \/ lag' = lag \/ lag' = 0
        \/ lag' = lag + 1 /\ now < MaxTime
    BY Zenon
  <2>. HIDE DEF Next, vars
  <2>. QED
    BY <2>1, LoopAssumption DEF TypeOK, Times, Locals
<1>19. outstanding' \in 0 .. TaskCapacity
  <2>1. \/ outstanding' = outstanding
        \/ outstanding # TaskCapacity /\ outstanding' = outstanding + 1
        \/ batch # << >> /\ outstanding' = outstanding - 1
        \/ outstanding' = outstanding - PlacesReleased
        \/ outstanding' = outstanding - Len(tasks)
    BY ZenonT(60) DEF Locals, Place
  <2>. HIDE DEF Next, vars
  <2>2. Len(tasks) \in Nat /\ Len(batch) \in Nat /\ (batch # << >> => Len(batch) > 0)
        /\ outstanding \in 0 .. TaskCapacity
    BY DEF TypeOK
  <2>. QED
    BY SMTT(30), <2>1, <2>2, LoopAssumption DEF PlacesReleased
<1>. QED
  BY Zenon, <1>1, <1>2, <1>3, <1>4, <1>5, <1>6, <1>7, <1>8, <1>9, <1>10, <1>11, <1>12, <1>13, <1>14,
     <1>15, <1>16, <1>17, <1>18, <1>19, <1>20 DEF TypeOK

(* Every step leaves the owner's locals and the loop's verdict as the place *)
(* it goes to expects them.                                                 *)
LEMMA PlacesNext == Inv /\ [Next]_vars => Locals' /\ Verdicts'
<1>. SUFFICES ASSUME Inv, [Next]_vars PROVE Locals' /\ Verdicts'
  OBVIOUS
<1>0. /\ now \in Nat /\ lag \in Nat /\ MaxTime \in Nat
  BY SMTT(30), LoopAssumption DEF Inv, TypeOK, Times
<1>. USE DEF Next, Requests, Poll, enqueueLoopTask, requestLoopDrain, requestLoopForceClose,
   notifyControl, requestLoopStop, wakeLocked, dispatchControl, ControlFrame, ControlReturns,
   runEventLoop, StartRound, Prepare, Arm, WaitReturns, AfterWait, NextEvent,
   dispatchChannelEvent, SwapBatch, NextTask, StartTask, FinishTask, AfterBatch, runDueTimers,
   NextTimer, dispatchTimerTask, clearTimers, Settle, NextRound, failEventLoop, Destroy,
   addTimer, Tick, Gone, Goto, vars, shared, owner, ghost, wait, PushBack, Taken
<1>1. pc' = "control" => ret' \in {"prepare", "events", "channel", "check", "timers", "fire"}
  BY ZenonT(60) DEF Inv, Locals
<1>2. batch' # << >> => Place' \in {"batch", "check", "task", "failing"}
  BY ZenonT(60) DEF Inv, Locals, Place
<1>3. Place' \in {"check", "task"} => batch' # << >>
  <2>1. \/ Place' = Place /\ UNCHANGED batch
        \/ Place = "check" /\ Place' = "task" /\ UNCHANGED batch
        \/ Place' = "check" /\ batch # << >> /\ UNCHANGED batch
        \/ Place' \notin {"check", "task"}
    BY ZenonT(60) DEF Inv, Locals, Place
  <2>. HIDE DEF Next, vars
  <2>. QED
    BY <2>1 DEF Inv, Locals
<1>4. Place' = "channel" => events' # << >>
  BY ZenonT(60) DEF Inv, Locals, Place
<1>5. pc' \notin {"arm", "waiting"} => lag' = 0
  BY ZenonT(60) DEF Inv, Locals
<1>6. lag' <= now'
  <2>1. \/ UNCHANGED <<lag, now>> \/ (lag' = 0 /\ now' = now)
        \/ now' = now + 1 /\ lag' \in {lag, lag + 1}
    BY ZenonT(60)
  <2>. HIDE DEF Next, vars
  <2>. QED
    BY <1>0, <2>1 DEF Inv, Locals
<1>7. failure' => state' \in {"Failed", "Stopped"}
  BY ZenonT(60) DEF Inv, Verdicts
<1>8. failure' /\ state' = "Stopped" => pc' = "destroyed"
  BY ZenonT(60) DEF Inv, Verdicts, StopComplete
<1>9. pc' = "ended" => state' \in {"Stopped", "Failed"}
  BY ZenonT(60) DEF Inv, Locals, Verdicts, TypeOK
<1>10. pc' = "destroyed" => state' = "Stopped"
  BY ZenonT(60) DEF Inv, Locals, Verdicts, Alive
<1>11. state' = "Stopped" => pc' \in {"loop", "ended", "destroyed"}
  BY ZenonT(60) DEF Inv, Locals, Verdicts, StopComplete
<1>12. state' = "Stopped" => tasks' = << >>
  BY ZenonT(60) DEF Inv, Locals, Verdicts, StopComplete
<1>13. state' = "Stopped" => batch' = << >>
  BY Zenon DEF Inv, Locals, Verdicts, StopComplete, Place
<1>. QED
  BY ZenonT(60), <1>1, <1>2, <1>3, <1>4, <1>5, <1>6, <1>7, <1>8, <1>9, <1>10, <1>11, <1>12, <1>13 DEF Locals,
     Verdicts

(* The bound of the wait is positive only if there was nothing to do, and it*)
(* reaches no further than the first timer.                                 *)
LEMMA PrepareAwake ==
  ASSUME Inv, Prepare, pc' = "arm"
  PROVE  Awake'
<1>. DEFINE waits == {MaxWait} \cup {Later(t - now, 0) : t \in timers \cup newTimers}
<1>1. /\ lag' = lag /\ lag = 0 /\ now' = now
      /\ UNCHANGED <<tasks, state, controlPending, timers, newTimers>>
      /\ timeoutMs' = IF Work THEN 0 ELSE Earliest(waits)
  BY DEF Prepare, Goto, shared, Work, Inv, Locals
<1>2. now \in Nat /\ \A t \in timers \cup newTimers : t \in Nat
  BY LoopAssumption DEF Inv, TypeOK, Times
<1>3. CASE Work
  BY <1>1, <1>3 DEF Awake
<1>4. CASE ~Work
  <2>1. waits \in SUBSET Nat /\ MaxWait \in waits
    BY <1>2, LoopAssumption DEF Later
  <2>2. ASSUME NEW t \in timers \cup newTimers, timeoutMs' > 0
        PROVE  now + timeoutMs' <= t
    <3>1. Later(t - now, 0) \in waits
      OBVIOUS
    <3>. HIDE DEF waits
    <3>2. timeoutMs' <= Later(t - now, 0) /\ timeoutMs' \in Nat
      BY Zenon, <1>1, <1>4, <2>1, <3>1, EarliestOf
    <3>. QED
      BY <1>2, <2>2, <3>2 DEF Later
  <2>3. ~Work'
    BY <1>1, <1>4 DEF Work
  <2>4. timeoutMs' \in Nat
    <3>. HIDE DEF waits
    <3>. QED
      BY <1>1, <1>4, <2>1, EarliestOf
  <2>5. \A t \in timers \cup newTimers : timeoutMs' > 0 => now' + timeoutMs' <= t + lag'
    BY <1>1, <1>2, <2>2, <2>4
  <2>. QED
    BY <1>1, <2>3, <2>5 DEF Awake
<1>. QED
  BY <1>3, <1>4

(* The wait that is armed reaches no further than the drain's deadline.     *)
LEMMA ArmAwake ==
  ASSUME Inv, Arm
  PROVE  Awake'
<1>. DEFINE ends == {now + timeoutMs, MaxTime}
                       \cup (IF control = "Drain" THEN {Later(controlDeadline, now)} ELSE {})
<1>1. /\ pc = "arm" /\ pc' = "waiting" /\ UNCHANGED <<shared, lag, timers, newTimers, now>>
      /\ waitUntil' = Earliest(ends)
  BY DEF Arm, Goto
<1>2. now \in Nat /\ timeoutMs \in Nat /\ lag \in Nat /\ controlDeadline \in Nat /\ MaxTime \in Nat
      /\ \A t \in timers \cup newTimers : t \in Nat
  BY LoopAssumption DEF Inv, TypeOK, Times
<1>3. /\ ends \in SUBSET Nat /\ now + timeoutMs \in ends
      /\ control = "Drain" => Later(controlDeadline, now) \in ends
  BY <1>2 DEF Later
<1>. HIDE DEF ends
<1>4. /\ waitUntil' \in Nat /\ waitUntil' <= now + timeoutMs
      /\ control = "Drain" => waitUntil' <= Later(controlDeadline, now)
  BY Zenon, <1>1, <1>3, EarliestOf
<1>. SUFFICES ASSUME waitUntil' > now PROVE Awake'
  BY <1>1 DEF Awake
<1>5. timeoutMs > 0
  BY <1>2, <1>4
<1>6. (failure \/ (Work => wake)) /\ \A t \in timers \cup newTimers : now + timeoutMs <= t + lag
  BY <1>1, <1>5 DEF Inv, Awake
<1>7. control = "Drain" => waitUntil' <= controlDeadline
  BY <1>2, <1>4 DEF Later
<1>8. \A t \in timers \cup newTimers : waitUntil' <= t + lag
  BY <1>2, <1>4, <1>6
<1>9. failure' \/ (Work' => wake')
  BY <1>1, <1>6 DEF Work, shared
<1>. QED
  BY <1>1, <1>7, <1>8, <1>9 DEF Awake, shared

(* wakeLocked: whoever leaves work has written the eventfd, or has made the *)
(* loop fail.                                                               *)
LEMMA RequestAwake ==
  ASSUME Inv, Requests
  PROVE  Awake'
<1>. USE DEF Requests, enqueueLoopTask, requestLoopDrain, requestLoopForceClose, notifyControl,
   requestLoopStop, wakeLocked, owner, wait
<1>1. UNCHANGED <<pc, timeoutMs, waitUntil, now, timers, newTimers, lag>>
  OBVIOUS
<1>2. failure' \/ wake'
  OBVIOUS
<1>. QED
  BY <1>1, <1>2 DEF Inv, Awake

(* Time passing only brings the end of the wait nearer; what passes between *)
(* Prepare and Arm is the lag.                                              *)
LEMMA TickAwake ==
  ASSUME Inv, Tick
  PROVE  Awake'
<1>1. /\ UNCHANGED <<pc, timeoutMs, waitUntil, timers, newTimers, shared>>
      /\ now' = now + 1 /\ lag' = IF pc = "arm" THEN lag + 1 ELSE lag
  BY DEF Tick
<1>2. /\ now \in Nat /\ lag \in Nat /\ timeoutMs \in Nat /\ waitUntil \in Nat
      /\ \A t \in timers \cup newTimers : t \in Nat
  BY LoopAssumption DEF Inv, TypeOK, Times
<1>. QED
  BY <1>1, <1>2 DEF Inv, Awake, Work, shared

(* So the loop that is going to sleep, or sleeps, does so for a reason.     *)
LEMMA AwakeNext == Inv /\ [Next]_vars => Awake'
<1>. SUFFICES ASSUME Inv, [Next]_vars PROVE Awake'
  OBVIOUS
<1>1. CASE pc' \notin {"arm", "waiting"}
  BY <1>1 DEF Awake
<1>2. CASE pc' = "arm"
  <2>1. Prepare \/ Requests \/ Tick \/ UNCHANGED vars
    BY Zenon, <1>2 DEF Inv, Locals, Next, Poll, dispatchControl, ControlReturns, runEventLoop,
       StartRound, Arm, WaitReturns, AfterWait, NextEvent, dispatchChannelEvent, SwapBatch,
       NextTask, StartTask, FinishTask, AfterBatch, runDueTimers, NextTimer, dispatchTimerTask,
       clearTimers, Settle, NextRound, failEventLoop, Destroy, addTimer, Gone, Goto
  <2>2. CASE UNCHANGED vars
    BY <2>2 DEF vars, shared, owner, wait, Inv, Awake, Work
  <2>. QED
    BY SMTT(30), <1>2, <2>1, <2>2, PrepareAwake, RequestAwake, TickAwake
<1>3. CASE pc' = "waiting"
  <2>1. Arm \/ Requests \/ Tick \/ UNCHANGED vars
    BY Zenon, <1>3 DEF Inv, Locals, Next, Poll, dispatchControl, ControlReturns, runEventLoop,
       StartRound, Prepare, WaitReturns, AfterWait, NextEvent, dispatchChannelEvent, SwapBatch,
       NextTask, StartTask, FinishTask, AfterBatch, runDueTimers, NextTimer, dispatchTimerTask,
       clearTimers, Settle, NextRound, failEventLoop, Destroy, addTimer, Gone, Goto
  <2>2. CASE UNCHANGED vars
    BY <2>2 DEF vars, shared, owner, wait, Inv, Awake, Work
  <2>. QED
    BY SMTT(30), <2>1, <2>2, ArmAwake, RequestAwake, TickAwake
<1>. QED
  BY <1>1, <1>2, <1>3

(* Every step keeps the accepted tasks in line: started, then in the batch, *)
(* then in the queue.                                                       *)
LEMMA OrderNext ==
  ASSUME Inv, [Next]_vars
  PROVE  InOrder'
<1>. DEFINE Complete == pc \notin {"failing", "destroyed"} /\ (pc = "ended" => state = "Stopped")
<1>0. /\ tasks \in Seq(Tasks) /\ batch \in Seq(Tasks) /\ accepted \in Seq(Tasks) /\ executed \in Seq(Tasks)
      /\ Len(tasks) \in Nat /\ Len(batch) \in Nat /\ Len(accepted) \in Nat /\ Len(executed) \in Nat
      /\ Released \in Nat /\ Released <= Len(executed)
  BY DEF Inv, TypeOK, InOrder, Released
<1>1. ASSUME NEW t \in Tasks, enqueueLoopTask(t) PROVE InOrder'
  <2>1. /\ accepted' = Append(accepted, t) /\ tasks' = Append(tasks, t) /\ outstanding' = outstanding + 1
        /\ UNCHANGED <<batch, executed, pc>> /\ state \in {"Ready", "Running"}
    BY <1>1 DEF enqueueLoopTask, PushBack, owner
  <2>2. /\ Len(accepted') = Len(accepted) + 1 /\ accepted'[Len(accepted) + 1] = t
        /\ \A i \in 1 .. Len(accepted) : accepted'[i] = accepted[i]
        /\ Len(tasks') = Len(tasks) + 1 /\ tasks'[Len(tasks) + 1] = t
        /\ \A i \in 1 .. Len(tasks) : tasks'[i] = tasks[i]
    BY <1>0, <2>1
  <2>3. Released' = Released /\ (Complete' => Complete)
    BY <2>1 DEF Released, Inv, Verdicts
  <2>4. \A i \in 1 .. Len(executed') : executed'[i] = accepted'[i]
    BY <1>0, <2>1, <2>2 DEF Inv, InOrder
  <2>5. ASSUME Complete'
        PROVE  /\ Len(accepted') = Released' + Len(batch') + Len(tasks')
               /\ \A i \in 1 .. Len(batch') : accepted'[Released' + i] = batch'[i]
               /\ \A i \in 1 .. Len(tasks') : accepted'[Released' + Len(batch') + i] = tasks'[i]
    <3>1. /\ Len(accepted) = Released + Len(batch) + Len(tasks)
          /\ \A i \in 1 .. Len(batch) : accepted[Released + i] = batch[i]
          /\ \A i \in 1 .. Len(tasks) : accepted[Released + Len(batch) + i] = tasks[i]
      BY <2>3, <2>5 DEF Inv, InOrder
    <3>2. ASSUME NEW i \in 1 .. Len(batch)
          PROVE  accepted'[Released + i] = batch[i]
      <4>1. Released + i \in 1 .. Len(accepted)
        BY <1>0, <3>1
      <4>. QED
        BY <2>2, <3>1, <4>1
    <3>3. ASSUME NEW i \in 1 .. Len(tasks')
          PROVE  accepted'[Released + Len(batch) + i] = tasks'[i]
      <4>1. CASE i = Len(tasks) + 1
        <5>1. Released + Len(batch) + i = Len(accepted) + 1
          BY <1>0, <3>1, <4>1
        <5>. QED
          BY <2>2, <4>1, <5>1
      <4>2. CASE i \in 1 .. Len(tasks)
        <5>1. Released + Len(batch) + i \in 1 .. Len(accepted)
          BY <1>0, <3>1, <4>2
        <5>. QED
          BY <2>2, <3>1, <4>2, <5>1
      <4>. QED
        BY <1>0, <2>2, <4>1, <4>2
    <3>4. Len(accepted') = Released + Len(batch) + Len(tasks')
      BY <1>0, <2>2, <3>1
    <3>5. batch' = batch /\ Released' = Released
      BY <2>1, <2>3
    <3>. QED
      BY <3>2, <3>3, <3>4, <3>5
  <2>. QED
    <3>1. Len(executed') <= Len(accepted') /\ outstanding' = Len(tasks') + Len(batch')
      BY <1>0, <2>1, <2>2 DEF Inv, InOrder
    <3>2. pc' = "task" => executed' # << >>
      BY <2>1 DEF Inv, InOrder
    <3>. QED
      BY <2>4, <2>5, <3>1, <3>2 DEF InOrder
<1>2. CASE SwapBatch
  <2>0. batch = << >>
    BY <1>2 DEF SwapBatch, Inv, Locals, Place
  <2>1. CASE Goto("failing")
    BY <1>2, <2>1 DEF SwapBatch, ghost, Goto, InOrder, Inv, Released
  <2>2. CASE pc = "events" /\ Goto("batch") /\ batch' = tasks /\ tasks' = << >>
    BY <1>0, <1>2, <2>0, <2>2 DEF SwapBatch, ghost, Goto, InOrder, Inv, Released
  <2>. QED
    BY <1>2, <2>1, <2>2 DEF SwapBatch, Taken
<1>3. CASE StartTask
  <2>1. CASE Goto("failing") /\ UNCHANGED executed
    BY <1>3, <2>1 DEF StartTask, shared, Goto, InOrder, Inv, Released
  <2>2. CASE pc = "check" /\ Goto("task") /\ executed' = Append(executed, Head(batch))
    <3>1. batch # << >> /\ Len(batch) > 0 /\ Head(batch) = batch[1] /\ Released = Len(executed)
      BY <1>0, <2>2 DEF Inv, Locals, Place, Released
    <3>2. /\ Len(executed') = Len(executed) + 1 /\ executed'[Len(executed) + 1] = batch[1]
          /\ \A i \in 1 .. Len(executed) : executed'[i] = executed[i]
          /\ executed' # << >>
      BY <1>0, <2>2, <3>1
    <3>3. accepted[Len(executed) + 1] = batch[1] /\ Len(executed) + 1 <= Len(accepted)
      BY <1>0, <2>2, <3>1 DEF Inv, InOrder
    <3>4. Released' = Released
      BY <1>0, <2>2, <3>1, <3>2 DEF Goto, Released
    <3>5. UNCHANGED <<tasks, batch, accepted, outstanding>> /\ pc' = "task"
      BY <1>3, <2>2 DEF StartTask, shared, Goto
    <3>6. ASSUME NEW i \in 1 .. Len(executed')
          PROVE  executed'[i] = accepted'[i]
      <4>1. CASE i = Len(executed) + 1
        BY <3>2, <3>3, <3>5, <4>1
      <4>2. CASE i \in 1 .. Len(executed)
        BY <3>2, <3>5, <4>2 DEF Inv, InOrder
      <4>. QED
        BY <1>0, <3>2, <4>1, <4>2
    <3>7. /\ Len(accepted') = Released' + Len(batch') + Len(tasks')
          /\ \A i \in 1 .. Len(batch') : accepted'[Released' + i] = batch'[i]
          /\ \A i \in 1 .. Len(tasks') : accepted'[Released' + Len(batch') + i] = tasks'[i]
      BY <2>2, <3>4, <3>5 DEF Inv, InOrder
    <3>. QED
      BY <1>0, <3>2, <3>3, <3>5, <3>6, <3>7 DEF Inv, InOrder
  <2>. QED
    BY <1>3, <2>1, <2>2 DEF StartTask
<1>4. CASE FinishTask
  <2>1. CASE Goto("failing") /\ UNCHANGED <<batch, outstanding>>
    BY <1>4, <2>1 DEF FinishTask, ghost, Goto, InOrder, Inv, Released
  <2>2. CASE pc = "task" /\ Goto("batch") /\ batch' = Tail(batch) /\ outstanding' = outstanding - 1
    <3>1. batch # << >> /\ Released = Len(executed) - 1 /\ Released' = Len(executed)
      BY <1>4, <2>2 DEF Inv, Locals, Place, Released, FinishTask, ghost, Goto
    <3>2. Len(batch) > 0 /\ Len(batch') = Len(batch) - 1 /\ \A i \in 1 .. Len(batch') : batch'[i] = batch[i + 1]
      BY <1>0, <2>2, <3>1
    <3>3. UNCHANGED <<tasks, accepted, executed>> /\ pc' = "batch"
      BY <1>4, <2>2 DEF FinishTask, ghost, Goto
    <3>4. /\ Len(accepted) = Released + Len(batch) + Len(tasks)
          /\ \A i \in 1 .. Len(batch) : accepted[Released + i] = batch[i]
          /\ \A i \in 1 .. Len(tasks) : accepted[Released + Len(batch) + i] = tasks[i]
      BY <2>2 DEF Inv, InOrder
    <3>5. /\ Len(accepted') = Released' + Len(batch') + Len(tasks')
          /\ \A i \in 1 .. Len(batch') : accepted'[Released' + i] = batch'[i]
          /\ \A i \in 1 .. Len(tasks') : accepted'[Released' + Len(batch') + i] = tasks'[i]
      <4>1. Len(accepted') = Released' + Len(batch') + Len(tasks')
        BY <1>0, <3>1, <3>2, <3>3, <3>4
      <4>2. ASSUME NEW i \in 1 .. Len(batch')
            PROVE  accepted'[Released' + i] = batch'[i]
        <5>1. i + 1 \in 1 .. Len(batch) /\ Released' + i = Released + (i + 1)
          BY <1>0, <3>1, <3>2
        <5>. QED
          BY <3>2, <3>3, <3>4, <5>1
      <4>3. ASSUME NEW i \in 1 .. Len(tasks')
            PROVE  accepted'[Released' + Len(batch') + i] = tasks'[i]
        <5>1. i \in 1 .. Len(tasks) /\ Released' + Len(batch') + i = Released + Len(batch) + i
          BY <1>0, <3>1, <3>2, <3>3
        <5>. QED
          BY <3>3, <3>4, <5>1
      <4>. QED
        BY <4>1, <4>2, <4>3
    <3>. QED
      BY <1>0, <2>2, <3>2, <3>3, <3>5 DEF Inv, InOrder
  <2>. QED
    BY <1>4, <2>1, <2>2 DEF FinishTask
<1>5. CASE failEventLoop
  BY <1>0, <1>5 DEF failEventLoop, PlacesReleased, ghost, Goto, InOrder, Inv, Released
<1>6. CASE Destroy
  <2>1. batch = << >>
    BY <1>6 DEF Destroy, Inv, Locals, Place
  <2>. QED
    BY <1>0, <1>6, <2>1 DEF Destroy, ghost, Goto, InOrder, Inv, Released
<1>7. CASE /\ UNCHANGED <<tasks, batch, accepted, executed, outstanding>>
           /\ pc' = "task" <=> pc = "task"
           /\ Complete' => Complete
  <2>1. Released' = Released
    BY SMTT(30), <1>7 DEF Released
  <2>. QED
    BY <1>7, <2>1 DEF Inv, InOrder
<1>8. \/ \E t \in Tasks : enqueueLoopTask(t)
      \/ SwapBatch \/ StartTask \/ FinishTask \/ failEventLoop \/ Destroy
      \/ /\ UNCHANGED <<tasks, batch, accepted, executed, outstanding>>
         /\ pc' = "task" <=> pc = "task"
         /\ Complete' => Complete
  <2>. USE DEF Next, Requests, Poll, requestLoopDrain, requestLoopForceClose, notifyControl,
     requestLoopStop, wakeLocked, dispatchControl, ControlFrame, ControlReturns, runEventLoop,
     StartRound, Prepare, Arm, WaitReturns, AfterWait, NextEvent, dispatchChannelEvent, NextTask,
     AfterBatch, runDueTimers, NextTimer, dispatchTimerTask, clearTimers, Settle, NextRound,
     addTimer, Tick, Gone, Goto, vars, shared, owner, ghost, wait
  <2>. QED
    BY Zenon DEF Inv, Locals, Verdicts
<1>. QED
  BY <1>1, <1>2, <1>3, <1>4, <1>5, <1>6, <1>7, <1>8

(* The invariant holds whatever the owner and the other threads do.         *)
THEOREM InvHolds == Spec => []Inv
<1>1. Inv /\ [Next]_vars => Inv'
  <2>1. Inv /\ [Next]_vars => TypeOK'
    BY TypesNext DEF Inv, InOrder
  <2>. QED
    BY <2>1, PlacesNext, AwakeNext, OrderNext DEF Inv
<1>. QED
  BY <1>1, InitInv, PTL DEF Spec

(* Tasks run in the order in which enqueueLoopTask accepted them, each at   *)
(* most once; a loop that stops without failing has run all of them; and    *)
(* outstanding_ counts exactly those not released yet.                      *)
THEOREM AlwaysFifoOnce == Spec => []FifoOnce
<1>1. Inv => FifoOnce
  <2>. SUFFICES ASSUME Inv PROVE FifoOnce
    OBVIOUS
  <2>0. /\ accepted \in Seq(Tasks) /\ executed \in Seq(Tasks)
        /\ Len(accepted) \in Nat /\ Len(executed) \in Nat /\ Len(executed) <= Len(accepted)
        /\ \A i \in 1 .. Len(executed) : executed[i] = accepted[i]
    BY DEF Inv, TypeOK, InOrder
  <2>1. executed = SubSeq(accepted, 1, Len(executed))
    <3>. DEFINE prefix == SubSeq(accepted, 1, Len(executed))
    <3>1. /\ prefix \in Seq(Tasks) /\ Len(prefix) = Len(executed)
          /\ \A i \in 1 .. Len(executed) : prefix[i] = accepted[i]
      BY <2>0
    <3>. HIDE DEF prefix
    <3>2. executed = prefix
      BY <2>0, <3>1, SeqEqual
    <3>. QED
      BY <3>2 DEF prefix
  <2>2. ASSUME pc = "ended", state = "Stopped"
        PROVE  executed = accepted
    <3>1. Len(executed) = Len(accepted)
      BY <2>0, <2>2 DEF Inv, Verdicts, InOrder, Released
    <3>. QED
      BY <2>0, <3>1, SeqEqual
  <2>. QED
    BY <2>1, <2>2 DEF Inv, InOrder, FifoOnce
<1>. QED
  BY <1>1, InvHolds, PTL

(* The owner never sleeps in epoll_wait over a task, a stop or a control    *)
(* request it was not woken for, nor past a drain deadline, nor past a      *)
(* timer by more than the time between its two readings of the clock.       *)
THEOREM NeverOversleeps == Spec => []NoOversleep
<1>1. Inv => NoOversleep
  BY DEF Inv, Awake, Work, NoOversleep
<1>. QED
  BY <1>1, InvHolds, PTL
==============================================================================
