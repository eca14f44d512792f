------------------------ MODULE ManagementServerProofs ------------------------
EXTENDS ManagementServer, TLAPS

(***************************************************************************)
(* Why the process of module ManagementServer comes down in order, however  *)
(* many signals it is sent, and why it keeps the promises of ServerLifetime.*)
(* The invariant says of every place the two threads can be at what is      *)
(* alive there, what must have failed, and what the exit code will mean.    *)
(***************************************************************************)

(* No more signals wait than were sent.                                     *)
Types == TypeOK /\ signals.pending <= signals.sent

(* The management thread lives inside the scope that holds the business     *)
(* server, the management TcpServer inside the thread, and the published    *)
(* pointer inside the life of that TcpServer.                               *)
Scopes ==
  /\ pc["management"] \notin {"none", "done"} => pc["main"] \in Spanned
  /\ pc["main"] \in {"load", "construct", "start"} => pc["management"] = "none"
  /\ server.alive <=> pc["management"] \in Holding
  /\ control.published => pc["management"] \in Holding \ {"publish", "destroy"}
  /\ pc["main"] \in Built => business.alive
  /\ accepting => pc["main"] \in Built \cup {"leave"}
  /\ thrown["management"] => pc["management"] \in {"clearControl", "destroy", "done"} \cup FailurePlaces

(* Exit code 1 has a cause.  Until startup has been answered nobody has     *)
(* asked the management server to stop, so that its answer is a success or  *)
(* a recorded failure.                                                      *)
Causes ==
  /\ \A t \in Threads : thrown[t] \/ pc[t] \in FailurePlaces => wrong
  /\ control.failure \/ exitCode = 1 => wrong
  /\ pc["main"] \in {"load", "construct", "start", "wait"} =>
       /\ ~control.stopRequested /\ ~server.stopping
       /\ pc["management"] # "returned"
       /\ control.complete => control.succeeded \/ control.failure

(* A failure is stored in the lifecycle before it is recorded, and from     *)
(* then on the start can no longer be declared complete.                    *)
Lifecycles ==
  control.failure \/ (\E t \in Threads : pc[t] = "failureNoted") => lifecycle \in {"Stopping", "Failed"}

(* What the exit code and the metrics stand for: who leaves without an      *)
(* exception was sent a signal or has a failure to report.                  *)
Promises ==
  /\ pc["main"] \in Built => config = "good"
  /\ pc["main"] = "load" => signals.pending = signals.sent
  /\ pc["main"] \in {"load", "construct"} \cup Built => exitCode = 0
  /\ pc["main"] \in {"leave", "printMetrics", "restoreMask"} => exitCode \in {0, 1}
  /\ pc["main"] \in {"joinThrow", "setFailed"} \cup FailurePlaces => thrown["main"]
  /\ \A t \in Threads : pc[t] \in {"onManagementFailed", "stopBusiness"} => control.failure
  /\ business.stopping => signals.sent > 0 \/ control.failure
  /\ pc["main"] = "drain" => signals.sent > 0
  /\ pc["main"] \in {"checkFailed", "setStopping", "requestStop", "join"} =>
       thrown["main"] \/ signals.sent > 0 \/ control.failure
  /\ pc["main"] = "leave" => thrown["main"] \/ signals.sent > 0 \/ exitCode = 1
  /\ pc["main"] = "printMetrics" => metricsOnExit
  /\ pc["main"] \in {"printMetrics", "restoreMask"} => signals.sent > 0 \/ exitCode = 1
  /\ pc["main"] = "restoreMask" /\ exitCode = 0 /\ metricsOnExit => "metrics" \in said

Rest == Scopes /\ Causes /\ Lifecycles /\ Promises

Inv == Types /\ Rest

(* The process starts with nothing alive and nothing wrong.                 *)
LEMMA InitInv == Init => Inv
<1>. SUFFICES ASSUME Init PROVE Inv
  OBVIOUS
<1>. USE SignalAssumption DEF Init, Threads, MainPlaces, ManagementPlaces, Built, Spanned, Holding,
    FailurePlaces, Announcing, Serving, Ending
<1>1. Types
  <2>1. pc \in [Threads -> MainPlaces \cup ManagementPlaces] /\ pc["main"] = "load" /\ pc["management"] = "none"
    OBVIOUS
  <2>2. control \in [published : BOOLEAN, complete : BOOLEAN, succeeded : BOOLEAN,
                    stopRequested : BOOLEAN, failure : BOOLEAN]
    OBVIOUS
  <2>3. /\ thrown \in [Threads -> BOOLEAN]
        /\ business \in [alive : BOOLEAN, stopping : BOOLEAN] /\ server \in [alive : BOOLEAN, stopping : BOOLEAN]
    OBVIOUS
  <2>4. signals \in [sent : 0 .. MaxSignals, pending : 0 .. MaxSignals] /\ signals.pending <= signals.sent
    OBVIOUS
  <2>. QED
    BY Zenon, <2>1, <2>2, <2>3, <2>4 DEF Types, TypeOK
<1>2. Scopes
  BY DEF Scopes
<1>3. Causes /\ Lifecycles
  BY DEF Causes, Lifecycles
<1>4. Promises
  BY DEF Promises
<1>. QED
  BY <1>1, <1>2, <1>3, <1>4 DEF Inv, Rest

(* Every step keeps the types, one variable at a time.                      *)
LEMMA TypesNext == Types /\ [Next]_vars => Types'
<1>. SUFFICES ASSUME Types, [Next]_vars PROVE Types'
  BY SMTT(30)
<1>. USE DEF Types
<1>. USE DEF Next, MainStep, ManagementStep, recordFailure, Exited, Construct, Publish,
        RunManagement, onStarted, ManagementReturns, ManagementLoopFails, ManagementEnded,
        clearControl, DestroyServer, Load, ConstructBusiness, start, StartupEnds, StartupTimeout,
        JoinThrow, Attach, Announce, AnnounceAdmin, RunBusiness, onBusinessStarted, SendSignal,
        handleShutdownSignal, BeginDrain, BusinessReturns, BusinessFails, SetFailed, CheckFailed,
        SetStopping, requestStop, join, Leave, PrintMetrics, RestoreMask, FailureLifecycle,
        FailureNoted, onManagementFailed, StopBusiness, ControlCleared, StopPublished, FailureSeen,
        Joinable, Say, Goto, Throw, GoOr, vars, shutdown, options, Threads
<1>1. config' \in {"good", "bad", "denied"} /\ admin' \in BOOLEAN /\ metricsOnExit' \in BOOLEAN
  BY SMTT(30) DEF TypeOK
<1>2. draining' \in BOOLEAN /\ accepting' \in BOOLEAN /\ wrong' \in BOOLEAN
  BY Zenon DEF TypeOK
<1>3. said' \subseteq {"listening", "admin", "metrics"}
  BY DEF TypeOK
<1>4. pc' \in [Threads -> MainPlaces \cup ManagementPlaces]
  BY DEF TypeOK, MainPlaces, ManagementPlaces, FailurePlaces, Announcing, Serving, Ending, Spanned,
      Built, Holding
<1>5. thrown' \in [Threads -> BOOLEAN]
  <2>1. \/ thrown' = thrown
        \/ \E t \in Threads : thrown' = [thrown EXCEPT ![t] = TRUE]
        \/ thrown' = [thrown EXCEPT !["main"] = ~control.succeeded]
    BY SMTT(30)
  <2>2. thrown \in [Threads -> BOOLEAN] /\ control.succeeded \in BOOLEAN
    BY SMTT(30) DEF TypeOK
  <2>. HIDE DEF Next, vars
  <2>. QED
    BY <2>1, <2>2, Zenon
<1>6. pc'["main"] \in MainPlaces
  BY SMTT(30) DEF TypeOK, MainPlaces, ManagementPlaces, FailurePlaces, Announcing, Serving, Ending, Spanned,
      Built, Holding
<1>7. pc'["management"] \in ManagementPlaces
  BY SMTT(30) DEF TypeOK, MainPlaces, ManagementPlaces, FailurePlaces, Announcing, Serving, Ending, Spanned,
      Built, Holding
<1>8. lifecycle' \in {"Starting", "Ready", "Stopping", "Failed"}
  BY SMTT(30) DEF TypeOK
<1>9. business' \in [alive : BOOLEAN, stopping : BOOLEAN]
  BY Zenon DEF TypeOK
<1>10. server' \in [alive : BOOLEAN, stopping : BOOLEAN]
  BY Zenon, <1>5 DEF TypeOK
<1>11. control' \in [published : BOOLEAN, complete : BOOLEAN, succeeded : BOOLEAN,
                  stopRequested : BOOLEAN, failure : BOOLEAN]
  <2>1. CASE UNCHANGED control
    BY <2>1 DEF TypeOK
  <2>2. CASE Publish \/ ManagementEnded \/ clearControl
    BY ZenonT(60), <2>2 DEF TypeOK
  <2>3. CASE onStarted
    BY ZenonT(60), <2>3 DEF TypeOK
  <2>4. CASE StartupTimeout \/ requestStop
    BY ZenonT(60), <2>4 DEF TypeOK
  <2>5. ASSUME NEW t \in Threads, FailureNoted(t)
        PROVE  control' \in [published : BOOLEAN, complete : BOOLEAN, succeeded : BOOLEAN,
                             stopRequested : BOOLEAN, failure : BOOLEAN]
    BY Zenon, <2>5 DEF TypeOK
  <2>. QED
    BY ZenonT(60), <2>1, <2>2, <2>3, <2>4, <2>5
<1>12. signals' \in [sent : 0 .. MaxSignals, pending : 0 .. MaxSignals] /\ signals'.pending <= signals'.sent
  BY SignalAssumption DEF TypeOK
<1>13. exitCode' \in {0, 1, 2, 15}
  BY SMTT(30) DEF TypeOK
<1>. QED
  BY <1>1, <1>2, <1>3, <1>4, <1>5, <1>6, <1>7, <1>8, <1>9, <1>10, <1>11, <1>12, <1>13 DEF TypeOK

(* Every step of either thread keeps the rest, one action at a time.        *)
LEMMA RestNext == Inv /\ [Next]_vars => Rest'
<1>. SUFFICES ASSUME Inv, Types', [Next]_vars PROVE Rest'
  BY TypesNext DEF Inv
<1>. USE SignalAssumption DEF Inv, Types, TypeOK, Rest, Scopes, Causes, Lifecycles, Promises, Threads,
    Goto, Throw, GoOr,
         shutdown, options, MainPlaces, ManagementPlaces, Built, Spanned, Holding, FailurePlaces,
             Announcing, Serving, Ending
<1>1. CASE Construct
  <2>1. CASE Goto("management", "publish") /\ UNCHANGED <<thrown, wrong>>
    <3>1. ~thrown'["management"]
      BY <1>1, <2>1 DEF Construct
    <3>. QED
      BY <1>1, <2>1, <3>1 DEF Construct
  <2>2. CASE Throw("management", "recordFailure")
    BY <1>1, <2>2 DEF Construct
  <2>. QED
    BY <1>1, <2>1, <2>2 DEF Construct, GoOr
<1>2. CASE Publish
  BY <1>2 DEF Publish
<1>3. CASE RunManagement
  BY SMTT(30), <1>3 DEF RunManagement
<1>4. CASE onStarted
  <2>1. CASE control.stopRequested
    BY <1>4, <2>1 DEF onStarted
  <2>2. CASE ~control.stopRequested
    <3>1. pc["management"] = "onStarted" /\ pc'["main"] = pc["main"] /\ pc'["management"] = "loop"
      BY <1>4 DEF onStarted
    <3>2. /\ UNCHANGED <<server, lifecycle, business, thrown, shutdown, wrong>>
          /\ control' = [control EXCEPT !.succeeded = TRUE, !.complete = TRUE]
      BY <1>4, <2>2 DEF onStarted
    <3>3. /\ control'.failure = control.failure /\ control'.published = control.published
          /\ control'.stopRequested = control.stopRequested /\ control'.succeeded
      BY <3>2
    <3>4. Scopes'
      BY <3>1, <3>2, <3>3
    <3>5. Causes'
      BY <3>1, <3>2, <3>3
    <3>6. Lifecycles'
      BY <3>1, <3>2, <3>3
    <3>7. Promises'
      BY <3>1, <3>2, <3>3
    <3>. QED
      BY <3>4, <3>5, <3>6, <3>7
  <2>. QED
    BY <2>1, <2>2
<1>5. CASE ManagementReturns
  BY <1>5 DEF ManagementReturns
<1>6. CASE ManagementLoopFails
  BY <1>6 DEF ManagementLoopFails
<1>7. CASE ManagementEnded
  BY <1>7 DEF ManagementEnded
<1>8. CASE clearControl
  BY <1>8 DEF clearControl, ControlCleared
<1>9. CASE DestroyServer
  BY <1>9 DEF DestroyServer
<1>10. CASE Load
  BY <1>10 DEF Load
<1>11. CASE ConstructBusiness
  BY SMTT(30), <1>11 DEF ConstructBusiness
<1>12. CASE start
  <2>1. CASE Goto("main", "attach") /\ UNCHANGED <<thrown, wrong>>
    BY SMTT(30), <1>12, <2>1 DEF start
  <2>2. CASE pc' = [main |-> "wait", management |-> "construct"] /\ UNCHANGED <<thrown, wrong>>
    <3>1. pc'["main"] = "wait" /\ pc'["management"] = "construct" /\ pc["main"] = "start"
      BY SMTT(30), <1>12, <2>2 DEF start
    <3>2. UNCHANGED <<lifecycle, business, server, control, thrown, shutdown, wrong>>
      BY <1>12, <2>2 DEF start
    <3>3. Scopes'
      BY <3>1, <3>2
    <3>4. Causes'
      BY <3>1, <3>2
    <3>5. Lifecycles' /\ Promises'
      BY SMTT(30), <3>1, <3>2
    <3>. QED
      BY <3>3, <3>4, <3>5
  <2>3. CASE Throw("main", "recordFailure")
    BY <1>12, <2>3 DEF start
  <2>. QED
    BY SMTT(30), <1>12, <2>1, <2>2, <2>3 DEF start
<1>13. CASE StartupEnds
  BY <1>13 DEF StartupEnds
<1>14. CASE StartupTimeout
  BY SMTT(30), <1>14 DEF StartupTimeout, StopPublished
<1>15. CASE JoinThrow
  BY <1>15 DEF JoinThrow, Joinable
<1>16. CASE Attach
  BY <1>16 DEF Attach
<1>17. CASE Announce
  BY <1>17 DEF Announce, Say
<1>18. CASE AnnounceAdmin
  BY <1>18 DEF AnnounceAdmin, Say
<1>19. CASE RunBusiness
  BY SMTT(30), <1>19 DEF RunBusiness
<1>20. CASE onBusinessStarted
  BY SMTT(30), <1>20 DEF onBusinessStarted
<1>21. CASE SendSignal
  BY <1>21 DEF SendSignal
<1>22. CASE handleShutdownSignal
  BY <1>22 DEF handleShutdownSignal
<1>23. CASE BeginDrain
  BY SMTT(30), <1>23 DEF BeginDrain
<1>24. CASE BusinessReturns
  BY SMTT(30), <1>24 DEF BusinessReturns
<1>25. CASE BusinessFails
  BY SMTT(30), <1>25 DEF BusinessFails
<1>26. CASE SetFailed
  BY SMTT(30), <1>26 DEF SetFailed
<1>27. CASE CheckFailed
  BY SMTT(30), <1>27 DEF CheckFailed
<1>28. CASE SetStopping
  BY <1>28 DEF SetStopping
<1>29. CASE requestStop
  BY SMTT(30), <1>29 DEF requestStop, StopPublished
<1>30. CASE join
  BY <1>30 DEF join, FailureSeen, Joinable
<1>31. CASE Leave
  BY SMTT(30), <1>31 DEF Leave
<1>32. CASE PrintMetrics
  BY SMTT(30), <1>32 DEF PrintMetrics
<1>33. CASE RestoreMask
  BY SMTT(30), <1>33 DEF RestoreMask
<1>34. ASSUME NEW t \in Threads, FailureLifecycle(t) PROVE Rest'
  BY <1>34 DEF FailureLifecycle
<1>35. ASSUME NEW t \in Threads, FailureNoted(t) PROVE Rest'
  BY SMTT(30), <1>35 DEF FailureNoted
<1>36. ASSUME NEW t \in Threads, onManagementFailed(t) PROVE Rest'
  BY <1>36 DEF onManagementFailed
<1>37. ASSUME NEW t \in Threads, StopBusiness(t) PROVE Rest'
  BY SMTT(30), <1>37 DEF StopBusiness
<1>38. CASE UNCHANGED vars
  BY <1>38 DEF vars
<1>. QED BY Zenon, <1>1, <1>2, <1>3, <1>4, <1>5, <1>6, <1>7, <1>8, <1>9, <1>10, <1>11, <1>12, <1>13, <1>14,
    <1>15, <1>16, <1>17, <1>18, <1>19, <1>20, <1>21, <1>22, <1>23, <1>24, <1>25, <1>26, <1>27,
    <1>28, <1>29, <1>30, <1>31, <1>32, <1>33, <1>34, <1>35, <1>36, <1>37, <1>38 DEF Next, MainStep,
    ManagementStep, recordFailure, Exited

(* The invariant holds in every state the process reaches.                  *)
THEOREM InvHolds == Spec => []Inv
<1>1. Inv /\ [Next]_vars => Inv'
  BY TypesNext, RestNext DEF Inv
<1>. QED
  BY <1>1, InitInv, PTL DEF Spec

(* server_ never dangles while the mutex is free, the failure callback      *)
(* never reaches a destroyed business server, the process exits with its    *)
(* thread joined, an exit with 1 has a cause, and readiness never follows   *)
(* a recorded failure: for any number of signals.                           *)
THEOREM LifetimesNestAlways == Spec => []LifetimesNest
<1>1. Inv => LifetimesNest
  BY DEF Inv, Types, Rest, Scopes, Causes, Lifecycles, LifetimesNest, TypeOK, Joinable, Threads,
         MainPlaces, ManagementPlaces, Built, Spanned, Holding, FailurePlaces, Announcing, Serving,
             Ending
<1>. QED
  BY <1>1, InvHolds, PTL

-------------------------------------------------------------------------------
(* The process as its parent sees it.                                       *)

(* What the parent can see of the place the main thread is at, now ...      *)
LEMMA LifeOf ==
  ASSUME pc["main"] \in MainPlaces
  PROVE  /\ pc["main"] = "load" => Life = "loading"
         /\ pc["main"] \in {"construct", "start", "wait", "attach", "announce"} => Life = "starting"
         /\ pc["main"] = "announceAdmin" => Life = "announced"
         /\ pc["main"] \in Serving => Life = "serving"
         /\ pc["main"] \in {"leave", "printMetrics", "restoreMask", "joinThrow"} \cup FailurePlaces \cup Ending
              => Life = "leaving"
         /\ pc["main"] = "end" <=> Life = "ended"
BY DEF Life, MainPlaces, Built, Spanned, FailurePlaces, Announcing, Serving, Ending

(* ... and after a step.                                                    *)
LEMMA LifeNext ==
  ASSUME pc'["main"] \in MainPlaces
  PROVE  /\ pc'["main"] = "load" => Life' = "loading"
         /\ pc'["main"] \in {"construct", "start", "wait", "attach", "announce"} => Life' = "starting"
         /\ pc'["main"] = "announceAdmin" => Life' = "announced"
         /\ pc'["main"] \in Serving => Life' = "serving"
         /\ pc'["main"] \in {"leave", "printMetrics", "restoreMask", "joinThrow"} \cup FailurePlaces \cup Ending
              => Life' = "leaving"
         /\ pc'["main"] = "end" <=> Life' = "ended"
BY DEF Life, MainPlaces, Built, Spanned, FailurePlaces, Announcing, Serving, Ending

(* The record module ServerLifetime keeps, and the value it has here.       *)
Child(c, a, m, t, k, l, e, s) ==
  [config |-> c, admin |-> a, metrics |-> m, term |-> t, killed |-> k, life |-> l, code |-> e, said |-> s]

(* Changing one field of the record of ServerLifetime changes that field.   *)
LEMMA WithLife ==
  ASSUME NEW c, NEW a, NEW m, NEW t, NEW k, NEW l, NEW e, NEW s, NEW x
  PROVE  [Child(c, a, m, t, k, l, e, s) EXCEPT !.life = x] = Child(c, a, m, t, k, x, e, s)
BY DEF Child

(* The same for what was printed, ...                                       *)
LEMMA WithSaid ==
  ASSUME NEW c, NEW a, NEW m, NEW t, NEW k, NEW l, NEW e, NEW s, NEW x
  PROVE  [Child(c, a, m, t, k, l, e, s) EXCEPT !.said = x] = Child(c, a, m, t, k, l, e, x)
BY DEF Child

(* ... for the signal, ...                                                  *)
LEMMA WithTerm ==
  ASSUME NEW c, NEW a, NEW m, NEW t, NEW k, NEW l, NEW e, NEW s, NEW x
  PROVE  [Child(c, a, m, t, k, l, e, s) EXCEPT !.term = x] = Child(c, a, m, x, k, l, e, s)
BY DEF Child

(* ... and for the exit code.                                               *)
LEMMA WithCode ==
  ASSUME NEW c, NEW a, NEW m, NEW t, NEW k, NEW l, NEW e, NEW s, NEW x
  PROVE  [Child(c, a, m, t, k, l, e, s) EXCEPT !.code = x] = Child(c, a, m, t, k, l, x, s)
BY DEF Child

Seen == Child(config, admin, metricsOnExit, signals.sent > 0, FALSE, Life,
              IF Life = "ended" THEN exitCode ELSE 0, said)

(* Steps that change none of it are invisible to the parent.                *)
LEMMA Stutters ==
  ASSUME UNCHANGED <<options, said, signals>>, Life' = Life, Life = "ended" => UNCHANGED exitCode
  PROVE  Seen' = Seen
BY Zenon DEF Seen, Child, options

(* A step to another phase of the life, to nothing else, ...                *)
LEMMA SeenLife ==
  ASSUME NEW x, NEW y, Life' = x, Life # "ended", x # "ended", UNCHANGED <<options, said, signals>>
  PROVE  Seen' = [Seen EXCEPT !.life = x]
<1>. DEFINE sent == signals.sent > 0
<1>. DEFINE never == FALSE
<1>1. Seen = Child(config, admin, metricsOnExit, sent, never, Life, 0, said)
  BY DEF Seen
<1>2. Seen' = Child(config, admin, metricsOnExit, sent, never, x, 0, said)
  BY DEF Seen, options
<1>. HIDE DEF sent, never
<1>3. [Child(config, admin, metricsOnExit, sent, never, Life, 0, said) EXCEPT !.life = x]
        = Child(config, admin, metricsOnExit, sent, never, x, 0, said)
  BY WithLife
<1>. QED
  BY <1>1, <1>2, <1>3, Zenon

(* ... a step to the end, which shows the exit code, ...                    *)
LEMMA SeenEnd ==
  ASSUME NEW x, NEW y, Life' = x, Life # "ended", x = "ended", exitCode' = y, UNCHANGED <<options, said, signals>>
  PROVE  Seen' = [Seen EXCEPT !.life = x, !.code = y]
<1>. DEFINE sent == signals.sent > 0
<1>. DEFINE never == FALSE
<1>1. Seen = Child(config, admin, metricsOnExit, sent, never, Life, 0, said)
  BY DEF Seen
<1>2. Seen' = Child(config, admin, metricsOnExit, sent, never, x, y, said)
  BY DEF Seen, options
<1>. HIDE DEF sent, never
<1>3. [Child(config, admin, metricsOnExit, sent, never, Life, 0, said) EXCEPT !.life = x, !.code = y]
        = Child(config, admin, metricsOnExit, sent, never, x, y, said)
  <2>. DEFINE before == Child(config, admin, metricsOnExit, sent, never, Life, 0, said)
  <2>1. [before EXCEPT !.life = x] = Child(config, admin, metricsOnExit, sent, never, x, 0, said)
    BY WithLife
  <2>2. [Child(config, admin, metricsOnExit, sent, never, x, 0, said) EXCEPT !.code = y]
          = Child(config, admin, metricsOnExit, sent, never, x, y, said)
    BY WithCode
  <2>3. [before EXCEPT !.life = x, !.code = y] = [[before EXCEPT !.life = x] EXCEPT !.code = y]
    BY Zenon
  <2>. QED
    BY <2>1, <2>2, <2>3, Zenon
<1>. QED
  BY <1>1, <1>2, <1>3, Zenon

(* ... a step that prints on its way to another phase, ...                  *)
LEMMA SeenLifeSaid ==
  ASSUME NEW x, NEW y, Life' = x, Life # "ended", x # "ended", said' = y,
         UNCHANGED <<options, signals>>
  PROVE  Seen' = [Seen EXCEPT !.life = x, !.said = y]
<1>. DEFINE sent == signals.sent > 0
<1>. DEFINE never == FALSE
<1>1. Seen = Child(config, admin, metricsOnExit, sent, never, Life, 0, said)
  BY DEF Seen
<1>2. Seen' = Child(config, admin, metricsOnExit, sent, never, x, 0, y)
  BY DEF Seen, options
<1>. HIDE DEF sent, never
<1>3. [Child(config, admin, metricsOnExit, sent, never, Life, 0, said) EXCEPT !.life = x, !.said = y]
        = Child(config, admin, metricsOnExit, sent, never, x, 0, y)
  <2>. DEFINE before == Child(config, admin, metricsOnExit, sent, never, Life, 0, said)
  <2>1. [before EXCEPT !.life = x] = Child(config, admin, metricsOnExit, sent, never, x, 0, said)
    BY WithLife
  <2>2. [Child(config, admin, metricsOnExit, sent, never, x, 0, said) EXCEPT !.said = y]
          = Child(config, admin, metricsOnExit, sent, never, x, 0, y)
    BY WithSaid
  <2>3. [before EXCEPT !.life = x, !.said = y] = [[before EXCEPT !.life = x] EXCEPT !.said = y]
    BY Zenon
  <2>. QED
    BY <2>1, <2>2, <2>3, Zenon
<1>. QED
  BY <1>1, <1>2, <1>3, Zenon

(* ... one that only prints, ...                                            *)
LEMMA SeenSaid ==
  ASSUME NEW x, NEW y, Life' = Life, Life # "ended", said' = x,
         UNCHANGED <<options, signals>>
  PROVE  Seen' = [Seen EXCEPT !.said = x]
<1>. DEFINE sent == signals.sent > 0
<1>. DEFINE never == FALSE
<1>1. Seen = Child(config, admin, metricsOnExit, sent, never, Life, 0, said)
  BY DEF Seen
<1>2. Seen' = Child(config, admin, metricsOnExit, sent, never, Life, 0, x)
  BY DEF Seen, options
<1>. HIDE DEF sent, never
<1>3. [Child(config, admin, metricsOnExit, sent, never, Life, 0, said) EXCEPT !.said = x]
        = Child(config, admin, metricsOnExit, sent, never, Life, 0, x)
  BY WithSaid
<1>. QED
  BY <1>1, <1>2, <1>3, Zenon

(* ... and a signal, as the parent sees them.                               *)
LEMMA SeenTerm ==
  ASSUME NEW x, NEW y, Life' = Life, Life # "ended", x = (signals'.sent > 0),
         UNCHANGED <<options, said>>
  PROVE  Seen' = [Seen EXCEPT !.term = x]
<1>. DEFINE sent == signals.sent > 0
<1>. DEFINE never == FALSE
<1>1. Seen = Child(config, admin, metricsOnExit, sent, never, Life, 0, said)
  BY DEF Seen
<1>2. Seen' = Child(config, admin, metricsOnExit, x, never, Life, 0, said)
  BY DEF Seen, options
<1>. HIDE DEF sent, never
<1>3. [Child(config, admin, metricsOnExit, sent, never, Life, 0, said) EXCEPT !.term = x]
        = Child(config, admin, metricsOnExit, x, never, Life, 0, said)
  BY WithTerm
<1>. QED
  BY <1>1, <1>2, <1>3, Zenon

(* The fields the guards of ServerLifetime read.                            *)
LEMMA SeenFields ==
  /\ Seen.config = config /\ Seen.admin = admin /\ Seen.metrics = metricsOnExit /\ (Seen.term <=> signals.sent > 0)
  /\ Seen.killed = FALSE /\ Seen.life = Life /\ Seen.said = said
BY Zenon DEF Seen, Child

(* So a new phase is Becomes ...                                            *)
LEMMA BecomesAs ==
  ASSUME NEW l, Life' = l, l # "ended", Life # "ended", UNCHANGED <<options, said, signals>>
  PROVE  Parent!Becomes(l)
<1>1. Seen' = [Seen EXCEPT !.life = l]
  BY SeenLife
<1>. QED
  BY <1>1, Zenon DEF Parent!Becomes, Seen, Child

(* ... and the end of the process is Ends.                                  *)
LEMMA EndsAs ==
  ASSUME NEW c, Life' = "ended", Life # "ended", exitCode' = c, UNCHANGED <<options, said, signals>>
  PROVE  Parent!Ends(c)
<1>1. Seen' = [Seen EXCEPT !.life = "ended", !.code = c]
  BY Zenon, SeenEnd
<1>. QED
  BY <1>1, Zenon DEF Parent!Ends, Seen, Child

(* Every step of the two threads is one step of ServerLifetime or none.     *)
LEMMA Simulated == Inv /\ Inv' /\ [Next]_vars => [Parent!Step \/ Parent!SendTerm \/ Parent!SendKill]_Seen
<1>. SUFFICES ASSUME Inv, Inv', [Next]_vars
              PROVE  Parent!Step \/ Parent!SendTerm \/ Parent!SendKill \/ Seen' = Seen
  BY Zenon DEF Seen
<1>0. /\ pc["main"] \in MainPlaces /\ pc'["main"] \in MainPlaces
      /\ pc \in [Threads -> MainPlaces \cup ManagementPlaces]
  BY DEF Inv, Types, TypeOK
<1>1. CASE Load
  <2>1. Life = "loading" /\ UNCHANGED <<options, said, signals>>
    BY <1>0, <1>1, LifeOf DEF Load
  <2>2. CASE signals.sent > 0
    <3>1. exitCode' = 15 /\ pc'["main"] = "end"
      BY <1>0, <1>1, <2>2 DEF Load, Goto, Threads, Inv, Types, TypeOK, Rest, Promises
    <3>. QED
      BY Zenon, <1>0, <2>1, <2>2, <3>1, LifeNext, EndsAs DEF Parent!Load, Parent!Step
  <2>3. CASE ~(signals.sent > 0) /\ config = "bad"
    <3>1. exitCode' = 2 /\ pc'["main"] = "end"
      BY <1>0, <1>1, <2>3 DEF Load, Goto, Threads, Inv, Types, TypeOK, Rest, Promises
    <3>. QED
      BY Zenon, <1>0, <2>1, <2>3, <3>1, LifeNext, EndsAs DEF Parent!Load, Parent!Step
  <2>4. CASE ~(signals.sent > 0) /\ config # "bad"
    <3>1. pc'["main"] = "construct"
      BY <1>0, <1>1, <2>4 DEF Load, Goto, Threads, Inv, Types, TypeOK, Rest, Promises
    <3>. QED
      BY Zenon, <1>0, <2>1, <2>4, <3>1, LifeNext, BecomesAs DEF Parent!Load, Parent!Step
  <2>. QED
    BY <2>2, <2>3, <2>4
<1>2. CASE ConstructBusiness \/ start \/ StartupEnds \/ StartupTimeout \/ Attach
  <2>1. Life = "starting" /\ UNCHANGED <<options, said, signals>>
    BY <1>0, <1>2, LifeOf DEF ConstructBusiness, start, StartupEnds, StartupTimeout, Attach, shutdown
  <2>2. pc'["main"] \in {"start", "wait", "attach", "announce", "leave", "recordFailure", "joinThrow", "requestStop"}
    BY <1>0, <1>2 DEF ConstructBusiness, start, StartupEnds, StartupTimeout, Attach, Goto, Throw, GoOr,
        Threads
  <2>3. Life' \in {"starting", "leaving"}
    BY <1>0, <2>2, LifeNext DEF FailurePlaces, Ending
  <2>. QED
    BY <2>1, <2>3, Stutters, BecomesAs DEF Parent!StartFails, Parent!Step
<1>3. CASE Announce
  <2>1. /\ Life = "starting" /\ config = "good" /\ UNCHANGED <<options, signals>> /\ said' = said \cup {"listening"}
        /\ Life' = IF admin THEN "announced" ELSE "serving"
    BY <1>0, <1>3, LifeOf, LifeNext DEF Announce, Say, Goto, Threads, Inv, Rest, Promises, Built,
        Spanned, Announcing, Serving
  <2>. QED
    <3>. DEFINE l == IF Seen.admin THEN "announced" ELSE "serving"
    <3>0. Life' = l /\ l # "ended"
      BY SMTT(30), <2>1, SeenFields
    <3>1. Seen' = [Seen EXCEPT !.life = l, !.said = Seen.said \cup {"listening"}]
      <4>. HIDE DEF l
      <4>. QED
        BY ZenonT(60), <2>1, <3>0, SeenLifeSaid, SeenFields
    <3>2. Parent!Announce
      BY <2>1, <3>1, SeenFields, Zenon DEF Parent!Announce, Seen, Child
    <3>. QED
      BY <3>2 DEF Parent!Step
<1>4. CASE AnnounceAdmin
  <2>1. /\ Life = "announced" /\ UNCHANGED <<options, signals>> /\ said' = said \cup {"admin"}
        /\ Life' = "serving"
    BY <1>0, <1>4, LifeOf, LifeNext DEF AnnounceAdmin, Say, Goto, Threads, Serving
  <2>. QED
    <3>1. Seen' = [Seen EXCEPT !.life = "serving", !.said = Seen.said \cup {"admin"}]
      BY Zenon, <2>1, SeenLifeSaid, SeenFields
    <3>2. Parent!AnnounceAdmin
      BY <2>1, <3>1, SeenFields, Zenon DEF Parent!AnnounceAdmin, Seen, Child
    <3>. QED
      BY <3>2 DEF Parent!Step
<1>5. CASE RunBusiness \/ onBusinessStarted \/ BusinessReturns \/ BusinessFails \/ BeginDrain
  <2>1. Life = "serving" /\ UNCHANGED <<options, said, signals>>
    BY <1>0, <1>5, LifeOf DEF RunBusiness, onBusinessStarted, BusinessReturns, BusinessFails,
        BeginDrain, Serving, shutdown
  <2>2. pc'["main"] \in {"loop", "onBusinessStarted", "setFailed", "checkFailed"}
    BY <1>0, <1>5 DEF RunBusiness, onBusinessStarted, BusinessReturns, BusinessFails, BeginDrain, Goto,
        Throw, GoOr, Threads
  <2>3. Life' \in {"serving", "leaving"}
    BY <1>0, <2>2, LifeNext DEF Serving, Ending
  <2>. QED
    BY <2>1, <2>3, Stutters, BecomesAs DEF Parent!ServiceEnds, Parent!Step
<1>6. CASE SendSignal
  <2>1. /\ Life # "ended" /\ Life # "none" /\ Life' = Life /\ UNCHANGED <<options, said>> /\ signals'.sent > 0
    BY <1>0, <1>6, LifeOf DEF SendSignal, Inv, Types, TypeOK, Life
  <2>2. CASE signals.sent > 0
    BY Zenon, <2>1, <2>2 DEF Seen, options
  <2>3. CASE ~(signals.sent > 0)
    <3>1. Seen' = [Seen EXCEPT !.term = TRUE]
      BY Zenon, <2>1, SeenTerm
    <3>2. Parent!SendTerm
      BY <2>1, <2>3, <3>1, SeenFields, Zenon DEF Parent!SendTerm, Parent!Running, Seen, Child
    <3>. QED
      BY <3>2
  <2>. QED
    BY <2>2, <2>3
<1>7. CASE handleShutdownSignal
  <2>1. Life = "serving" /\ Life' = "serving" /\ UNCHANGED <<options, said>> /\ signals'.sent = signals.sent
    BY <1>0, <1>7, LifeOf, LifeNext DEF handleShutdownSignal, Goto, Threads, Serving, Inv, Types, TypeOK
  <2>. QED
    BY <2>1 DEF Seen, options
<1>8. CASE PrintMetrics
  <2>1. Life = "leaving" /\ Life' = "leaving" /\ UNCHANGED <<options, signals>>
    BY <1>0, <1>8, LifeOf, LifeNext DEF PrintMetrics, Goto, Threads
  <2>2. CASE said' = said
    BY <2>1, <2>2 DEF Seen, options
  <2>3. CASE said' = said \cup {"metrics"}
    <3>1. Seen' = [Seen EXCEPT !.said = Seen.said \cup {"metrics"}]
      BY <2>1, <2>3, SeenSaid, SeenFields
    <3>2. metricsOnExit
      BY <1>8 DEF PrintMetrics, Inv, Rest, Promises
    <3>3. Parent!PrintMetrics
      BY <2>1, <3>1, <3>2, SeenFields, Zenon DEF Parent!PrintMetrics, Seen, Child
    <3>. QED
      BY <3>3 DEF Parent!Step
  <2>. QED
    BY <1>8, <2>2, <2>3 DEF PrintMetrics
<1>9. CASE RestoreMask
  <2>1. Life = "leaving" /\ Life' = "ended" /\ UNCHANGED <<options, said, signals>>
    BY <1>0, <1>9, LifeOf, LifeNext DEF RestoreMask, Goto, Threads
  <2>2. /\ exitCode' \in {1} \cup (IF signals.sent > 0 THEN {0, 15} ELSE {})
        /\ exitCode' = 0 /\ metricsOnExit => "metrics" \in said
    BY <1>9 DEF RestoreMask, Inv, Types, TypeOK, Rest, Promises
  <2>3. Parent!Ends(exitCode')
    BY <2>1, EndsAs
  <2>. QED
    BY Zenon, <2>1, <2>2, <2>3 DEF Parent!ProcessExits, Parent!Step
<1>10. CASE JoinThrow \/ SetFailed \/ CheckFailed \/ SetStopping \/ requestStop \/ join \/ Leave \/ recordFailure("main")
  <2>1. Life = "leaving" /\ UNCHANGED <<options, said, signals>>
    BY <1>0, <1>10, LifeOf DEF JoinThrow, SetFailed, CheckFailed, SetStopping, requestStop, join, Leave,
        recordFailure,
      FailureLifecycle, FailureNoted, onManagementFailed, StopBusiness, FailurePlaces, Ending, shutdown
  <2>2. pc'["main"] \in {"joinThrow", "leave", "printMetrics", "restoreMask"} \cup FailurePlaces \cup Ending
    BY <1>0, <1>10 DEF JoinThrow, SetFailed, CheckFailed, SetStopping, requestStop, join, Leave,
        recordFailure,
      FailureLifecycle, FailureNoted, onManagementFailed, StopBusiness, FailurePlaces, Ending, Goto,
          Threads
  <2>. QED
    BY <1>0, <2>1, <2>2, LifeNext, Stutters
<1>11. CASE ManagementStep \/ ManagementLoopFails
  <2>1. UNCHANGED <<options, said, signals, exitCode>>
    BY <1>11 DEF ManagementStep, ManagementLoopFails, Construct, Publish, RunManagement, onStarted,
        ManagementReturns,
      ManagementEnded, clearControl, DestroyServer, recordFailure, FailureLifecycle, FailureNoted,
          onManagementFailed,
      StopBusiness, shutdown
  <2>2. pc'["main"] = pc["main"]
    BY <1>0, <1>11 DEF ManagementStep, ManagementLoopFails, Construct, Publish, RunManagement,
        onStarted, ManagementReturns,
      ManagementEnded, clearControl, DestroyServer, recordFailure, FailureLifecycle, FailureNoted,
          onManagementFailed,
      StopBusiness, Goto, Throw, GoOr, Threads
  <2>3. Life' = Life
    BY <2>2 DEF Life
  <2>. QED
    BY <2>1, <2>3, Stutters
<1>12. CASE UNCHANGED vars
  BY <1>12, Stutters DEF vars, shutdown, Life
<1>. QED
  BY <1>1, <1>2, <1>3, <1>4, <1>5, <1>6, <1>7, <1>8, <1>9, <1>10, <1>11, <1>12 DEF Next, MainStep, Exited

(* The process implements ServerLifetime for any number of signals: ports   *)
(* are announced only by a start that succeeded, the metrics come before a  *)
(* successful exit, and exit code 0 is given only after a signal, whatever  *)
(* main and the management thread of runServer are in the middle of.        *)
THEOREM LifetimeRefined == Spec => LifetimeImplemented
<1>1. Init => Parent!Init
  <2>. SUFFICES ASSUME Init PROVE Parent!Init
    OBVIOUS
  <2>1. Life = "loading" /\ signals.sent = 0 /\ said = {}
    BY DEF Init, Life
  <2>. QED
    <3>1. config \in {"good", "bad", "denied"} /\ admin \in BOOLEAN /\ metricsOnExit \in BOOLEAN
      BY DEF Init
    <3>2. (signals.sent > 0) = FALSE
      BY <2>1
    <3>3. Seen = Child(config, admin, metricsOnExit, FALSE, FALSE, "loading", 0, {})
      BY Zenon, <2>1, <3>2 DEF Seen
    <3>. QED
      BY <3>1, <3>3, Zenon DEF Parent!Init, Parent!Launched, Seen, Child
<1>. QED
  BY <1>1, Simulated, InvHolds, PTL DEF Spec, LifetimeImplemented, Parent!Spec, Seen, Child
===============================================================================
