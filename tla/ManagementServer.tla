-------------------------- MODULE ManagementServer --------------------------
(***************************************************************************)
(* hp::app::ManagementServer and runServer, the whole process: the main     *)
(* thread reads its options, starts the management thread, announces its    *)
(* ports, serves business connections, reacts to signals and takes both     *)
(* servers down, while the management thread constructs, runs and destroys  *)
(* a TcpServer of its own and may fail at any point.                        *)
(*                                                                          *)
(* A section under mutex_ and an access to an atomic are one step each.  A  *)
(* TcpServer is its stopping_ flag: what it does until it returns is the    *)
(* subject of module TcpServer, and only that it returns is used here.      *)
(***************************************************************************)
EXTENDS Naturals

CONSTANT MaxSignals  \* bound of the model: signals sent to the process

ASSUME SignalAssumption == MaxSignals \in Nat

VARIABLES
  config,      \* the options are "good", "bad", or name a root that is "denied"
  admin,       \* an admin port was given
  metricsOnExit,
  pc,          \* where the main and the management thread are
  lifecycle,
  business,    \* the business TcpServer: alive, stopping
  server,      \* the management TcpServer: alive, stopping
  control,     \* the fields of ManagementServer under mutex_
  thrown,      \* the thread is leaving a scope by an exception
  signals,     \* signals sent, and those not read yet
  draining,    \* of ShutdownSignalHandler
  accepting,   \* the executor takes jobs
  exitCode,
  said,        \* what was printed on stdout
  wrong        \* something has failed since the start

options  == <<config, admin, metricsOnExit>>
shutdown == <<options, signals, draining, accepting, exitCode, said>>
vars == <<pc, lifecycle, business, server, control, thrown, shutdown, wrong>>

Threads == {"main", "management"}

Init ==
  /\ config \in {"good", "bad", "denied"} /\ admin \in BOOLEAN /\ metricsOnExit \in BOOLEAN
  /\ pc = [main |-> "load", management |-> "none"]
  /\ lifecycle = "Starting"
  /\ business = [alive |-> FALSE, stopping |-> FALSE]
  /\ server = [alive |-> FALSE, stopping |-> FALSE]
  /\ control = [published |-> FALSE, complete |-> FALSE, succeeded |-> FALSE,
                stopRequested |-> FALSE, failure |-> FALSE]
  /\ thrown = [t \in Threads |-> FALSE]
  /\ signals = [sent |-> 0, pending |-> 0]
  /\ draining = FALSE /\ accepting = FALSE /\ exitCode = 0 /\ said = {} /\ wrong = FALSE

Goto(t, l) == pc' = [pc EXCEPT ![t] = l]

Throw(t, l) == Goto(t, l) /\ thrown' = [thrown EXCEPT ![t] = TRUE] /\ wrong' = TRUE

(* Where a thread goes on; a fault on the way is thrown.                    *)
GoOr(t, l, fault) == (Goto(t, l) /\ UNCHANGED <<thrown, wrong>>) \/ Throw(t, fault)

-----------------------------------------------------------------------------
(* recordFailure, on either thread, and the callback it ends with.          *)

FailureLifecycle(t) ==
  /\ pc[t] = "recordFailure" /\ Goto(t, "failureNoted")
  /\ lifecycle' = "Failed"
  /\ UNCHANGED <<business, server, control, thrown, shutdown, wrong>>

FailureNoted(t) ==
  /\ pc[t] = "failureNoted" /\ Goto(t, "onManagementFailed")
  /\ control' = [control EXCEPT !.failure = TRUE, !.complete = TRUE]
  /\ UNCHANGED <<lifecycle, business, server, thrown, shutdown, wrong>>

onManagementFailed(t) ==
  /\ pc[t] = "onManagementFailed" /\ Goto(t, "stopBusiness")
  /\ lifecycle' = "Failed"
  /\ UNCHANGED <<business, server, control, thrown, shutdown, wrong>>

StopBusiness(t) ==
  /\ pc[t] = "stopBusiness"
  /\ Goto(t, IF t = "management" THEN "done" ELSE "joinThrow")
  /\ business' = [business EXCEPT !.stopping = TRUE]
  /\ UNCHANGED <<lifecycle, server, control, thrown, shutdown, wrong>>

recordFailure(t) ==
  FailureLifecycle(t) \/ FailureNoted(t) \/ onManagementFailed(t) \/ StopBusiness(t)

-----------------------------------------------------------------------------
(* The management thread.                                                   *)

(* A stop reaches the server through the published pointer.                 *)
StopUnsent == server
StopPublished == IF control.published THEN [server EXCEPT !.stopping = TRUE] ELSE server

Construct ==
  /\ pc["management"] = "construct"
  /\ GoOr("management", "publish", "recordFailure")
  /\ server' = [server EXCEPT !.alive = ~thrown'["management"]]
  /\ UNCHANGED <<lifecycle, business, control, shutdown>>

Publish ==
  /\ pc["management"] = "publish" /\ Goto("management", "run")
  /\ control' = [control EXCEPT !.published = TRUE]
  /\ server' = [server EXCEPT !.stopping = @ \/ control.stopRequested]
  /\ UNCHANGED <<lifecycle, business, thrown, shutdown, wrong>>

(* runTcpServer looks at stopping_ before it listens.                       *)
RunManagement ==
  /\ pc["management"] = "run"
  /\ GoOr("management", IF server.stopping THEN "loop" ELSE "onStarted", "clearControl")
  /\ UNCHANGED <<lifecycle, business, server, control, shutdown>>

onStarted ==
  /\ pc["management"] = "onStarted" /\ Goto("management", "loop")
  /\ IF control.stopRequested
     THEN server' = [server EXCEPT !.stopping = TRUE] /\ UNCHANGED control
     ELSE control' = [control EXCEPT !.succeeded = TRUE, !.complete = TRUE] /\ UNCHANGED server
  /\ UNCHANGED <<lifecycle, business, thrown, shutdown, wrong>>

ManagementReturns ==
  /\ pc["management"] = "loop" /\ server.stopping /\ Goto("management", "returned")
  /\ UNCHANGED <<lifecycle, business, server, control, thrown, shutdown, wrong>>

ManagementLoopFails ==
  /\ pc["management"] = "loop" /\ Throw("management", "clearControl")
  /\ UNCHANGED <<lifecycle, business, server, control, shutdown>>

ManagementEnded ==
  /\ pc["management"] = "returned" /\ Goto("management", "clearControl")
  /\ control' = [control EXCEPT !.complete = TRUE]
  /\ UNCHANGED <<lifecycle, business, server, thrown, shutdown, wrong>>

(* The guard clears the pointer before the server is destroyed.             *)
ControlKept == control
ControlCleared == [control EXCEPT !.published = FALSE]

clearControl ==
  /\ pc["management"] = "clearControl" /\ Goto("management", "destroy")
  /\ control' = ControlCleared
  /\ UNCHANGED <<lifecycle, business, server, thrown, shutdown, wrong>>

DestroyServer ==
  /\ pc["management"] = "destroy"
  /\ Goto("management", IF thrown["management"] THEN "recordFailure" ELSE "done")
  /\ server' = [server EXCEPT !.alive = FALSE]
  /\ UNCHANGED <<lifecycle, business, control, thrown, shutdown, wrong>>

ManagementStep ==
  \/ Construct \/ Publish \/ RunManagement \/ onStarted \/ ManagementReturns \/ ManagementEnded
  \/ clearControl \/ DestroyServer \/ recordFailure("management")

-----------------------------------------------------------------------------
(* The main thread.                                                         *)

(* Options that are wrong end the process; SIGTERM does so too before       *)
(* ShutdownSignalMask blocks it.                                            *)
Load ==
  /\ pc["main"] = "load"
  /\ exitCode' = IF signals.pending > 0 THEN 15 ELSE IF config = "bad" THEN 2 ELSE 0
  /\ Goto("main", IF exitCode' = 0 THEN "construct" ELSE "end")
  /\ UNCHANGED <<lifecycle, business, server, control, thrown, options, signals, draining, accepting, said, wrong>>

(* The file service, the executor and the business server; a root that      *)
(* cannot be opened is an exception.                                        *)
ConstructBusiness ==
  /\ pc["main"] = "construct"
  /\ \/ /\ config = "good" /\ Goto("main", "start") /\ UNCHANGED <<thrown, wrong>>
        /\ business' = [business EXCEPT !.alive = TRUE] /\ accepting' = TRUE
     \/ Throw("main", "leave") /\ UNCHANGED <<business, accepting>>
  /\ UNCHANGED <<lifecycle, server, control, options, signals, draining, exitCode, said>>

start ==
  /\ pc["main"] = "start"
  /\ IF ~admin THEN Goto("main", "attach") /\ UNCHANGED <<thrown, wrong>>
     ELSE \/ /\ pc' = [main |-> "wait", management |-> "construct"]
             /\ UNCHANGED <<thrown, wrong>>
          \/ Throw("main", "recordFailure")
  /\ UNCHANGED <<lifecycle, business, server, control, shutdown>>

(* startupChanged_ is notified, or a second has passed.                     *)
StartupEnds ==
  /\ pc["main"] = "wait" /\ control.complete
  /\ Goto("main", IF control.succeeded THEN "attach" ELSE "joinThrow")
  /\ thrown' = [thrown EXCEPT !["main"] = ~control.succeeded]
  /\ UNCHANGED <<lifecycle, business, server, control, shutdown, wrong>>

StartupTimeout ==
  /\ pc["main"] = "wait" /\ ~control.complete
  /\ Throw("main", "recordFailure")
  /\ control' = [control EXCEPT !.stopRequested = TRUE] /\ server' = StopPublished
  /\ UNCHANGED <<lifecycle, business, shutdown>>

Joinable == pc["management"] \in {"none", "done"}

(* start() joins before it throws; what it throws destroys the              *)
(* ManagementServer, which stops and joins, and then the business server.   *)
JoinThrow ==
  /\ pc["main"] = "joinThrow" /\ Joinable /\ Goto("main", "requestStop")
  /\ UNCHANGED <<lifecycle, business, server, control, thrown, shutdown, wrong>>

Attach ==
  /\ pc["main"] = "attach" /\ GoOr("main", "announce", "requestStop")
  /\ UNCHANGED <<lifecycle, business, server, control, shutdown>>

(* The ports are printed before the loops run.                              *)
Say(line) ==
  /\ said' = said \cup {line}
  /\ UNCHANGED <<lifecycle, business, server, control, thrown, options, signals, draining, accepting, exitCode, wrong>>

Announce ==
  /\ pc["main"] = "announce" /\ Goto("main", IF admin THEN "announceAdmin" ELSE "run")
  /\ Say("listening")

AnnounceAdmin ==
  /\ pc["main"] = "announceAdmin" /\ Goto("main", "run")
  /\ Say("admin")

RunBusiness ==
  /\ pc["main"] = "run"
  /\ GoOr("main", IF business.stopping THEN "loop" ELSE "onBusinessStarted", "setFailed")
  /\ UNCHANGED <<lifecycle, business, server, control, shutdown>>

onBusinessStarted ==
  /\ pc["main"] = "onBusinessStarted" /\ Goto("main", "loop")
  /\ lifecycle' = IF lifecycle = "Starting" THEN "Ready" ELSE lifecycle
  /\ UNCHANGED <<business, server, control, thrown, shutdown, wrong>>

(* A signal sent at any time waits in the signalfd for the main loop.       *)
SendSignal ==
  /\ pc["main"] # "end" /\ signals.sent < MaxSignals
  /\ signals' = [sent |-> signals.sent + 1, pending |-> signals.pending + 1]
  /\ UNCHANGED <<pc, lifecycle, business, server, control, thrown, options, draining, accepting, exitCode, said, wrong>>

handleShutdownSignal ==
  /\ pc["main"] = "loop" /\ signals.pending > 0
  /\ signals' = [signals EXCEPT !.pending = @ - 1]
  /\ IF draining
     THEN business' = [business EXCEPT !.stopping = TRUE] /\ UNCHANGED <<pc, lifecycle>>
     ELSE lifecycle' = "Stopping" /\ Goto("main", "drain") /\ UNCHANGED business
  /\ UNCHANGED <<server, control, thrown, options, draining, accepting, exitCode, said, wrong>>

BeginDrain ==
  /\ pc["main"] = "drain" /\ Goto("main", "loop")
  /\ draining' = TRUE /\ accepting' = FALSE
  /\ business' = [business EXCEPT !.stopping = TRUE]
  /\ UNCHANGED <<lifecycle, server, control, thrown, options, signals, exitCode, said, wrong>>

BusinessReturns ==
  /\ pc["main"] = "loop" /\ business.stopping /\ Goto("main", "checkFailed")
  /\ UNCHANGED <<lifecycle, business, server, control, thrown, shutdown, wrong>>

BusinessFails ==
  /\ pc["main"] = "loop" /\ Throw("main", "setFailed")
  /\ UNCHANGED <<lifecycle, business, server, control, shutdown>>

SetFailed ==
  /\ pc["main"] = "setFailed" /\ Goto("main", "requestStop")
  /\ lifecycle' = "Failed"
  /\ UNCHANGED <<business, server, control, thrown, shutdown, wrong>>

(* The test and the store are two accesses to the atomic.                   *)
CheckFailed ==
  /\ pc["main"] = "checkFailed"
  /\ Goto("main", IF lifecycle = "Failed" THEN "requestStop" ELSE "setStopping")
  /\ UNCHANGED <<lifecycle, business, server, control, thrown, shutdown, wrong>>

SetStopping ==
  /\ pc["main"] = "setStopping" /\ Goto("main", "requestStop")
  /\ lifecycle' = "Stopping"
  /\ UNCHANGED <<business, server, control, thrown, shutdown, wrong>>

requestStop ==
  /\ pc["main"] = "requestStop" /\ Goto("main", "join")
  /\ control' = [control EXCEPT !.stopRequested = admin] /\ server' = StopPublished
  /\ UNCHANGED <<lifecycle, business, thrown, shutdown, wrong>>

(* The join, then failed(): a failure of the last moment is still seen.     *)
FailureUnseen == exitCode
FailureSeen == IF control.failure /\ ~thrown["main"] THEN 1 ELSE exitCode

join ==
  /\ pc["main"] = "join" /\ Joinable /\ Goto("main", "leave")
  /\ exitCode' = FailureSeen
  /\ UNCHANGED <<lifecycle, business, server, control, thrown, options, signals, draining, accepting, said, wrong>>

(* The executor stops, the scope is left, an exception is caught.           *)
Leave ==
  /\ pc["main"] = "leave" /\ Goto("main", IF metricsOnExit THEN "printMetrics" ELSE "restoreMask")
  /\ accepting' = FALSE /\ business' = [business EXCEPT !.alive = FALSE]
  /\ exitCode' = IF thrown["main"] THEN 1 ELSE exitCode
  /\ UNCHANGED <<lifecycle, server, control, thrown, options, signals, draining, said, wrong>>

(* A stream that does not take the metrics is a failure.                    *)
PrintMetrics ==
  /\ pc["main"] = "printMetrics" /\ Goto("main", "restoreMask")
  /\ \/ said' = said \cup {"metrics"} /\ UNCHANGED <<exitCode, wrong>>
     \/ exitCode' = 1 /\ wrong' = TRUE /\ UNCHANGED said
  /\ UNCHANGED <<lifecycle, business, server, control, thrown, options, signals, draining, accepting>>

(* Then the destructor of ShutdownSignalMask unblocks the signals: one that *)
(* nobody read has its default effect now.                                  *)
RestoreMask ==
  /\ pc["main"] = "restoreMask" /\ Goto("main", "end")
  /\ exitCode' = IF signals.pending > 0 THEN 15 ELSE exitCode
  /\ UNCHANGED <<lifecycle, business, server, control, thrown, options, signals, draining, accepting, said, wrong>>

MainStep ==
  \/ Load \/ ConstructBusiness \/ Announce \/ AnnounceAdmin \/ PrintMetrics \/ RestoreMask
  \/ start \/ StartupEnds \/ StartupTimeout \/ JoinThrow \/ Attach \/ RunBusiness
  \/ onBusinessStarted \/ handleShutdownSignal \/ BeginDrain \/ BusinessReturns
  \/ SetFailed \/ CheckFailed \/ SetStopping \/ requestStop \/ join \/ Leave
  \/ recordFailure("main")

Exited == pc["main"] = "end" /\ UNCHANGED vars

Next ==
  \/ MainStep \/ ManagementStep \/ BusinessFails \/ ManagementLoopFails
  \/ SendSignal \/ Exited

Spec == Init /\ [][Next]_vars

(* Both threads keep running: a stop request ends a server's loop, startup  *)
(* is awaited for a second at most.  Loops need not fail, signals need not  *)
(* be sent.                                                                 *)
FairSpec == Spec /\ WF_vars(MainStep) /\ WF_vars(ManagementStep)

-----------------------------------------------------------------------------
(* What must hold.                                                          *)

(* Where the threads can be: in recordFailure, on the main thread between   *)
(* start() and the join, and in the life of the management TcpServer.       *)
FailurePlaces == {"recordFailure", "failureNoted", "onManagementFailed", "stopBusiness"}
Announcing    == {"attach", "announce", "announceAdmin"}
Serving       == {"run", "onBusinessStarted", "loop", "drain"}
Ending        == {"setFailed", "checkFailed", "setStopping", "requestStop", "join"}
Spanned       == {"wait", "joinThrow"} \cup FailurePlaces \cup Announcing \cup Serving \cup Ending
Built         == {"start"} \cup Spanned
MainPlaces    == {"load", "construct", "leave", "printMetrics", "restoreMask", "end"} \cup Built
Holding          == {"publish", "run", "onStarted", "loop", "returned", "clearControl", "destroy"}
ManagementPlaces == {"none", "construct", "done"} \cup Holding \cup FailurePlaces

TypeOK ==
  /\ config \in {"good", "bad", "denied"} /\ admin \in BOOLEAN /\ metricsOnExit \in BOOLEAN
  /\ draining \in BOOLEAN /\ accepting \in BOOLEAN /\ wrong \in BOOLEAN
  /\ said \subseteq {"listening", "admin", "metrics"}
  /\ pc \in [Threads -> MainPlaces \cup ManagementPlaces] /\ thrown \in [Threads -> BOOLEAN]
  /\ pc["main"] \in MainPlaces /\ pc["management"] \in ManagementPlaces
  /\ lifecycle \in {"Starting", "Ready", "Stopping", "Failed"}
  /\ business \in [alive : BOOLEAN, stopping : BOOLEAN]
  /\ server \in [alive : BOOLEAN, stopping : BOOLEAN]
  /\ control \in [published : BOOLEAN, complete : BOOLEAN, succeeded : BOOLEAN,
                  stopRequested : BOOLEAN, failure : BOOLEAN]
  /\ signals \in [sent : 0 .. MaxSignals, pending : 0 .. MaxSignals]
  /\ exitCode \in {0, 1, 2, 15}

(* server_ points to a live server whenever the mutex is free to use it,    *)
(* and the failure callback of the management thread never reaches a        *)
(* business server that is gone.  When the process exits the thread is      *)
(* joined and the executor stopped, and an exit with 1 has a cause.  A      *)
(* recorded failure is never followed by readiness.                         *)
LifetimesNest ==
  /\ TypeOK
  /\ control.published => server.alive
  /\ \A t \in Threads : pc[t] = "stopBusiness" => business.alive
  /\ pc["main"] = "end" => Joinable /\ ~server.alive /\ ~accepting /\ (exitCode = 1 => wrong)
  /\ control.failure => lifecycle # "Ready"

(* A failure of either server, at startup or later, ends the process with   *)
(* exit code 1, and a signal ends it, whatever the management thread is in  *)
(* the middle of.  Only a signal that was never read hides the exit code.   *)
ProcessEnds ==
  /\ wrong ~> (pc["main"] = "end" /\ (exitCode = 1 \/ signals.pending > 0))
  /\ signals.pending > 0 ~> pc["main"] = "end"

(* The process as its parent sees it.                                       *)
Life ==
  CASE pc["main"] = "load"                              -> "loading"
    [] pc["main"] = "announceAdmin"                     -> "announced"
    [] pc["main"] \in {"run", "onBusinessStarted", "loop", "drain"} -> "serving"
    [] pc["main"] = "end"                               -> "ended"
    [] pc["main"] \in {"construct", "start", "wait", "attach", "announce"} -> "starting"
    [] OTHER                                            -> "leaving"

Parent == INSTANCE ServerLifetime WITH
  child <- [config |-> config, admin |-> admin, metrics |-> metricsOnExit, term |-> signals.sent > 0,
            killed |-> FALSE, life |-> Life, code |-> IF Life = "ended" THEN exitCode ELSE 0, said |-> said]

(* Whatever the two threads do, the process keeps what it promises to its   *)
(* parent: ports are announced once the management server is up and never   *)
(* by a start that fails, the metrics come last, and exit code 0 is given   *)
(* only after a signal.                                                     *)
LifetimeImplemented == Parent!Spec
=============================================================================
