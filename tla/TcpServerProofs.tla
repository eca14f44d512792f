-------------------------- MODULE TcpServerProofs --------------------------
(***************************************************************************)
(* Proofs, for every number of workers and every set of connections, that   *)
(* a shutdown of the server leaves no connection behind, reports exactly    *)
(* the failures there were, and cuts nobody off without a reason.  The      *)
(* inductive invariant is Inv.                                              *)
(***************************************************************************)
EXTENDS TcpServer, FiniteSetTheorems, TLAPS

Failed   == \E w \in Workers : worker[w].loop = "failed"
Finished == {w \in Workers : worker[w].pc \in {"notify", "done"}}

(* A connection is handed off exactly while it is in its worker's queue,    *)
(* once, and a worker's queue is empty when its loop is over.               *)
Queued ==
  /\ \A w \in Workers : \A i \in 1 .. Len(handoffs[w]) :
       conn[handoffs[w][i]] = "handed" /\ home[handoffs[w][i]] = w
  /\ \A w \in Workers : \A i, j \in 1 .. Len(handoffs[w]) :
       handoffs[w][i] = handoffs[w][j] => i = j
  /\ \A c \in Conns : conn[c] = "handed" =>
       \E i \in 1 .. Len(handoffs[home[c]]) : handoffs[home[c]][i] = c
  /\ \A w \in Workers : worker[w].pc # "poll" => handoffs[w] = << >>

(* An open connection has a registry.                                       *)
Served == \A c \in Conns : conn[c] \in Open => worker[home[c]].pc \notin {"notify", "done"}

(* Where the threads are; the main thread returns when all workers are done.*)
Places ==
  /\ \A w \in Workers : worker[w].pc = "poll" <=> Running(worker[w].loop)
  /\ main.pc \in {"shutdown", "join", "returned"} => ~Running(main.loop)
  /\ main.pc = "returned" => \A w \in Workers : worker[w].pc = "done"
  /\ workersFinished = Cardinality(Finished)

(* Whoever is told to drain or to force-close has been told after stopping_ *)
(* was set, a worker after the server's draining_.                          *)
Asked ==
  /\ main.control # "None" => stopping
  /\ main.pc = "tell" => main.control # "None" /\ (main.at # 0 => draining)
  /\ draining => stopping
  /\ \A w \in Workers : worker[w].control # "None" \/ worker[w].pending => draining
  /\ \A w \in Workers : registry[w].draining => draining

(* Why a worker's loop stops: somebody asked, or a worker failed.  While    *)
(* none failed and the main loop runs on it is because the worker drained   *)
(* and has no connection left.                                              *)
Reasons ==
  \A w \in Workers : worker[w].loop \in {"stopping", "stopped"} =>
    /\ stopping \/ Failed
    /\ \/ Failed \/ main.loop # "running" \/ worker[w].pc \in {"notify", "done"}
       \/ registry[w].draining /\ \A c \in Conns : home[c] = w => conn[c] \notin Open

(* A failure is recorded before the worker is counted.                      *)
Recorded ==
  /\ workerFailed => Failed
  /\ \A w \in Workers : worker[w].loop = "failed" /\ worker[w].pc \in {"reset", "notify", "done"} =>
       workerFailed

Inv == TypeOK /\ Queued /\ Served /\ Places /\ Asked /\ Reasons /\ Recorded

-----------------------------------------------------------------------------
(* Records.                                                                 *)

MainPlaces   == {"poll", "tell", "shutdown", "join", "returned"}
WorkerPlaces == {"poll", "ended", "cleanup", "reset", "notify", "done"}
MainSet   == [loop : Loops, control : Controls, pending : BOOLEAN, at : 0 .. N, pc : MainPlaces]
WorkerSet == [loop : Loops, control : Controls, pending : BOOLEAN, pc : WorkerPlaces]

(* Told, on a worker: only its control and its wake-up change.              *)
LEMMA ToldWorker ==
  ASSUME NEW l \in WorkerSet, NEW kind \in Controls
  PROVE  /\ Told(l, kind) \in WorkerSet
         /\ Told(l, kind).loop = l.loop /\ Told(l, kind).pc = l.pc
<1> DEFINE always == TRUE
           k == IF l.control = "Force" THEN l.control ELSE kind
           r == [[l EXCEPT !.control = k] EXCEPT !.pending = always]
<1>1. always \in BOOLEAN
  OBVIOUS
<1>2. k \in Controls
  BY Zenon DEF WorkerSet
<1>3. Told(l, kind) = IF Running(l.loop) THEN r ELSE l
  BY Zenon DEF Told
<1> HIDE DEF always, k
<1>4. r \in WorkerSet /\ r.loop = l.loop /\ r.pc = l.pc
  BY Zenon, <1>1, <1>2 DEF WorkerSet
<1> HIDE DEF r
<1> QED BY Zenon, <1>3, <1>4

(* Told, on the main loop.                                                  *)
LEMMA ToldMain ==
  ASSUME NEW l \in MainSet, NEW kind \in Controls \ {"None"}
  PROVE  /\ Told(l, kind) \in MainSet
         /\ Told(l, kind).loop = l.loop /\ Told(l, kind).pc = l.pc /\ Told(l, kind).at = l.at
         /\ l.control # "None" => Told(l, kind).control # "None"
<1> DEFINE always == TRUE
           k == IF l.control = "Force" THEN l.control ELSE kind
           r == [[l EXCEPT !.control = k] EXCEPT !.pending = always]
<1>1. always \in BOOLEAN
  OBVIOUS
<1>2. k \in Controls /\ k # "None"
  BY Zenon DEF MainSet
<1>3. Told(l, kind) = IF Running(l.loop) THEN r ELSE l
  BY Zenon DEF Told
<1> HIDE DEF always, k
<1>4. r \in MainSet /\ r.loop = l.loop /\ r.pc = l.pc /\ r.at = l.at /\ r.control = k
  BY Zenon, <1>1, <1>2 DEF MainSet
<1> HIDE DEF r
<1> QED BY Zenon, <1>2, <1>3, <1>4

-----------------------------------------------------------------------------
(* Steps of the main loop and of those who ask it.                          *)

(* A step that leaves the workers and the connections alone preserves the   *)
(* invariant when the main loop's record stays within Places and Asked.     *)
LEMMA MainMoves ==
  ASSUME Inv, main' \in MainSet,
         stopping' \in BOOLEAN, draining' \in BOOLEAN, listening' \in BOOLEAN, late' \in BOOLEAN,
         request' \in {"None", "Drain", "Force", "Stop"},
         stopping => stopping', draining => draining', draining' => stopping',
         main'.control # "None" => stopping',
         main'.pc = "tell" => main'.control # "None" /\ (main'.at # 0 => draining'),
         main'.pc \in {"shutdown", "join", "returned"} => ~Running(main'.loop),
         main'.pc = "returned" => \A w \in Workers : worker[w].pc = "done",
         main.loop # "running" => main'.loop # "running",
         UNCHANGED <<workerFailed, workersFinished, nextWorker, worker, registry, handoffs, connVars>>
  PROVE  Inv'
<1>1. TypeOK'
  BY Zenon DEF Inv, TypeOK, connVars, MainSet, MainPlaces
<1>2. Queued' /\ Served'
  BY DEF Inv, Queued, Served, connVars
<1>3. Places'
  BY Zenon DEF Inv, Places, Finished
<1>4. Asked'
  BY Zenon DEF Inv, Asked
<1>5. Reasons'
  BY Zenon DEF Inv, Reasons, Failed, connVars
<1>6. Recorded'
  BY Zenon DEF Inv, Recorded, Failed
<1> QED BY Zenon, <1>1, <1>2, <1>3, <1>4, <1>5, <1>6 DEF Inv

(* The types of the loops' records.                                         *)
LEMMA Typed ==
  ASSUME Inv
  PROVE  main \in MainSet /\ worker \in [Workers -> WorkerSet]
BY Zenon DEF Inv, TypeOK, MainSet, WorkerSet, MainPlaces, WorkerPlaces

(* A request, and the deadline: stopping_ is set before the loop is told.   *)
LEMMA RequestStep_Inv ==
  ASSUME Inv,
         RequestStep \/ DeadlinePasses \/ \E kind \in {"Drain", "Force", "Stop"} : BeginRequest(kind)
  PROVE  Inv'
<1> USE Typed
<1>1. ASSUME NEW kind \in {"Drain", "Force", "Stop"}, BeginRequest(kind)
      PROVE  Inv'
  <2>1. /\ stopping' /\ stopping' \in BOOLEAN /\ request' \in {"None", "Drain", "Force", "Stop"}
        /\ UNCHANGED <<workerFailed, workersFinished, draining, listening, nextWorker, main, worker,
                       registry, handoffs, late, connVars>>
    BY Zenon, <1>1 DEF BeginRequest
  <2>2. TypeOK /\ Asked /\ Places
    BY Zenon DEF Inv
  <2> QED BY Zenon, <2>1, <2>2, MainMoves DEF TypeOK, Asked, Places
<1>2. CASE DeadlinePasses
  <2>1. /\ late' \in BOOLEAN
        /\ UNCHANGED <<serverVars, main, worker, registry, handoffs, request, connVars>>
    BY Zenon, <1>2 DEF DeadlinePasses
  <2>2. TypeOK /\ Asked /\ Places
    BY Zenon DEF Inv
  <2> QED BY Zenon, <2>1, <2>2, MainMoves DEF TypeOK, Asked, Places, serverVars
<1>3. ASSUME NEW kind \in {"Drain", "Force", "Stop"}, NEW l \in MainSet, Tells(kind, l),
             l.control = main.control \/ l.control # "None", l.pc = main.pc, l.at = main.at,
             l.loop = main.loop \/ (main.loop = "running" /\ l.loop = "stopping"),
             main.control # "None" => l.control # "None"
      PROVE  Inv'
  <2>1. /\ stopping /\ request' \in {"None", request} /\ main' = l
        /\ UNCHANGED <<serverVars, worker, registry, handoffs, late, connVars>>
    BY Zenon, <1>3 DEF Tells
  <2>2. TypeOK /\ Asked /\ Places
    BY Zenon DEF Inv
  <2>3. /\ stopping' \in BOOLEAN /\ draining' \in BOOLEAN /\ listening' \in BOOLEAN
        /\ late' \in BOOLEAN /\ request' \in {"None", "Drain", "Force", "Stop"}
    BY Zenon, <2>1, <2>2 DEF TypeOK, serverVars
  <2>4. /\ stopping' /\ draining' = draining /\ main' \in MainSet
        /\ UNCHANGED <<workerFailed, workersFinished, nextWorker, worker, registry, handoffs, connVars>>
    BY Zenon, <2>1 DEF serverVars
  <2>5. main'.pc \in {"shutdown", "join", "returned"} => ~Running(main'.loop)
    BY Zenon, <1>3, <2>1, <2>2 DEF Places, Running
  <2>6. main'.pc = "returned" => \A w \in Workers : worker[w].pc = "done"
    BY Zenon, <1>3, <2>1, <2>2 DEF Places
  <2>7. main'.pc = "tell" => main'.control # "None" /\ (main'.at # 0 => draining')
    BY Zenon, <1>3, <2>1, <2>2, <2>4 DEF Asked
  <2>8. main.loop # "running" => main'.loop # "running"
    BY Zenon, <1>3, <2>1
  <2> HIDE DEF Inv
  <2> QED BY Zenon, <2>3, <2>4, <2>5, <2>6, <2>7, <2>8, MainMoves
<1>4. CASE requestServerGracefulShutdown
  <2> DEFINE l == Told(main, "Drain")
  <2>1. "Drain" \in Controls \ {"None"}
    BY Zenon DEF Controls
  <2>2. /\ l \in MainSet /\ l.loop = main.loop /\ l.pc = main.pc /\ l.at = main.at
        /\ main.control # "None" => l.control # "None"
    BY Zenon, <2>1, ToldMain
  <2>3. Tells("Drain", l)
    BY Zenon, <1>4 DEF requestServerGracefulShutdown
  <2> HIDE DEF l
  <2> QED BY Zenon, <1>3, <2>2, <2>3
<1>5. CASE requestServerForceClose
  <2> DEFINE l == Told(main, "Force")
  <2>1. "Force" \in Controls \ {"None"}
    BY Zenon DEF Controls
  <2>2. /\ l \in MainSet /\ l.loop = main.loop /\ l.pc = main.pc /\ l.at = main.at
        /\ main.control # "None" => l.control # "None"
    BY Zenon, <2>1, ToldMain
  <2>3. Tells("Force", l)
    BY Zenon, <1>5 DEF requestServerForceClose
  <2> HIDE DEF l
  <2> QED BY Zenon, <1>3, <2>2, <2>3
<1>6. CASE requestServerStop
  <2> DEFINE l == [main EXCEPT !.loop = IF @ = "running" THEN "stopping" ELSE @]
  <2>1. /\ l \in MainSet /\ l.control = main.control /\ l.pc = main.pc /\ l.at = main.at
        /\ l.loop = main.loop \/ (main.loop = "running" /\ l.loop = "stopping")
    BY Zenon DEF MainSet, Loops
  <2>2. Tells("Stop", l)
    BY Zenon, <1>6 DEF requestServerStop
  <2> HIDE DEF l
  <2> QED BY Zenon, <1>3, <2>1, <2>2
<1> QED BY Zenon, <1>1, <1>2, <1>4, <1>5, <1>6 DEF RequestStep

(* onControl: the workers are told only once draining_ is set.              *)
LEMMA OnControl_Inv ==
  ASSUME Inv, onControl
  PROVE  Inv'
<1> DEFINE never == FALSE
           kind  == IF Expired(main) THEN "Force" ELSE main.control
           tells == kind = "Force" \/ (kind = "Drain" /\ ~draining)
           place == IF kind = "None" THEN "poll" ELSE "tell"
           at    == IF tells THEN 1 ELSE 0
<1>1. TypeOK /\ Asked /\ Places /\ main \in MainSet
  BY Zenon, Typed DEF Inv
<1>2. /\ main' = [main EXCEPT !.control = kind, !.pending = never, !.pc = place, !.at = at]
      /\ draining' = (draining \/ tells) /\ listening' = (listening /\ kind = "None")
      /\ main.pc = "poll" /\ Running(main.loop)
      /\ UNCHANGED <<stopping, workerFailed, workersFinished, nextWorker, worker, registry, handoffs,
                     request, late, connVars>>
  BY Zenon DEF onControl
<1>3. main' = [[[[[main EXCEPT !.loop = main.loop] EXCEPT !.pc = place] EXCEPT !.control = kind]
                  EXCEPT !.pending = never] EXCEPT !.at = at]
  BY Zenon, <1>1, <1>2 DEF MainSet
<1>4. never \in BOOLEAN
  OBVIOUS
<1>5. /\ kind \in Controls /\ (kind # "None" => main.control # "None")
      /\ place \in MainPlaces /\ at \in 0 .. N /\ (at # 0 => tells) /\ main.loop \in Loops
  BY <1>1, ServerAssumption DEF Expired, Controls, MainSet, MainPlaces
<1>6. tells => kind # "None"
  OBVIOUS
<1>7. place \in {"poll", "tell"} /\ (place = "tell" => kind # "None")
  OBVIOUS
<1>8. draining' \in BOOLEAN /\ listening' \in BOOLEAN /\ (draining' <=> draining \/ tells)
  BY Zenon, <1>1, <1>2 DEF TypeOK
<1> HIDE DEF never, kind, tells, place, at
<1>9. /\ main' \in MainSet /\ main'.loop = main.loop /\ main'.pc = place /\ main'.control = kind
      /\ main'.at = at
  BY Zenon, <1>1, <1>3, <1>4, <1>5 DEF MainSet
<1>10. draining' => stopping
  BY Zenon, <1>1, <1>5, <1>6, <1>8 DEF Asked
<1>11. main'.control # "None" => stopping
  BY Zenon, <1>1, <1>5, <1>9 DEF Asked
<1>12. main'.pc = "tell" => main'.control # "None" /\ (main'.at # 0 => draining')
  BY Zenon, <1>5, <1>7, <1>8, <1>9
<1>13. stopping' = stopping /\ stopping' \in BOOLEAN /\ late' \in BOOLEAN
       /\ request' \in {"None", "Drain", "Force", "Stop"}
  BY Zenon, <1>1, <1>2 DEF TypeOK
<1>14. UNCHANGED <<workerFailed, workersFinished, nextWorker, worker, registry, handoffs, connVars>>
  BY Zenon, <1>2
<1> QED BY Zenon, <1>7, <1>8, <1>9, <1>10, <1>11, <1>12, <1>13, <1>14, MainMoves

(* The end of onControl, and of the main loop, and runTcpServer's return.   *)
LEMMA MainEnds_Inv ==
  ASSUME Inv, CountWorkers \/ MainLoopEnds \/ MainLoopFails \/ runTcpServer
  PROVE  Inv'
<1>1. TypeOK /\ Asked /\ Places /\ main \in MainSet
  BY Zenon, Typed DEF Inv
<1>2. UNCHANGED <<serverVars, worker, registry, handoffs, request, late, connVars>>
  BY Zenon DEF CountWorkers, MainLoopEnds, MainLoopFails, runTcpServer
<1>3. /\ stopping' = stopping /\ draining' = draining
      /\ stopping' \in BOOLEAN /\ draining' \in BOOLEAN /\ listening' \in BOOLEAN /\ late' \in BOOLEAN
      /\ request' \in {"None", "Drain", "Force", "Stop"} /\ (draining' => stopping')
  BY Zenon, <1>1, <1>2 DEF TypeOK, Asked, serverVars
<1>4. UNCHANGED <<workerFailed, workersFinished, nextWorker, worker, registry, handoffs, connVars>>
  BY Zenon, <1>2 DEF serverVars
<1>5. CASE CountWorkers
  <2>1. /\ main' \in MainSet /\ main'.control = main.control /\ main'.pc = "poll"
        /\ main.loop # "running" => main'.loop # "running"
    BY Zenon, <1>1, <1>5 DEF CountWorkers, MainSet, MainPlaces, Loops
  <2> QED BY Zenon, <1>1, <1>3, <1>4, <2>1, MainMoves DEF Asked
<1>6. ASSUME NEW how \in {"stopped", "failed"}, NEW i \in 0 .. N,
             main' = [Over(main, how, "shutdown") EXCEPT !.at = i]
      PROVE  Inv'
  <2> DEFINE never == FALSE
  <2>1. main' = [[[[[main EXCEPT !.loop = how] EXCEPT !.pc = "shutdown"] EXCEPT !.control = "None"]
                    EXCEPT !.pending = never] EXCEPT !.at = i]
    BY Zenon, <1>6 DEF Over
  <2>2. never \in BOOLEAN
    OBVIOUS
  <2> HIDE DEF never
  <2>3. "shutdown" \in MainPlaces /\ "None" \in Controls /\ how \in Loops
    BY Zenon DEF MainPlaces, Controls, Loops
  <2>4. main' \in MainSet /\ main'.loop = how /\ main'.pc = "shutdown" /\ main'.control = "None"
    BY Zenon, <1>1, <2>1, <2>2, <2>3 DEF MainSet
  <2> QED BY Zenon, <1>3, <1>4, <2>4, MainMoves DEF Running
<1>7. CASE MainLoopEnds
  <2>1. main' = Over(main, "stopped", "shutdown")
    BY Zenon, <1>7 DEF MainLoopEnds
  <2>2. main.at \in 0 .. N /\ Over(main, "stopped", "shutdown").at = main.at
    BY Zenon, <1>1 DEF Over, MainSet
  <2>3. main' = [Over(main, "stopped", "shutdown") EXCEPT !.at = main.at]
    BY Zenon, <1>1, <2>1, <2>2 DEF Over, MainSet
  <2> QED BY Zenon, <1>6, <2>2, <2>3
<1>8. CASE MainLoopFails
  BY <1>6, <1>8, ServerAssumption DEF MainLoopFails
<1>9. CASE runTcpServer
  <2>1. /\ main' \in MainSet /\ main'.control = main.control /\ main'.pc = "returned"
        /\ main'.loop = main.loop
    BY Zenon, <1>1, <1>9 DEF runTcpServer, MainSet, MainPlaces
  <2>2. ~Running(main.loop) /\ \A w \in Workers : worker[w].pc = "done"
    BY Zenon, <1>1, <1>9 DEF runTcpServer, Places
  <2> QED BY Zenon, <1>1, <1>3, <1>4, <2>1, <2>2, MainMoves DEF Asked
<1> QED BY Zenon, <1>5, <1>7, <1>8, <1>9

-----------------------------------------------------------------------------
(* Steps that tell workers.                                                 *)

(* A step that tells workers something preserves the invariant when those   *)
(* that it stops have a reason to and those that it controls see draining_. *)
LEMMA WorkersTold ==
  ASSUME Inv, worker' \in [Workers -> WorkerSet], main' \in MainSet,
         \A v \in Workers : \/ worker'[v].pc = worker[v].pc
                            \/ worker[v].pc = "ended" /\ worker'[v].pc = "cleanup",
         \A v \in Workers : \/ worker'[v].loop = worker[v].loop
                            \/ /\ worker[v].loop = "running" /\ worker'[v].loop = "stopping"
                               /\ stopping' \/ Failed
                               /\ Failed \/ main.loop # "running",
         \A v \in Workers : worker'[v].control # "None" \/ worker'[v].pending => draining,
         main'.loop = main.loop, main'.control = main.control,
         main'.pc = main.pc \/ (main.pc = "shutdown" /\ main'.pc = "join"),
         main'.pc = "tell" => (main'.at # 0 => draining),
         stopping' \in BOOLEAN, listening' \in BOOLEAN, stopping => stopping',
         UNCHANGED <<workerFailed, workersFinished, draining, nextWorker, registry, handoffs,
                     request, late, connVars>>
  PROVE  Inv'
<1>1. TypeOK'
  BY Zenon DEF Inv, TypeOK, connVars, MainSet, MainPlaces, WorkerSet, WorkerPlaces
<1>2. Queued'
  BY DEF Inv, Queued, connVars
<1>3. Served'
  BY Zenon DEF Inv, Served, TypeOK, connVars
<1>4. Places'
  <2>1. Finished' = Finished
    BY Zenon DEF Finished
  <2>2. \A w \in Workers : worker'[w].pc = "poll" <=> Running(worker'[w].loop)
    BY Zenon DEF Inv, Places, Running
  <2>3. main'.pc \in {"shutdown", "join", "returned"} => ~Running(main'.loop)
    BY Zenon DEF Inv, Places
  <2>4. main'.pc = "returned" => \A w \in Workers : worker'[w].pc = "done"
    BY Zenon DEF Inv, Places
  <2> QED BY Zenon, <2>1, <2>2, <2>3, <2>4 DEF Inv, Places
<1>5. Asked'
  BY Zenon DEF Inv, Asked
<1>6. Failed => Failed'
  BY Zenon DEF Failed
<1>7. Reasons'
  BY Zenon, <1>6 DEF Inv, Reasons, connVars
<1>8. Recorded'
  BY Zenon, <1>6 DEF Inv, Recorded
<1> QED BY Zenon, <1>1, <1>2, <1>3, <1>4, <1>5, <1>7, <1>8 DEF Inv

(* requestWorkersDrain and requestWorkersForceClose.                        *)
LEMMA TellWorker_Inv ==
  ASSUME Inv, TellWorker
  PROVE  Inv'
<1>1. TypeOK /\ Asked /\ main \in MainSet /\ worker \in [Workers -> WorkerSet]
  BY Zenon, Typed DEF Inv
<1>2. /\ main.pc = "tell" /\ main.at \in Workers
      /\ worker' = [worker EXCEPT ![main.at] = Told(worker[main.at], main.control)]
      /\ main' = [main EXCEPT !.at = IF @ = N THEN 0 ELSE @ + 1]
      /\ UNCHANGED <<serverVars, registry, handoffs, request, late, connVars>>
  BY Zenon DEF TellWorker
<1>3. draining
  BY <1>1, <1>2 DEF Asked, Workers
<1>4. main.control \in Controls /\ worker[main.at] \in WorkerSet
  BY Zenon, <1>1, <1>2 DEF MainSet
<1> DEFINE told == Told(worker[main.at], main.control)
<1>5. told \in WorkerSet /\ told.loop = worker[main.at].loop /\ told.pc = worker[main.at].pc
  BY Zenon, <1>4, ToldWorker
<1> HIDE DEF told
<1>6. /\ worker' \in [Workers -> WorkerSet]
      /\ \A v \in Workers : worker'[v].loop = worker[v].loop /\ worker'[v].pc = worker[v].pc
  BY Zenon, <1>1, <1>2, <1>5 DEF told
<1>7. /\ main' \in MainSet /\ main'.loop = main.loop /\ main'.control = main.control
      /\ main'.pc = main.pc
  BY <1>1, <1>2, ServerAssumption DEF MainSet, Workers
<1>8. stopping' \in BOOLEAN /\ listening' \in BOOLEAN /\ stopping' = stopping
  BY Zenon, <1>1, <1>2 DEF TypeOK, serverVars
<1> QED BY <1>2, <1>3, <1>6, <1>7, <1>8, WorkersTold DEF serverVars

(* What requestPoolStop does to the workers.                                *)
LEMMA PoolStoppedFacts ==
  ASSUME Inv
  PROVE  /\ PoolStopped \in [Workers -> WorkerSet]
         /\ \A v \in Workers :
              /\ PoolStopped[v].pc = worker[v].pc
              /\ PoolStopped[v].control = worker[v].control
              /\ PoolStopped[v].pending = worker[v].pending
              /\ \/ PoolStopped[v].loop = worker[v].loop
                 \/ worker[v].loop = "running" /\ PoolStopped[v].loop = "stopping"
<1>1. worker \in [Workers -> WorkerSet]
  BY Zenon, Typed
<1> DEFINE next(v) == IF worker[v].pc = "poll" /\ worker[v].loop = "running" THEN "stopping"
                      ELSE worker[v].loop
           r(v) == [worker[v] EXCEPT !.loop = next(v)]
<1>2. PoolStopped = [v \in Workers |-> r(v)]
  BY Zenon DEF PoolStopped
<1>3. \A v \in Workers : /\ next(v) \in Loops
                         /\ \/ next(v) = worker[v].loop
                            \/ worker[v].loop = "running" /\ next(v) = "stopping"
  BY Zenon, <1>1 DEF WorkerSet, Loops
<1> HIDE DEF next
<1>4. \A v \in Workers : /\ r(v) \in WorkerSet /\ r(v).loop = next(v)
                         /\ r(v).pc = worker[v].pc /\ r(v).control = worker[v].control
                         /\ r(v).pending = worker[v].pending
  BY Zenon, <1>1, <1>3 DEF WorkerSet
<1> HIDE DEF r
<1> QED BY Zenon, <1>2, <1>3, <1>4

(* shutdownTcpServer stops every worker; the main loop is over.             *)
LEMMA Shutdown_Inv ==
  ASSUME Inv, shutdownTcpServer
  PROVE  Inv'
<1>1. TypeOK /\ Asked /\ Places /\ main \in MainSet
  BY Zenon, Typed DEF Inv
<1>2. /\ main.pc = "shutdown" /\ stopping' /\ stopping' \in BOOLEAN /\ listening' \in BOOLEAN
      /\ worker' = PoolStopped /\ main' = [main EXCEPT !.pc = "join"]
      /\ UNCHANGED <<workerFailed, workersFinished, draining, nextWorker, registry, handoffs,
                     request, late, connVars>>
  BY Zenon DEF shutdownTcpServer
<1>3. main.loop # "running"
  BY Zenon, <1>1, <1>2 DEF Places, Running
<1>4. /\ main' \in MainSet /\ main'.loop = main.loop /\ main'.control = main.control
      /\ main'.pc = "join"
  BY Zenon, <1>1, <1>2 DEF MainSet, MainPlaces
<1>5. \A v \in Workers : worker'[v].control # "None" \/ worker'[v].pending => draining
  BY Zenon, <1>1, <1>2, PoolStoppedFacts DEF Asked
<1> QED BY Zenon, <1>2, <1>3, <1>4, <1>5, PoolStoppedFacts, WorkersTold

(* cleanupWorker: a worker that ends unplanned, and so stops the others,    *)
(* has failed itself or has been stopped for a reason that holds for them.  *)
LEMMA CleanupWorker_Inv ==
  ASSUME Inv, NEW w \in Workers, cleanupWorker(w)
  PROVE  Inv'
<1> DEFINE base == IF StopsOthers(w) THEN PoolStopped ELSE worker
<1>1. TypeOK /\ Asked /\ Places /\ Reasons /\ main \in MainSet /\ worker \in [Workers -> WorkerSet]
  BY Zenon, Typed DEF Inv
<1>2. /\ worker[w].pc = "ended" /\ worker' = [base EXCEPT ![w] = [base[w] EXCEPT !.pc = "cleanup"]]
      /\ UNCHANGED <<serverVars, main, registry, handoffs, request, late, connVars>>
  BY Zenon DEF cleanupWorker
<1>3. worker[w].loop \in {"stopped", "failed"}
  BY Zenon, <1>1, <1>2 DEF Places, Running, WorkerSet, Loops
<1>4. worker[w].loop = "failed" => Failed
  BY Zenon DEF Failed
<1>5. StopsOthers(w) => (stopping \/ Failed) /\ (Failed \/ main.loop # "running")
  BY Zenon, <1>1, <1>2, <1>3, <1>4 DEF StopsOthers, Reasons, Asked
<1>6. /\ base \in [Workers -> WorkerSet]
      /\ \A v \in Workers :
           /\ base[v].pc = worker[v].pc
           /\ base[v].control = worker[v].control /\ base[v].pending = worker[v].pending
           /\ \/ base[v].loop = worker[v].loop
              \/ worker[v].loop = "running" /\ base[v].loop = "stopping" /\ StopsOthers(w)
  BY Zenon, <1>1, PoolStoppedFacts
<1> HIDE DEF base
<1>7. /\ worker' \in [Workers -> WorkerSet]
      /\ \A v \in Workers :
           /\ worker'[v].loop = base[v].loop /\ worker'[v].control = base[v].control
           /\ worker'[v].pending = base[v].pending
           /\ worker'[v].pc = IF v = w THEN "cleanup" ELSE base[v].pc
  BY <1>2, <1>6 DEF WorkerSet, WorkerPlaces
<1>8. \A v \in Workers : worker'[v].control # "None" \/ worker'[v].pending => draining
  BY <1>1, <1>6, <1>7 DEF Asked
<1>9. \A v \in Workers : \/ worker'[v].loop = worker[v].loop
                         \/ /\ worker[v].loop = "running" /\ worker'[v].loop = "stopping"
                            /\ stopping \/ Failed
                            /\ Failed \/ main.loop # "running"
  BY ZenonT(30), <1>5, <1>6, <1>7
<1>10. \A v \in Workers : \/ worker'[v].pc = worker[v].pc
                          \/ worker[v].pc = "ended" /\ worker'[v].pc = "cleanup"
  BY <1>2, <1>6, <1>7
<1>11. stopping' \in BOOLEAN /\ listening' \in BOOLEAN /\ stopping' = stopping /\ main' = main
       /\ (main.pc = "tell" => (main.at # 0 => draining))
       /\ UNCHANGED <<workerFailed, workersFinished, draining, nextWorker, registry, handoffs,
                      request, late, connVars>>
  BY Zenon, <1>1, <1>2 DEF TypeOK, Asked, serverVars
<1> QED BY Zenon, <1>1, <1>7, <1>8, <1>9, <1>10, <1>11, WorkersTold

-----------------------------------------------------------------------------
(* Steps of a worker's connections.                                         *)

ConnStates == {"new", "handed", "idle", "writing", "closed", "dropped", "cut"}

(* onCleanup, after connections of a worker were closed: the worker stops   *)
(* only when it drains and has no connection left.                          *)
LEMMA OnCleanup_Inv ==
  ASSUME Inv, NEW w \in Workers, Polls(w), NEW d \in BOOLEAN, NEW left, NEW l \in WorkerSet,
         onCleanup(w, d, left, l), l.loop = worker[w].loop, l.pc = worker[w].pc,
         l.control # "None" \/ l.pending => draining, d => draining, registry[w].draining => d,
         conn' \in [Conns -> ConnStates],
         \A c \in Conns : conn'[c] = "handed" <=> conn[c] = "handed",
         \A c \in Conns : conn'[c] \in Open => conn[c] \in Open,
         \A c \in Conns : home[c] = w /\ conn'[c] \in Open => c \in left,
         UNCHANGED <<serverVars, main, handoffs, request, late, home>>
  PROVE  Inv'
<1> DEFINE empty == Emptied(w, d, left)
           note  == registry[w].notified \/ empty
           next  == IF l.loop = "running" /\ empty THEN "stopping" ELSE l.loop
<1>1. TypeOK /\ Queued /\ Served /\ Places /\ Asked /\ Reasons /\ Recorded
      /\ worker \in [Workers -> WorkerSet]
  BY Zenon, Typed DEF Inv
<1>2. /\ registry' = [registry EXCEPT ![w] = [draining |-> d, notified |-> note]]
      /\ worker' = [worker EXCEPT ![w] = [l EXCEPT !.loop = next]]
  BY Zenon DEF onCleanup
<1>3. note \in BOOLEAN
  BY Zenon, <1>1 DEF TypeOK
<1>4. /\ next \in Loops
      /\ next = l.loop \/ (l.loop = "running" /\ next = "stopping" /\ d /\ left = {})
  BY Zenon DEF Emptied, Loops, WorkerSet
<1> HIDE DEF empty, note, next
<1>5. /\ registry' \in [Workers -> [draining : BOOLEAN, notified : BOOLEAN]]
      /\ \A v \in Workers : registry'[v].draining = IF v = w THEN d ELSE registry[v].draining
  BY Zenon, <1>1, <1>2, <1>3 DEF TypeOK
<1>6. /\ worker' \in [Workers -> WorkerSet]
      /\ worker'[w].loop = next /\ worker'[w].control = l.control /\ worker'[w].pending = l.pending
      /\ \A v \in Workers : worker'[v].pc = worker[v].pc /\ (v # w => worker'[v] = worker[v])
  BY Zenon, <1>1, <1>2, <1>4 DEF WorkerSet
<1>7. \A v \in Workers : worker'[v].loop = "failed" <=> worker[v].loop = "failed"
  BY Zenon, <1>4, <1>6
<1>8. Failed' <=> Failed
  BY Zenon, <1>7 DEF Failed
<1>9. TypeOK'
  BY <1>1, <1>5, <1>6 DEF TypeOK, serverVars, WorkerSet, WorkerPlaces, ConnStates
<1>10. Queued'
  BY <1>1, <1>6 DEF Queued, TypeOK
<1>11. Served'
  BY ZenonT(30), <1>1, <1>6 DEF Served, TypeOK
<1>12. Places'
  <2>1. Finished' = Finished
    BY Zenon, <1>6 DEF Finished
  <2>2. \A v \in Workers : worker'[v].pc = "poll" <=> Running(worker'[v].loop)
    BY <1>1, <1>4, <1>6 DEF Places, Running
  <2> QED BY ZenonT(30), <1>1, <1>6, <2>1, <2>2 DEF Places, serverVars
<1>13. Asked'
  BY ZenonT(30), <1>1, <1>5, <1>6 DEF Asked, serverVars
<1>14. Reasons'
  <2> SUFFICES ASSUME NEW v \in Workers, worker'[v].loop \in {"stopping", "stopped"}
               PROVE  /\ stopping' \/ Failed'
                      /\ \/ Failed' \/ main'.loop # "running" \/ worker'[v].pc \in {"notify", "done"}
                         \/ /\ registry'[v].draining
                            /\ \A c \in Conns : home'[c] = v => conn'[c] \notin Open
    BY Zenon DEF Reasons
  <2>1. CASE v = w /\ next # l.loop
    BY Zenon, <1>1, <1>4, <1>5, <2>1 DEF Asked, serverVars
  <2>2. CASE v # w \/ next = l.loop
    <3>1. worker[v].loop = worker'[v].loop /\ worker'[v].pc = worker[v].pc
      BY Zenon, <1>6, <2>2
    <3>2. registry[v].draining => registry'[v].draining
      BY Zenon, <1>5
    <3> QED BY Zenon, <1>1, <1>8, <3>1, <3>2 DEF Reasons, serverVars
  <2> QED BY Zenon, <2>1, <2>2
<1>15. Recorded'
  BY Zenon, <1>1, <1>6, <1>7, <1>8 DEF Recorded, serverVars
<1> QED BY Zenon, <1>9, <1>10, <1>11, <1>12, <1>13, <1>14, <1>15 DEF Inv

(* A connection that stays open.                                            *)
LEMMA ConnStays_Inv ==
  ASSUME Inv, NEW c \in Conns, NEW next \in Open, conn[c] \in Open,
         conn' = [conn EXCEPT ![c] = next],
         UNCHANGED <<serverVars, main, worker, registry, handoffs, request, late, home>>
  PROVE  Inv'
<1>1. /\ conn' \in [Conns -> ConnStates]
      /\ \A b \in Conns : /\ conn'[b] \in Open <=> conn[b] \in Open
                          /\ conn'[b] = "handed" <=> conn[b] = "handed"
  BY Zenon DEF Inv, TypeOK, Open, ConnStates
<1>2. TypeOK'
  BY <1>1 DEF Inv, TypeOK, ConnStates, serverVars
<1>3. Queued' /\ Served'
  BY <1>1 DEF Inv, Queued, Served, TypeOK
<1>4. Places' /\ Asked' /\ Recorded'
  BY Zenon DEF Inv, Places, Asked, Recorded, Finished, Failed, serverVars
<1>5. Reasons'
  BY Zenon, <1>1 DEF Inv, Reasons, Failed, serverVars
<1> QED BY Zenon, <1>2, <1>3, <1>4, <1>5 DEF Inv

(* A drain or a force close, of the connections it is for.                  *)
LEMMA Drain_Inv ==
  ASSUME Inv, NEW w \in Workers, beginConnectionsDrain(w)
  PROVE  Inv'
<1> DEFINE always == TRUE
           never  == FALSE
           kind   == IF Expired(worker[w]) THEN "Force" ELSE worker[w].control
           closed == {c \in Mine(w) : conn[c] \in ClosedBy(kind)}
           left   == Mine(w) \ closed
           l      == [[worker[w] EXCEPT !.control = kind] EXCEPT !.pending = never]
<1>1. TypeOK /\ Asked /\ worker[w] \in WorkerSet
  BY Zenon, Typed DEF Inv
<1>2. /\ Polls(w) /\ (worker[w].pending \/ Expired(worker[w]))
      /\ conn' = [c \in Conns |-> IF c \notin closed THEN conn[c]
                                  ELSE IF conn[c] = "writing" THEN "cut" ELSE "closed"]
      /\ onCleanup(w, always, left, l)
      /\ UNCHANGED <<serverVars, main, handoffs, request, late, home>>
  BY Zenon DEF beginConnectionsDrain
<1>3. always \in BOOLEAN /\ never \in BOOLEAN
  OBVIOUS
<1>4. draining
  BY Zenon, <1>1, <1>2 DEF Asked, Expired
<1>5. kind \in Controls
  BY Zenon, <1>1 DEF WorkerSet, Controls
<1>6. \A c \in closed : c \in Conns /\ conn[c] \in Open
  BY Zenon DEF Mine
<1>7. \A c \in Conns : home[c] = w /\ conn[c] \in Open => c \in Mine(w)
  BY Zenon DEF Mine
<1> HIDE DEF closed, kind, never, always
<1>8. l \in WorkerSet /\ l.loop = worker[w].loop /\ l.pc = worker[w].pc
  BY Zenon, <1>1, <1>3, <1>5 DEF WorkerSet
<1>9. /\ conn' \in [Conns -> ConnStates]
      /\ \A c \in Conns : /\ conn'[c] = "handed" <=> conn[c] = "handed"
                          /\ conn'[c] \in Open => conn[c] \in Open /\ c \notin closed
  BY Zenon, <1>1, <1>2, <1>6 DEF TypeOK, ConnStates, Open
<1>10. \A c \in Conns : home[c] = w /\ conn'[c] \in Open => c \in left
  BY Zenon, <1>7, <1>9
<1>11. registry[w].draining => always
  BY Zenon DEF always
<1> HIDE DEF l, left
<1> QED BY <1>2, <1>3, <1>4, <1>8, <1>9, <1>10, <1>11, OnCleanup_Inv

(* A request answered, output flushed, and a peer that closes.              *)
LEMMA Conn_Inv ==
  ASSUME Inv, NEW c \in Conns, Respond(c) \/ Flush(c) \/ PeerCloses(c)
  PROVE  Inv'
<1>1. TypeOK /\ Asked /\ home[c] \in Workers /\ worker[home[c]] \in WorkerSet
  BY Zenon, Typed DEF Inv, TypeOK
<1>2. registry[home[c]].draining \in BOOLEAN
  BY Zenon, <1>1 DEF TypeOK
<1>3. CASE Respond(c)
  BY Zenon, <1>3, ConnStays_Inv DEF Respond, Open
<1>4. CASE Flush(c) /\ ~registry[home[c]].draining
  BY Zenon, <1>4, ConnStays_Inv DEF Flush, Open
<1>5. ASSUME conn[c] \in Open, Polls(home[c]), conn' = [conn EXCEPT ![c] = "closed"],
             onCleanup(home[c], registry[home[c]].draining, Mine(home[c]) \ {c}, worker[home[c]]),
             UNCHANGED <<serverVars, main, handoffs, request, late, home>>
      PROVE  Inv'
  <2>1. /\ conn' \in [Conns -> ConnStates]
        /\ \A b \in Conns : /\ conn'[b] = "handed" <=> conn[b] = "handed"
                            /\ conn'[b] \in Open => conn[b] \in Open /\ b # c
    BY Zenon, <1>1, <1>5 DEF TypeOK, ConnStates, Open
  <2>2. \A b \in Conns : home[b] = home[c] /\ conn'[b] \in Open => b \in Mine(home[c]) \ {c}
    BY Zenon, <2>1 DEF Mine
  <2>3. /\ registry[home[c]].draining => draining
        /\ worker[home[c]].control # "None" \/ worker[home[c]].pending => draining
    BY Zenon, <1>1 DEF Asked
  <2> QED BY <1>1, <1>2, <1>5, <2>1, <2>2, <2>3, OnCleanup_Inv
<1>6. CASE Flush(c) /\ registry[home[c]].draining
  BY Zenon, <1>5, <1>6 DEF Flush, Open
<1>7. CASE PeerCloses(c)
  BY Zenon, <1>5, <1>7 DEF PeerCloses
<1> QED BY Zenon, <1>3, <1>4, <1>6, <1>7

-----------------------------------------------------------------------------
(* Hand-off of connections to the workers.                                  *)

(* A step that hands off, adopts or drops a connection preserves the        *)
(* invariant when it keeps the queues right.                                *)
LEMMA HandOff_Inv ==
  ASSUME Inv, Queued', listening' \in BOOLEAN, nextWorker' \in Workers,
         handoffs' \in [Workers -> Seq(Conns)], conn' \in [Conns -> ConnStates],
         home' \in [Conns -> Workers],
         \A c \in Conns : conn'[c] \in Open =>
           /\ home'[c] = home[c]
           /\ conn[c] \in Open \/ (worker[home[c]].pc = "poll" /\ ~registry[home[c]].draining),
         UNCHANGED <<stopping, workerFailed, workersFinished, draining, main, worker, registry,
                     request, late>>
  PROVE  Inv'
<1>1. TypeOK'
  BY ZenonT(30) DEF Inv, TypeOK, ConnStates
<1>2. Served'
  BY Zenon DEF Inv, Served
<1>3. Places' /\ Asked' /\ Recorded'
  BY ZenonT(30) DEF Inv, Places, Asked, Recorded, Finished, Failed
<1>4. Reasons'
  BY ZenonT(30) DEF Inv, Reasons, Failed
<1> QED BY Zenon, <1>1, <1>2, <1>3, <1>4 DEF Inv

(* nextWorkerIndex_ stays within the workers.                               *)
LEMMA InTurnType ==
  ASSUME Inv
  PROVE  InTurn \in Workers
BY ServerAssumption DEF Inv, TypeOK, InTurn, Workers

(* onAccepted: a connection goes to the end of one worker's queue.          *)
LEMMA OnAccepted_Inv ==
  ASSUME Inv, NEW c \in Conns, onAccepted(c)
  PROVE  Inv'
<1>1. TypeOK /\ Queued /\ conn[c] = "new"
  BY Zenon DEF Inv, onAccepted
<1>2. UNCHANGED <<stopping, workerFailed, workersFinished, draining, main, worker, registry,
                  request, late>>
  BY Zenon DEF onAccepted
<1>3. CASE /\ conn' = [conn EXCEPT ![c] = "dropped"]
           /\ listening' \in BOOLEAN /\ nextWorker' \in Workers
           /\ UNCHANGED <<handoffs, home>>
  <2>1. /\ conn' \in [Conns -> ConnStates]
        /\ \A b \in Conns : /\ conn'[b] = "handed" <=> conn[b] = "handed"
                            /\ conn'[b] \in Open => conn[b] \in Open
    BY Zenon, <1>1, <1>3 DEF TypeOK, ConnStates, Open
  <2>2. Queued'
    BY <1>1, <1>2, <1>3, <2>1 DEF Queued, TypeOK
  <2> QED BY Zenon, <1>1, <1>2, <1>3, <2>1, <2>2, HandOff_Inv DEF TypeOK
<1>4. CASE /\ worker[nextWorker].pc = "poll"
           /\ conn' = [conn EXCEPT ![c] = "handed"]
           /\ home' = [home EXCEPT ![c] = nextWorker]
           /\ handoffs' = [handoffs EXCEPT ![nextWorker] = Append(@, c)]
           /\ nextWorker' = InTurn
           /\ UNCHANGED listening
  <2> DEFINE n == nextWorker
             q == handoffs[n]
  <2>1. n \in Workers /\ q \in Seq(Conns) /\ Len(q) \in Nat
    BY <1>1 DEF TypeOK
  <2>2. /\ handoffs' \in [Workers -> Seq(Conns)]
        /\ handoffs'[n] = Append(q, c)
        /\ \A v \in Workers : v # n => handoffs'[v] = handoffs[v]
    BY <1>1, <1>4, <2>1 DEF TypeOK
  <2>3. /\ Len(Append(q, c)) = Len(q) + 1 /\ Append(q, c)[Len(q) + 1] = c
        /\ \A i \in 1 .. Len(q) : Append(q, c)[i] = q[i]
    BY <2>1
  <2>4. /\ conn' \in [Conns -> ConnStates] /\ home' \in [Conns -> Workers]
        /\ conn'[c] = "handed" /\ home'[c] = n
        /\ \A b \in Conns : b # c => conn'[b] = conn[b] /\ home'[b] = home[b]
    BY Zenon, <1>1, <1>4, <2>1 DEF TypeOK, ConnStates
  <2>5. \A v \in Workers : \A i \in 1 .. Len(handoffs[v]) :
          handoffs[v][i] \in Conns /\ handoffs[v][i] # c
    BY <1>1 DEF Queued, TypeOK
  <2>6. worker[n].pc = "poll"
    BY Zenon, <1>4
  <2> HIDE DEF n, q
  <2>7. Queued'
    <3>1. ASSUME NEW v \in Workers, NEW i \in 1 .. Len(handoffs'[v])
          PROVE  conn'[handoffs'[v][i]] = "handed" /\ home'[handoffs'[v][i]] = v
      <4>1. CASE v = n /\ i = Len(q) + 1
        BY Zenon, <2>2, <2>3, <2>4, <4>1
      <4>2. CASE ~(v = n /\ i = Len(q) + 1)
        <5>1. i \in 1 .. Len(handoffs[v]) /\ handoffs'[v][i] = handoffs[v][i]
          BY <2>1, <2>2, <2>3, <4>2 DEF q
        <5> QED BY <1>1, <2>4, <2>5, <5>1 DEF Queued
      <4> QED BY Zenon, <4>1, <4>2
    <3>2. ASSUME NEW v \in Workers, NEW i \in 1 .. Len(handoffs'[v]),
                 NEW j \in 1 .. Len(handoffs'[v]), handoffs'[v][i] = handoffs'[v][j]
          PROVE  i = j
      <4>1. CASE v # n
        BY <1>1, <2>2, <3>2, <4>1 DEF Queued
      <4>2. CASE v = n
        <5>1. /\ i \in 1 .. Len(q) + 1 /\ j \in 1 .. Len(q) + 1
              /\ Append(q, c)[i] = Append(q, c)[j]
          BY Zenon, <2>2, <2>3, <3>2, <4>2
        <5>2. \A k \in 1 .. Len(q) : Append(q, c)[k] # c
          BY Zenon, <2>1, <2>3, <2>5 DEF q
        <5>3. \A k, m \in 1 .. Len(q) : q[k] = q[m] => k = m
          BY Zenon, <1>1, <2>1 DEF Queued, q
        <5> QED BY <2>1, <2>3, <5>1, <5>2, <5>3
      <4> QED BY Zenon, <4>1, <4>2
    <3>3. ASSUME NEW b \in Conns, conn'[b] = "handed"
          PROVE  \E i \in 1 .. Len(handoffs'[home'[b]]) : handoffs'[home'[b]][i] = b
      <4>1. CASE b = c
        <5>1. Len(q) + 1 \in 1 .. Len(handoffs'[home'[b]])
              /\ handoffs'[home'[b]][Len(q) + 1] = b
          BY <2>1, <2>2, <2>3, <2>4, <4>1
        <5> QED BY Zenon, <5>1
      <4>2. CASE b # c
        <5>1. home'[b] = home[b] /\ home[b] \in Workers /\ conn[b] = "handed"
          BY Zenon, <1>1, <2>4, <3>3, <4>2 DEF TypeOK
        <5>2. PICK i \in 1 .. Len(handoffs[home[b]]) : handoffs[home[b]][i] = b
          BY Zenon, <1>1, <5>1 DEF Queued
        <5>3. CASE home[b] # n
          BY Zenon, <2>2, <5>1, <5>2, <5>3
        <5>4. CASE home[b] = n
          <6>1. i \in 1 .. Len(q) /\ q[i] = b
            BY Zenon, <5>2, <5>4 DEF q
          <6>2. i \in 1 .. Len(Append(q, c)) /\ Append(q, c)[i] = b
            BY <2>1, <2>3, <6>1
          <6> QED BY Zenon, <2>2, <5>1, <5>4, <6>2
        <5> QED BY Zenon, <5>3, <5>4
      <4> QED BY Zenon, <4>1, <4>2
    <3>4. \A v \in Workers : worker'[v].pc # "poll" => handoffs'[v] = << >>
      BY Zenon, <1>1, <1>2, <2>2, <2>6 DEF Queued
    <3> QED BY Zenon, <3>1, <3>2, <3>3, <3>4 DEF Queued
  <2>8. \A b \in Conns : conn'[b] \in Open => home'[b] = home[b] /\ conn[b] \in Open
    BY Zenon, <2>4 DEF Open
  <2> QED BY Zenon, <1>1, <1>2, <1>4, <2>2, <2>4, <2>7, <2>8, InTurnType, HandOff_Inv DEF TypeOK
<1> QED BY Zenon, <1>1, <1>3, <1>4, InTurnType DEF onAccepted, TypeOK

(* adoptConnection takes the first connection of the worker's queue.        *)
LEMMA Adopt_Inv ==
  ASSUME Inv, NEW w \in Workers, adoptConnection(w)
  PROVE  Inv'
<1> DEFINE q == handoffs[w]
           c == Head(q)
           t == Tail(q)
<1>1. TypeOK /\ Queued
  BY Zenon DEF Inv
<1>2. /\ Polls(w) /\ q # << >> /\ handoffs' = [handoffs EXCEPT ![w] = t]
      /\ UNCHANGED <<serverVars, main, worker, registry, request, late, home>>
  BY Zenon DEF adoptConnection
<1>3. PICK next \in {"idle", "dropped"} : /\ conn' = [conn EXCEPT ![c] = next]
                                          /\ next = "idle" => ~registry[w].draining
  BY Zenon DEF adoptConnection
<1>4. q \in Seq(Conns) /\ Len(q) \in Nat /\ Len(q) > 0 /\ c = q[1] /\ c \in Conns
  BY <1>1, <1>2 DEF TypeOK
<1>5. /\ t \in Seq(Conns) /\ Len(t) = Len(q) - 1
      /\ \A i \in 1 .. Len(q) - 1 : t[i] = q[i + 1]
  BY <1>4
<1> HIDE DEF t
<1>6. /\ handoffs' \in [Workers -> Seq(Conns)] /\ handoffs'[w] = t
      /\ \A v \in Workers : v # w => handoffs'[v] = handoffs[v]
  BY Zenon, <1>1, <1>2, <1>5 DEF TypeOK
<1>7. conn[c] = "handed" /\ home[c] = w
  BY <1>1, <1>4 DEF Queued
<1>8. /\ conn' \in [Conns -> ConnStates] /\ conn'[c] = next
      /\ \A b \in Conns : b # c => conn'[b] = conn[b]
  BY Zenon, <1>1, <1>3, <1>4 DEF TypeOK, ConnStates
<1>9. worker[w].pc = "poll"
  BY Zenon, <1>2 DEF Polls
<1>10. \A i, j \in 1 .. Len(q) : q[i] = q[j] => i = j
  BY Zenon, <1>1 DEF Queued
<1>11. \A v \in Workers : \A i \in 1 .. Len(handoffs[v]) :
         handoffs[v][i] \in Conns /\ conn[handoffs[v][i]] = "handed" /\ home[handoffs[v][i]] = v
  BY <1>1 DEF Queued, TypeOK
<1>12. \A i \in 1 .. Len(q) : q[i] \in Conns /\ conn[q[i]] = "handed" /\ home[q[i]] = w
  BY Zenon, <1>11
<1> HIDE DEF c, q
<1>13. Queued'
  <2>1. ASSUME NEW v \in Workers, NEW i \in 1 .. Len(handoffs'[v])
        PROVE  conn'[handoffs'[v][i]] = "handed" /\ home[handoffs'[v][i]] = v
    <3>1. CASE v # w
      BY <1>6, <1>7, <1>8, <1>11, <3>1
    <3>2. CASE v = w
      <4>1. i + 1 \in 1 .. Len(q) /\ 1 \in 1 .. Len(q) /\ handoffs'[v][i] = q[i + 1]
        BY <1>4, <1>5, <1>6, <3>2
      <4>2. q[i + 1] # c
        BY <1>4, <1>10, <4>1
      <4> QED BY ZenonT(30), <1>8, <1>12, <3>2, <4>1, <4>2
    <3> QED BY Zenon, <3>1, <3>2
  <2>2. ASSUME NEW v \in Workers, NEW i \in 1 .. Len(handoffs'[v]),
               NEW j \in 1 .. Len(handoffs'[v]), handoffs'[v][i] = handoffs'[v][j]
        PROVE  i = j
    <3>1. CASE v # w
      BY <1>1, <1>6, <2>2, <3>1 DEF Queued
    <3>2. CASE v = w
      <4>1. /\ i + 1 \in 1 .. Len(q) /\ j + 1 \in 1 .. Len(q) /\ q[i + 1] = q[j + 1]
        BY <1>4, <1>5, <1>6, <2>2, <3>2
      <4> QED BY <1>10, <4>1
    <3> QED BY Zenon, <3>1, <3>2
  <2>3. ASSUME NEW b \in Conns, conn'[b] = "handed"
        PROVE  \E i \in 1 .. Len(handoffs'[home[b]]) : handoffs'[home[b]][i] = b
    <3>1. b # c /\ conn[b] = "handed" /\ home[b] \in Workers
      BY Zenon, <1>1, <1>3, <1>8, <2>3 DEF TypeOK
    <3>2. PICK i \in 1 .. Len(handoffs[home[b]]) : handoffs[home[b]][i] = b
      BY Zenon, <1>1, <3>1 DEF Queued
    <3>3. CASE home[b] # w
      BY Zenon, <1>6, <3>1, <3>2, <3>3
    <3>4. CASE home[b] = w
      <4>1. i \in 2 .. Len(q)
        BY <1>4, <3>1, <3>2, <3>4 DEF q
      <4>2. i - 1 \in 1 .. Len(handoffs'[home[b]]) /\ handoffs'[home[b]][i - 1] = b
        BY <1>4, <1>5, <1>6, <3>2, <3>4, <4>1 DEF q
      <4> QED BY Zenon, <4>2
    <3> QED BY Zenon, <3>3, <3>4
  <2>4. \A v \in Workers : worker[v].pc # "poll" => handoffs'[v] = << >>
    BY Zenon, <1>1, <1>6, <1>9 DEF Queued
  <2>5. home' = home /\ worker' = worker
    BY Zenon, <1>2
  <2> QED BY <2>1, <2>2, <2>3, <2>4, <2>5 DEF Queued
<1>14. \A b \in Conns : conn'[b] \in Open =>
         conn[b] \in Open \/ (worker[home[b]].pc = "poll" /\ ~registry[home[b]].draining)
  BY Zenon, <1>3, <1>7, <1>8, <1>9 DEF Open
<1> QED BY Zenon, <1>1, <1>2, <1>6, <1>8, <1>13, <1>14, HandOff_Inv DEF TypeOK, serverVars

-----------------------------------------------------------------------------
(* The end of a worker.                                                     *)

(* A worker's loop ends when its tasks have run, or fails and releases      *)
(* them: either way nothing is left in its queue.                           *)
LEMMA LoopOver_Inv ==
  ASSUME Inv, NEW w \in Workers, WorkerLoopEnds(w) \/ WorkerLoopFails(w)
  PROVE  Inv'
<1> DEFINE how   == IF WorkerLoopEnds(w) THEN "stopped" ELSE "failed"
           never == FALSE
           l == [[[[worker[w] EXCEPT !.loop = how] EXCEPT !.pc = "ended"] EXCEPT !.control = "None"]
                  EXCEPT !.pending = never]
<1>1. TypeOK /\ Queued /\ Served /\ Places /\ Asked /\ Reasons /\ Recorded
      /\ worker \in [Workers -> WorkerSet] /\ worker[w] \in WorkerSet
  BY Zenon, Typed DEF Inv
<1>2. worker' = [worker EXCEPT ![w] = l]
  BY Zenon DEF WorkerLoopEnds, WorkerLoopFails, Over
<1>3. /\ Polls(w) /\ worker[w].pc = "poll"
      /\ UNCHANGED <<serverVars, main, registry, request, late, home>>
  BY Zenon DEF WorkerLoopEnds, WorkerLoopFails, Polls, connVars
<1>4. how \in {"stopped", "failed"} /\ (how = "stopped" => worker[w].loop = "stopping")
  BY Zenon DEF WorkerLoopEnds
<1>5. never \in BOOLEAN /\ (never => FALSE)
  OBVIOUS
<1>6. \/ handoffs[w] = << >> /\ UNCHANGED <<handoffs, conn>>
      \/ /\ conn' = [c \in Conns |-> IF conn[c] = "handed" /\ home[c] = w THEN "dropped" ELSE conn[c]]
         /\ handoffs' = [handoffs EXCEPT ![w] = << >>]
  BY Zenon DEF WorkerLoopEnds, WorkerLoopFails, TasksRun, connVars
<1> HIDE DEF how, never
<1>7. l \in WorkerSet /\ l.loop = how /\ l.pc = "ended" /\ l.control = "None" /\ l.pending = never
  BY Zenon, <1>1, <1>4, <1>5 DEF WorkerSet, WorkerPlaces, Loops, Controls
<1> HIDE DEF l
<1>8. worker' \in [Workers -> WorkerSet] /\ worker'[w] = l
      /\ \A v \in Workers : v # w => worker'[v] = worker[v]
  BY Zenon, <1>1, <1>2, <1>7
<1>9. /\ handoffs' \in [Workers -> Seq(Conns)] /\ handoffs'[w] = << >>
      /\ \A v \in Workers : v # w => handoffs'[v] = handoffs[v]
  <2>1. handoffs \in [Workers -> Seq(Conns)] /\ << >> \in Seq(Conns)
    BY <1>1 DEF TypeOK
  <2>2. CASE handoffs' = handoffs /\ handoffs[w] = << >>
    BY Zenon, <2>1, <2>2
  <2>3. CASE handoffs' = [handoffs EXCEPT ![w] = << >>]
    BY Zenon, <2>1, <2>3
  <2> QED BY Zenon, <1>6, <2>2, <2>3
<1>10. /\ conn' \in [Conns -> ConnStates]
       /\ \A c \in Conns : \/ conn'[c] = conn[c] /\ ~(conn[c] = "handed" /\ home[c] = w)
                           \/ conn[c] = "handed" /\ home[c] = w /\ conn'[c] = "dropped"
  <2>1. CASE handoffs[w] = << >> /\ UNCHANGED <<handoffs, conn>>
    <3>1. \A c \in Conns : ~(conn[c] = "handed" /\ home[c] = w)
      BY <1>1, <2>1 DEF Queued
    <3> QED BY Zenon, <1>1, <2>1, <3>1 DEF TypeOK, ConnStates
  <2>2. CASE conn' = [c \in Conns |-> IF conn[c] = "handed" /\ home[c] = w THEN "dropped" ELSE conn[c]]
    BY Zenon, <1>1, <2>2 DEF TypeOK, ConnStates
  <2> QED BY Zenon, <1>6, <2>1, <2>2
<1>11. TypeOK'
  BY <1>1, <1>3, <1>8, <1>9, <1>10 DEF TypeOK, serverVars, WorkerSet, WorkerPlaces, ConnStates
<1>12. Queued'
  <2>1. ASSUME NEW v \in Workers, NEW i \in 1 .. Len(handoffs'[v])
        PROVE  conn'[handoffs'[v][i]] = "handed" /\ home'[handoffs'[v][i]] = v
    <3>1. v # w
      BY <1>9, <2>1
    <3> QED BY SMTT(30), <1>1, <1>3, <1>9, <1>10, <3>1 DEF Queued, TypeOK
  <2>2. \A v \in Workers : \A i, j \in 1 .. Len(handoffs'[v]) :
          handoffs'[v][i] = handoffs'[v][j] => i = j
    BY <1>1, <1>9 DEF Queued
  <2>3. ASSUME NEW c \in Conns, conn'[c] = "handed"
        PROVE  \E i \in 1 .. Len(handoffs'[home'[c]]) : handoffs'[home'[c]][i] = c
    <3>1. conn[c] = "handed" /\ home[c] # w /\ home[c] \in Workers /\ home' = home
      BY Zenon, <1>1, <1>3, <1>10, <2>3 DEF TypeOK
    <3> QED BY SMTT(30), <1>1, <1>9, <3>1 DEF Queued
  <2>4. \A v \in Workers : worker'[v].pc # "poll" => handoffs'[v] = << >>
    BY Zenon, <1>1, <1>8, <1>9 DEF Queued
  <2> QED BY Zenon, <2>1, <2>2, <2>3, <2>4 DEF Queued
<1>13. Served'
  BY ZenonT(30), <1>1, <1>3, <1>7, <1>8, <1>10 DEF Served, TypeOK, Open
<1>14. Places'
  <2>1. Finished' = Finished
    BY Zenon, <1>3, <1>7, <1>8 DEF Finished
  <2>2. \A v \in Workers : worker'[v].pc = "poll" <=> Running(worker'[v].loop)
    BY Zenon, <1>1, <1>4, <1>7, <1>8 DEF Places, Running
  <2>3. main.pc # "returned"
    BY Zenon, <1>1, <1>3 DEF Places
  <2>4. main' = main /\ workersFinished' = workersFinished
    BY Zenon, <1>3 DEF serverVars
  <2> QED BY Zenon, <1>1, <2>1, <2>2, <2>3, <2>4 DEF Places
<1>15. Asked'
  BY Zenon, <1>1, <1>3, <1>5, <1>7, <1>8 DEF Asked, serverVars
<1>16. Failed => Failed'
  BY Zenon, <1>1, <1>3, <1>8 DEF Failed, Polls, Running
<1>17. Reasons'
  <2> SUFFICES ASSUME NEW v \in Workers, worker'[v].loop \in {"stopping", "stopped"}
               PROVE  /\ stopping' \/ Failed'
                      /\ \/ Failed' \/ main'.loop # "running" \/ worker'[v].pc \in {"notify", "done"}
                         \/ /\ registry'[v].draining
                            /\ \A c \in Conns : home'[c] = v => conn'[c] \notin Open
    BY Zenon DEF Reasons
  <2>1. worker[v].loop \in {"stopping", "stopped"}
    BY Zenon, <1>4, <1>7, <1>8
  <2>2. worker[v].pc \in {"notify", "done"} => worker'[v].pc \in {"notify", "done"}
    BY Zenon, <1>3, <1>8
  <2>3. \A c \in Conns : conn'[c] \in Open => conn[c] \in Open
    BY Zenon, <1>10 DEF Open
  <2>4. stopping' = stopping /\ main' = main /\ registry' = registry /\ home' = home
    BY Zenon, <1>3 DEF serverVars
  <2> QED BY Zenon, <1>1, <1>16, <2>1, <2>2, <2>3, <2>4 DEF Reasons
<1>18. Recorded'
  BY Zenon, <1>1, <1>3, <1>7, <1>8, <1>16 DEF Recorded, serverVars
<1> QED BY Zenon, <1>11, <1>12, <1>13, <1>14, <1>15, <1>17, <1>18 DEF Inv

(* A worker that is over moves to its next place; its loop, control and     *)
(* wake-up stay, and nothing else about the workers changes.                *)
LEMMA PlaceSet ==
  ASSUME Inv, NEW w \in Workers, NEW a \in WorkerPlaces, worker' = [worker EXCEPT ![w].pc = a]
  PROVE  /\ worker' \in [Workers -> WorkerSet] /\ worker'[w].pc = a
         /\ \A v \in Workers : /\ worker'[v].loop = worker[v].loop
                               /\ worker'[v].control = worker[v].control
                               /\ worker'[v].pending = worker[v].pending
                               /\ v # w => worker'[v].pc = worker[v].pc
<1>1. worker \in [Workers -> WorkerSet]
  BY Zenon, Typed
<1> QED BY Zenon, <1>1 DEF WorkerSet

(* cleanupWorkerRegistry: a worker that ended before anybody asked for it   *)
(* was stopped because another one failed, so what is recorded is true.     *)
LEMMA CleanupRegistry_Inv ==
  ASSUME Inv, NEW w \in Workers, cleanupWorkerRegistry(w)
  PROVE  Inv'
<1>1. TypeOK /\ Queued /\ Served /\ Places /\ Asked /\ Reasons /\ Recorded /\ main \in MainSet
      /\ worker \in [Workers -> WorkerSet]
  BY Zenon, Typed DEF Inv
<1>2. /\ worker[w].pc = "cleanup" /\ worker' = [worker EXCEPT ![w].pc = "reset"]
      /\ stopping' /\ stopping' \in BOOLEAN
      /\ UNCHANGED <<workersFinished, draining, listening, nextWorker, registry, handoffs, request,
                     late, connVars>>
  BY Zenon DEF cleanupWorkerRegistry
<1>3. /\ workerFailed' \in BOOLEAN /\ (workerFailed' <=> workerFailed \/ Unexpected(w))
  BY Zenon, <1>1 DEF cleanupWorkerRegistry, TypeOK
<1>4. "Force" \in Controls \ {"None"} /\ "reset" \in WorkerPlaces
  BY Zenon DEF Controls, WorkerPlaces
<1>5. main' = main \/ main' = Told(main, "Force")
  BY Zenon DEF cleanupWorkerRegistry
<1>6. /\ main' \in MainSet /\ main'.loop = main.loop /\ main'.pc = main.pc /\ main'.at = main.at
      /\ main.control # "None" => main'.control # "None"
  BY <1>1, <1>4, <1>5, ToldMain
<1>7. /\ worker' \in [Workers -> WorkerSet] /\ worker'[w].pc = "reset"
      /\ \A v \in Workers : /\ worker'[v].loop = worker[v].loop
                            /\ worker'[v].control = worker[v].control
                            /\ worker'[v].pending = worker[v].pending
                            /\ v # w => worker'[v].pc = worker[v].pc
  BY Zenon, <1>2, <1>4, PlaceSet
<1>8. Failed' <=> Failed
  BY Zenon, <1>7 DEF Failed
<1>9. TypeOK'
  BY ZenonT(30), <1>1, <1>2, <1>3, <1>6, <1>7
  DEF TypeOK, connVars, MainSet, MainPlaces, WorkerSet, WorkerPlaces
<1>10. Queued' /\ Served'
  BY <1>1, <1>2, <1>7 DEF Queued, Served, TypeOK, connVars
<1>11. Places'
  <2>1. Finished' = Finished
    BY Zenon, <1>2, <1>7 DEF Finished
  <2>2. \A v \in Workers : worker'[v].pc = "poll" <=> Running(worker'[v].loop)
    BY Zenon, <1>1, <1>2, <1>7 DEF Places
  <2>3. main.pc # "returned" /\ workersFinished' = workersFinished
    BY Zenon, <1>1, <1>2 DEF Places
  <2> QED BY Zenon, <1>1, <1>6, <2>1, <2>2, <2>3 DEF Places
<1>12. Asked'
  BY ZenonT(30), <1>1, <1>2, <1>6, <1>7 DEF Asked
<1>13. Reasons'
  BY <1>1, <1>2, <1>6, <1>7, <1>8 DEF Reasons, connVars
<1>14. Unexpected(w) => Failed
  <2>1. worker[w].loop \in {"stopped", "failed"}
    BY Zenon, <1>1, <1>2 DEF Places, Running, WorkerSet, Loops
  <2> QED BY Zenon, <1>1, <2>1 DEF Unexpected, Reasons, Failed
<1>15. worker[w].loop = "failed" => workerFailed'
  BY Zenon, <1>3 DEF Unexpected
<1>16. Recorded'
  BY Zenon, <1>1, <1>3, <1>7, <1>8, <1>14, <1>15 DEF Recorded
<1> QED BY Zenon, <1>9, <1>10, <1>11, <1>12, <1>13, <1>16 DEF Inv

(* How many workers there are, and how many at most have been counted.      *)
LEMMA WorkerCount ==
  /\ IsFiniteSet(Workers) /\ Cardinality(Workers) = N
  /\ \A S \in SUBSET Workers : IsFiniteSet(S) /\ Cardinality(S) \in 0 .. N
<1>1. IsFiniteSet(Workers) /\ Cardinality(Workers) = N
  BY FS_Interval, ServerAssumption DEF Workers
<1>2. ASSUME NEW S \in SUBSET Workers
      PROVE  IsFiniteSet(S) /\ Cardinality(S) \in 0 .. N
  <2>1. IsFiniteSet(S) /\ Cardinality(S) <= Cardinality(Workers)
    BY Zenon, <1>1, FS_Subset
  <2>2. Cardinality(S) \in Nat
    BY Zenon, <2>1, FS_CardinalityType
  <2> QED BY <1>1, <2>1, <2>2, ServerAssumption
<1> QED BY Zenon, <1>1, <1>2

(* ResetRegistry: the connections go with the registry, and the worker is   *)
(* counted once.                                                            *)
LEMMA ResetRegistry_Inv ==
  ASSUME Inv, NEW w \in Workers, ResetRegistry(w)
  PROVE  Inv'
<1> DEFINE reg == NewRegistry
<1>1. TypeOK /\ Queued /\ Served /\ Places /\ Asked /\ Reasons /\ Recorded
  BY Zenon DEF Inv
<1>2. /\ worker[w].pc = "reset" /\ worker' = [worker EXCEPT ![w].pc = "notify"]
      /\ conn' = [c \in Conns |-> IF c \notin Mine(w) THEN conn[c]
                                  ELSE IF conn[c] = "writing" THEN "cut" ELSE "closed"]
      /\ workersFinished' = workersFinished + 1
      /\ registry' = [registry EXCEPT ![w] = reg]
      /\ UNCHANGED <<stopping, workerFailed, draining, listening, nextWorker, main, handoffs,
                     request, late, home>>
  BY Zenon DEF ResetRegistry
<1>3. reg \in [draining : BOOLEAN, notified : BOOLEAN] /\ ~reg.draining
  BY Zenon DEF NewRegistry
<1> HIDE DEF reg
<1>4. "notify" \in WorkerPlaces
  BY Zenon DEF WorkerPlaces
<1>5. /\ worker' \in [Workers -> WorkerSet] /\ worker'[w].pc = "notify"
      /\ \A v \in Workers : /\ worker'[v].loop = worker[v].loop
                            /\ worker'[v].control = worker[v].control
                            /\ worker'[v].pending = worker[v].pending
                            /\ v # w => worker'[v].pc = worker[v].pc
  BY Zenon, <1>2, <1>4, PlaceSet
<1>6. Failed' <=> Failed
  BY Zenon, <1>5 DEF Failed
<1>7. /\ registry' \in [Workers -> [draining : BOOLEAN, notified : BOOLEAN]]
      /\ ~registry'[w].draining
      /\ \A v \in Workers : v # w => registry'[v] = registry[v]
  BY Zenon, <1>1, <1>2, <1>3 DEF TypeOK
<1>8. /\ conn' \in [Conns -> ConnStates]
      /\ \A c \in Conns : /\ conn'[c] = "handed" <=> conn[c] = "handed"
                          /\ conn'[c] \in Open => conn[c] \in Open /\ home[c] # w
  BY Zenon, <1>1, <1>2 DEF TypeOK, ConnStates, Open, Mine
<1>9. workersFinished' = Cardinality(Finished') /\ workersFinished' \in 0 .. N
  <2>1. Finished' = Finished \cup {w} /\ w \notin Finished
    BY Zenon, <1>2, <1>5 DEF Finished
  <2>2. Finished \in SUBSET Workers /\ Finished' \in SUBSET Workers
    BY Zenon DEF Finished
  <2>3. Cardinality(Finished') = Cardinality(Finished) + 1
    BY Zenon, <2>1, <2>2, WorkerCount, FS_AddElement
  <2> QED BY Zenon, <1>1, <1>2, <2>2, <2>3, WorkerCount DEF Places
<1>10. TypeOK'
  BY <1>1, <1>2, <1>5, <1>7, <1>8, <1>9 DEF TypeOK, WorkerSet, WorkerPlaces, ConnStates
<1>11. Queued'
  BY <1>1, <1>2, <1>5, <1>8 DEF Queued, TypeOK
<1>12. Served'
  BY Zenon, <1>1, <1>2, <1>5, <1>8 DEF Served, TypeOK
<1>13. Places'
  <2>1. \A v \in Workers : worker'[v].pc = "poll" <=> Running(worker'[v].loop)
    BY Zenon, <1>1, <1>2, <1>5 DEF Places
  <2>2. main.pc # "returned" /\ main' = main
    BY Zenon, <1>1, <1>2 DEF Places
  <2> QED BY Zenon, <1>1, <1>9, <2>1, <2>2 DEF Places
<1>14. Asked'
  BY ZenonT(30), <1>1, <1>2, <1>5, <1>7 DEF Asked
<1>15. Reasons'
  <2> SUFFICES ASSUME NEW v \in Workers, worker'[v].loop \in {"stopping", "stopped"}
               PROVE  /\ stopping' \/ Failed'
                      /\ \/ Failed' \/ main'.loop # "running" \/ worker'[v].pc \in {"notify", "done"}
                         \/ /\ registry'[v].draining
                            /\ \A c \in Conns : home'[c] = v => conn'[c] \notin Open
    BY Zenon DEF Reasons
  <2>1. CASE v = w
    BY Zenon, <1>1, <1>2, <1>5, <1>6, <2>1 DEF Reasons
  <2>2. CASE v # w
    BY Zenon, <1>1, <1>2, <1>5, <1>6, <1>7, <1>8, <2>2 DEF Reasons
  <2> QED BY Zenon, <2>1, <2>2
<1>16. Recorded'
  BY ZenonT(30), <1>1, <1>2, <1>5, <1>6 DEF Recorded
<1> QED BY Zenon, <1>10, <1>11, <1>12, <1>13, <1>14, <1>15, <1>16 DEF Inv

(* notifyControl: the main loop is woken, if it still runs.                 *)
LEMMA Notify_Inv ==
  ASSUME Inv, NEW w \in Workers, notifyControl(w)
  PROVE  Inv'
<1> DEFINE always == TRUE
           woken  == [main EXCEPT !.pending = always]
<1>1. TypeOK /\ Queued /\ Served /\ Places /\ Asked /\ Reasons /\ Recorded /\ main \in MainSet
  BY Zenon, Typed DEF Inv
<1>2. /\ worker[w].pc = "notify" /\ worker' = [worker EXCEPT ![w].pc = "done"]
      /\ UNCHANGED <<serverVars, registry, handoffs, request, late, connVars>>
  BY Zenon DEF notifyControl
<1>3. main' = main \/ main' = woken
  BY Zenon DEF notifyControl, Notified
<1>4. always \in BOOLEAN /\ "done" \in WorkerPlaces
  BY Zenon DEF WorkerPlaces
<1> HIDE DEF always
<1>5. /\ woken \in MainSet /\ woken.loop = main.loop /\ woken.pc = main.pc /\ woken.at = main.at
      /\ woken.control = main.control
  BY Zenon, <1>1, <1>4 DEF MainSet
<1> HIDE DEF woken
<1>6. /\ main' \in MainSet /\ main'.loop = main.loop /\ main'.pc = main.pc /\ main'.at = main.at
      /\ main'.control = main.control
  BY Zenon, <1>1, <1>3, <1>5
<1>7. /\ worker' \in [Workers -> WorkerSet] /\ worker'[w].pc = "done"
      /\ \A v \in Workers : /\ worker'[v].loop = worker[v].loop
                            /\ worker'[v].control = worker[v].control
                            /\ worker'[v].pending = worker[v].pending
                            /\ v # w => worker'[v].pc = worker[v].pc
  BY Zenon, <1>2, <1>4, PlaceSet
<1>8. Failed' <=> Failed
  BY Zenon, <1>7 DEF Failed
<1>9. TypeOK'
  BY Zenon, <1>1, <1>2, <1>6, <1>7
  DEF TypeOK, serverVars, connVars, MainSet, MainPlaces, WorkerSet, WorkerPlaces
<1>10. Queued' /\ Served'
  BY <1>1, <1>2, <1>7 DEF Queued, Served, TypeOK, connVars
<1>11. Places'
  <2>1. Finished' = Finished
    BY Zenon, <1>2, <1>7 DEF Finished
  <2>2. \A v \in Workers : worker'[v].pc = "poll" <=> Running(worker'[v].loop)
    BY Zenon, <1>1, <1>2, <1>7 DEF Places
  <2>3. main.pc # "returned" /\ workersFinished' = workersFinished
    BY Zenon, <1>1, <1>2 DEF Places, serverVars
  <2> QED BY Zenon, <1>1, <1>6, <2>1, <2>2, <2>3 DEF Places
<1>12. Asked'
  BY ZenonT(30), <1>1, <1>2, <1>6, <1>7 DEF Asked, serverVars
<1>13. Reasons'
  BY <1>1, <1>2, <1>6, <1>7, <1>8 DEF Reasons, serverVars, connVars
<1>14. Recorded'
  BY ZenonT(30), <1>1, <1>2, <1>7, <1>8 DEF Recorded, serverVars
<1> QED BY Zenon, <1>9, <1>10, <1>11, <1>12, <1>13, <1>14 DEF Inv

-----------------------------------------------------------------------------
(* The theorems.                                                            *)

(* The invariant holds of a server that has just been started.              *)
LEMMA Init_Inv == Init => Inv
<1> SUFFICES ASSUME Init PROVE Inv
  OBVIOUS
<1> DEFINE never == FALSE
           reg == NewRegistry
           l == [loop |-> "running", control |-> "None", pending |-> never, pc |-> "poll"]
           m == [loop |-> "running", control |-> "None", pending |-> never, pc |-> "poll", at |-> 0]
<1>1. /\ ~stopping /\ stopping \in BOOLEAN /\ ~workerFailed /\ workerFailed \in BOOLEAN
      /\ ~draining /\ draining \in BOOLEAN /\ listening \in BOOLEAN /\ late \in BOOLEAN
      /\ workersFinished = 0 /\ nextWorker = 1 /\ request = "None"
  BY Zenon DEF Init
<1>2. /\ main = m /\ worker = [w \in Workers |-> l] /\ registry = [w \in Workers |-> reg]
      /\ handoffs = [w \in Workers |-> << >>]
      /\ conn = [c \in Conns |-> "new"] /\ home = [c \in Conns |-> 1]
  BY Zenon DEF Init
<1>3. reg \in [draining : BOOLEAN, notified : BOOLEAN] /\ ~reg.draining
  BY Zenon DEF NewRegistry
<1>4. never \in BOOLEAN /\ ~never
  OBVIOUS
<1> HIDE DEF never, reg
<1>5. /\ l \in WorkerSet /\ l.loop = "running" /\ l.control = "None" /\ l.pending = never
      /\ l.pc = "poll"
  BY Zenon, <1>4 DEF WorkerSet, WorkerPlaces, Loops, Controls
<1>6. /\ m \in MainSet /\ m.loop = "running" /\ m.control = "None" /\ m.pc = "poll"
  BY <1>4, ServerAssumption DEF MainSet, MainPlaces, Loops, Controls
<1> HIDE DEF l, m
<1>7. \A w \in Workers : worker[w] = l /\ registry[w] = reg /\ handoffs[w] = << >>
  BY Zenon, <1>2
<1>8. \A c \in Conns : conn[c] = "new" /\ home[c] = 1
  BY Zenon, <1>2
<1>9. 1 \in Workers /\ 0 \in 0 .. N
  BY ServerAssumption DEF Workers
<1>10. TypeOK
  <2>1. main \in MainSet /\ worker \in [Workers -> WorkerSet]
        /\ registry \in [Workers -> [draining : BOOLEAN, notified : BOOLEAN]]
    BY Zenon, <1>2, <1>3, <1>5, <1>6
  <2>2. handoffs \in [Workers -> Seq(Conns)]
    BY <1>2
  <2>3. /\ conn \in [Conns -> ConnStates] /\ home \in [Conns -> Workers]
    BY Zenon, <1>2, <1>9 DEF ConnStates
  <2> QED BY Zenon, <1>1, <1>9, <2>1, <2>2, <2>3
          DEF TypeOK, MainSet, MainPlaces, WorkerSet, WorkerPlaces, ConnStates
<1>11. Queued
  BY <1>7, <1>8 DEF Queued
<1>12. Served
  BY Zenon, <1>8 DEF Served, Open
<1>13. Places
  <2>1. Finished = {}
    BY Zenon, <1>5, <1>7 DEF Finished
  <2>2. Cardinality(Finished) = 0
    BY Zenon, <2>1, FS_EmptySet
  <2> QED BY Zenon, <1>1, <1>2, <1>5, <1>6, <1>7, <2>2 DEF Places, Running
<1>14. Asked
  BY Zenon, <1>1, <1>2, <1>3, <1>4, <1>5, <1>6, <1>7 DEF Asked
<1>15. Reasons /\ Recorded
  BY Zenon, <1>1, <1>5, <1>7 DEF Reasons, Recorded
<1> QED BY Zenon, <1>10, <1>11, <1>12, <1>13, <1>14, <1>15 DEF Inv

(* Every step preserves the invariant.                                      *)
LEMMA Next_Inv == Inv /\ [Next]_vars => Inv'
<1> SUFFICES ASSUME Inv, [Next]_vars PROVE Inv'
  OBVIOUS
<1>1. CASE UNCHANGED vars
  <2>1. UNCHANGED <<serverVars, main, worker, registry, handoffs, request, late, connVars>>
    BY Zenon, <1>1 DEF vars
  <2>2. TypeOK /\ Asked /\ Places /\ main \in MainSet
    BY Zenon, Typed DEF Inv
  <2> QED BY Zenon, <2>1, <2>2, MainMoves DEF TypeOK, Asked, Places, serverVars
<1>2. CASE RequestStep \/ DeadlinePasses \/ \E kind \in {"Drain", "Force", "Stop"} : BeginRequest(kind)
  BY Zenon, <1>2, RequestStep_Inv
<1>3. CASE MainStep \/ MainLoopFails
  BY Zenon, <1>3, OnControl_Inv, TellWorker_Inv, MainEnds_Inv, Shutdown_Inv DEF MainStep
<1>4. ASSUME NEW w \in Workers, WorkerStep(w) \/ WorkerLoopFails(w)
      PROVE  Inv'
  BY Zenon, <1>4, Drain_Inv, Adopt_Inv, LoopOver_Inv, CleanupWorker_Inv, CleanupRegistry_Inv,
     ResetRegistry_Inv, Notify_Inv DEF WorkerStep
<1>5. ASSUME NEW c \in Conns, onAccepted(c) \/ Respond(c) \/ Flush(c) \/ PeerCloses(c)
      PROVE  Inv'
  BY Zenon, <1>5, OnAccepted_Inv, Conn_Inv
<1> QED BY Zenon, <1>1, <1>2, <1>3, <1>4, <1>5 DEF Next

(* The invariant says that nothing is left behind.                          *)
LEMMA Inv_NothingLeft == Inv => NothingLeft
<1> SUFFICES ASSUME Inv PROVE NothingLeft
  OBVIOUS
<1>1. TypeOK /\ Queued /\ Served /\ Places
  BY Zenon DEF Inv
<1>2. ASSUME NEW c \in Conns, conn[c] = "handed"
      PROVE  /\ worker[home[c]].pc = "poll"
             /\ Cardinality({i \in 1 .. Len(handoffs[home[c]]) : handoffs[home[c]][i] = c}) = 1
  <2>1. home[c] \in Workers
    BY Zenon, <1>1 DEF TypeOK
  <2>2. PICK k \in 1 .. Len(handoffs[home[c]]) : handoffs[home[c]][k] = c
    BY Zenon, <1>1, <1>2 DEF Queued
  <2>3. {i \in 1 .. Len(handoffs[home[c]]) : handoffs[home[c]][i] = c} = {k}
    BY <1>1, <2>1, <2>2 DEF Queued
  <2>4. handoffs[home[c]] # << >>
    BY <2>2
  <2>5. Cardinality({k}) = 1
    BY Zenon, FS_Singleton
  <2>6. worker[home[c]].pc = "poll"
    BY Zenon, <1>1, <2>1, <2>4 DEF Queued
  <2> QED BY Zenon, <2>3, <2>5, <2>6
<1>3. ASSUME main.pc = "returned"
      PROVE  workersFinished = N /\ \A c \in Conns : conn[c] \notin Held
  <2>1. \A w \in Workers : worker[w].pc = "done"
    BY Zenon, <1>1, <1>3 DEF Places
  <2>2. Finished = Workers
    BY Zenon, <2>1 DEF Finished
  <2>3. workersFinished = N
    BY Zenon, <1>1, <2>2, WorkerCount DEF Places
  <2>4. \A c \in Conns : home[c] \in Workers
    BY Zenon, <1>1 DEF TypeOK
  <2>5. \A c \in Conns : conn[c] \notin Open /\ conn[c] # "handed"
    BY Zenon, <1>1, <1>2, <2>1, <2>4 DEF Served
  <2> QED BY Zenon, <2>3, <2>5 DEF Held, Open
<1> QED BY Zenon, <1>1, <1>2, <1>3 DEF NothingLeft, Served

(* The invariant holds throughout.                                          *)
LEMMA ServerInvariant == Spec => []Inv
<1> QED BY Init_Inv, Next_Inv, PTL DEF Spec

(* However many workers there are and however their ends interleave with    *)
(* accepting, adopting, draining and failing: a handed-off connection is in *)
(* one queue, an open one has a registry, and when runTcpServer returns     *)
(* every worker has been counted and no connection is left.                 *)
THEOREM ShutdownLeavesNothing == Spec => []NothingLeft
<1> QED BY ServerInvariant, Inv_NothingLeft, PTL

(* runTcpServer reports a worker failure exactly when a worker failed: what *)
(* cleanupWorkerRegistry takes for an unplanned end always goes back to a   *)
(* failure.                                                                 *)
THEOREM FailuresAreReported == Spec => []FailureReported
<1>1. Inv => FailureReported
  <2> SUFFICES ASSUME Inv, main.pc = "returned"
               PROVE  workerFailed <=> \E w \in Workers : worker[w].loop = "failed"
    BY Zenon DEF FailureReported
  <2>1. \A w \in Workers : worker[w].pc = "done"
    BY Zenon DEF Inv, Places
  <2> QED BY Zenon, <2>1 DEF Inv, Recorded, Failed
<1> QED BY <1>1, ServerInvariant, PTL

(* A step that cuts a connection off with output pending is a force close,  *)
(* or follows a failure or the end of the main loop.                        *)
LEMMA CutHasReason ==
  ASSUME Inv, [Next]_vars, NEW c \in Conns, conn[c] = "writing", conn'[c] = "cut"
  PROVE  \/ worker'[home[c]].control = "Force"
         \/ \E w \in Workers : worker[w].loop = "failed"
         \/ main.loop # "running"
<1>1. TypeOK /\ Reasons /\ Places /\ worker \in [Workers -> WorkerSet]
  BY Zenon, Typed DEF Inv
<1>2. conn' # conn
  OBVIOUS
<1>3. /\ ~UNCHANGED vars /\ ~(RequestStep \/ DeadlinePasses) /\ ~(MainStep \/ MainLoopFails)
      /\ \A kind \in {"Drain", "Force", "Stop"} : ~BeginRequest(kind)
  BY Zenon, <1>2 DEF vars, connVars, RequestStep, requestServerGracefulShutdown,
     requestServerForceClose, requestServerStop, Tells, DeadlinePasses, BeginRequest, MainStep,
     onControl, TellWorker, CountWorkers, MainLoopEnds, MainLoopFails, shutdownTcpServer, runTcpServer
<1>4. ASSUME NEW b \in Conns, onAccepted(b) \/ Respond(b) \/ Flush(b) \/ PeerCloses(b)
      PROVE  FALSE
  <2>1. PICK next \in {"dropped", "handed", "writing", "closed", "idle"} :
          conn' = [conn EXCEPT ![b] = next]
    BY Zenon, <1>4 DEF onAccepted, Respond, Flush, PeerCloses
  <2> QED BY Zenon, <1>1, <2>1 DEF TypeOK
<1>5. ASSUME NEW w \in Workers, adoptConnection(w) \/ WorkerLoopFails(w)
      PROVE  FALSE
  <2>1. CASE WorkerLoopFails(w)
    BY Zenon, <1>1, <2>1 DEF WorkerLoopFails, TypeOK
  <2>2. CASE adoptConnection(w)
    <3>1. PICK next \in {"dropped", "idle"} : conn' = [conn EXCEPT ![Head(handoffs[w])] = next]
      BY Zenon, <2>2 DEF adoptConnection
    <3> QED BY Zenon, <1>1, <3>1 DEF TypeOK
  <2> QED BY Zenon, <1>5, <2>1, <2>2
<1>6. ASSUME NEW w \in Workers,
             \/ WorkerLoopEnds(w) \/ cleanupWorker(w) \/ cleanupWorkerRegistry(w) \/ notifyControl(w)
      PROVE  FALSE
  BY Zenon, <1>2, <1>6 DEF WorkerLoopEnds, cleanupWorker, cleanupWorkerRegistry, notifyControl, connVars
<1>7. ASSUME NEW w \in Workers, beginConnectionsDrain(w)
      PROVE  worker'[home[c]].control = "Force"
  <2> DEFINE never == FALSE
             kind == IF Expired(worker[w]) THEN "Force" ELSE worker[w].control
             closed == {b \in Mine(w) : conn[b] \in ClosedBy(kind)}
             l == [[worker[w] EXCEPT !.control = kind] EXCEPT !.pending = never]
  <2>1. /\ conn' = [b \in Conns |-> IF b \notin closed THEN conn[b]
                                    ELSE IF conn[b] = "writing" THEN "cut" ELSE "closed"]
        /\ onCleanup(w, TRUE, Mine(w) \ closed, l)
    BY Zenon, <1>7 DEF beginConnectionsDrain
  <2>2. c \in closed
    BY Zenon, <2>1
  <2>3. home[c] = w /\ kind = "Force"
    BY Zenon, <2>2 DEF Mine, ClosedBy
  <2>4. PICK next : worker' = [worker EXCEPT ![w] = [l EXCEPT !.loop = next]]
    BY Zenon, <2>1 DEF onCleanup
  <2>5. l.control = kind
    BY Zenon, <1>1 DEF WorkerSet
  <2>6. [l EXCEPT !.loop = next].control = l.control
    BY Zenon, <1>1 DEF WorkerSet
  <2> HIDE DEF l, kind, closed
  <2> QED BY Zenon, <1>1, <2>3, <2>4, <2>5, <2>6
<1>8. ASSUME NEW w \in Workers, ResetRegistry(w)
      PROVE  Failed \/ main.loop # "running"
  <2>1. worker[w].pc = "reset" /\ c \in Mine(w)
    BY Zenon, <1>8 DEF ResetRegistry
  <2>2. home[c] = w /\ conn[c] \in Open
    BY Zenon, <2>1 DEF Mine
  <2>3. worker[w].loop \in {"stopped", "failed"}
    BY Zenon, <1>1, <2>1 DEF Places, Running, WorkerSet, Loops
  <2> QED BY Zenon, <1>1, <2>1, <2>2, <2>3 DEF Reasons, Failed
<1>9. ASSUME NEW w \in Workers, WorkerStep(w)
      PROVE  beginConnectionsDrain(w) \/ ResetRegistry(w)
  BY Zenon, <1>5, <1>6, <1>9 DEF WorkerStep
<1>10. \E w \in Workers : beginConnectionsDrain(w) \/ ResetRegistry(w)
  BY Zenon, <1>3, <1>4, <1>5, <1>9 DEF Next
<1> QED BY Zenon, <1>7, <1>8, <1>10 DEF Failed

(* A graceful shutdown keeps what connections still have to write, however  *)
(* many workers drain at different speeds: only a force close of that       *)
(* worker, a failure, or the end of the main loop cuts them off.            *)
THEOREM DrainsKeepOutput == Spec => DrainKeepsOutput
<1>1. Inv /\ [Next]_vars =>
        [\A c \in Conns : conn[c] = "writing" /\ conn'[c] = "cut" =>
           \/ worker'[home[c]].control = "Force"
           \/ \E w \in Workers : worker[w].loop = "failed"
           \/ main.loop # "running"]_vars
  BY Zenon, CutHasReason
<1> QED BY <1>1, ServerInvariant, PTL DEF Spec, DrainKeepsOutput
=============================================================================
