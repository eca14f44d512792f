------------------------------ MODULE Scripts -------------------------------
(***************************************************************************)
(* One of the two scripts with the server it runs, its reader threads, the  *)
(* signals sent to it and the requests of others: what a caller may         *)
(* conclude from the way a script ends.                                     *)
(***************************************************************************)
EXTENDS OwnedServer

VARIABLE script  \* the script that runs: "verify" or "demo"

vars == <<script, ownedVars>>

Verify == INSTANCE VerifyDeployment
Demo   == INSTANCE DemoTaskApplication

Init ==
  \/ script = "verify" /\ Verify!Init
  \/ script = "demo" /\ Demo!Init

MainStep ==
  /\ \/ script = "verify" /\ Verify!MainStep
     \/ script = "demo" /\ Demo!MainStep
  /\ UNCHANGED script

interrupted ==
  /\ \/ script = "verify" /\ Verify!interrupted
     \/ script = "demo" /\ Demo!interrupted
  /\ UNCHANGED script

ReaderFails ==
  /\ \/ script = "verify" /\ \E name \in Pipes : Verify!collect(name)
     \/ script = "demo" /\ Demo!collect_output
  /\ UNCHANGED script

Reading == (\E name \in Pipes : ReaderEnds(name)) /\ UNCHANGED script

Dying == ChildDies /\ UNCHANGED script

Over == pc = "end" /\ UNCHANGED vars

Next ==
  \/ MainStep \/ interrupted \/ ReaderFails \/ Reading \/ Over
  \/ (ChildStep \/ ForeignRequest) /\ UNCHANGED script

(* Threads run, timeouts pass and a child that is killed dies.  The child   *)
(* may take as long as it likes over everything else.                       *)
Spec == Init /\ [][Next]_vars /\ WF_vars(MainStep) /\ WF_vars(Reading) /\ WF_vars(Dying)

-----------------------------------------------------------------------------
(* What must hold.                                                          *)

TypeOK ==
  /\ memory.nextId \in 1 .. MaxId /\ DOMAIN memory.tasks \subseteq 1 .. MaxId
  /\ \A id \in DOMAIN memory.tasks : memory.tasks[id] \in Inputs
  /\ foreign \in 0 .. MaxForeign
  /\ readers \in [Pipes -> {"none", "listed", "running", "done"}]
  /\ raised \in {"none", "fault", "failure", "mismatch", "cleanup", "reporting", "interrupt"}
  /\ interrupts \in 0 .. MaxInterrupts /\ torn \in BOOLEAN

LastStage == IF script = "verify" THEN Len(Verify!Plan) ELSE 2

(* A script that ends without an exception received no signal, went through *)
(* every stage, saw its last server exit in order with 0, left no thread    *)
(* and no directory behind and says so in its summary: nothing that went    *)
(* wrong on the way was swallowed by an except clause.  The summary alone   *)
(* says less: it may also say passed when a signal came after the last      *)
(* check, or its announcement failed.  Whatever happened, no server is left *)
(* running and a directory that is left behind was reported, unless a       *)
(* signal tore a cleanup apart.                                             *)
PassIsEarned ==
  /\ TypeOK
  /\ pc = "end" /\ raised = "none" =>
       /\ interrupts = 0 /\ stage = LastStage
       /\ child.life = "ended" /\ child.code = 0 /\ own.reaped /\ ~own.forced /\ ~child.killed
       /\ files.summary = "passed"
  /\ files.summary = "passed" =>
       ~files.work /\ stage = LastStage /\ raised \in {"none", "interrupt", "reporting"}
  /\ pc = "end" /\ ~torn =>
       /\ child.life \in {"none", "ended"} \/ child.killed
       /\ files.work => files.errors /\ raised # "none"

(* The cause of a failure is kept: an exception on its way is replaced by a *)
(* signal, and otherwise only where run() compares an injected fault with   *)
(* what it caught, or cleans up after a server that should not have         *)
(* started.  Cleanup and reporting never take its place.                    *)
CauseKept ==
  [][raised # "none" /\ raised' # raised =>
       \/ raised' = "interrupt"
       \/ script = "verify" /\ pc = "left" /\ stage \in 1 .. 3
       \/ script = "verify" /\ pc = "record" /\ stage \in 4 .. 5 /\ own.entered]_vars

(* Texts of up to three characters, digits and one that is none; and the    *)
(* identifier a text stands for, or 0.                                      *)
Texts == UNION {[1 .. n -> 0 .. Radix] : n \in 1 .. 3}

Denoted(text) == LET ids == {id \in 1 .. MaxId : ToString[id] = text} IN
                 IF ids = {} THEN 0 ELSE CHOOSE id \in ids : TRUE

AddressesExact == \A text \in Texts : ReadId(text) = Denoted(text)

(* What the scripts ask of tasks holds unless somebody else changed them:   *)
(* a restart forgets every task, and the identifier of a task finds it      *)
(* until it is deleted.  Even then no one can make it come back: an         *)
(* identifier is not given out again, also when they run out.  A path finds *)
(* a task exactly when it ends in the text the server prints for it.        *)
TasksAsAsked ==
  /\ AddressesExact
  /\ raised = "mismatch" /\ pc = "cleanup" => foreign > 0
  /\ pc = "missing" => onTaskResponse(memory, Request("GET", created, "none")).status = 404

(* A script ends, whatever its server does: waits are bounded, and what     *)
(* does not end by itself is killed.  Only a signal that tears a cleanup    *)
(* apart can leave it waiting for a server nobody ends.                     *)
ScriptEnds == <>(pc = "end" \/ torn)
=============================================================================
