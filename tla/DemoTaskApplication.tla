------------------------ MODULE DemoTaskApplication -------------------------
(***************************************************************************)
(* scripts/demo_task_application.py: two servers in turn.  The first one is *)
(* taken through the life of a task, the second one must start empty.  One  *)
(* thread reads stdout and stderr of the child together.                    *)
(*                                                                          *)
(* A signal raises an exception in the main thread between any two          *)
(* statements; sent from a terminal it reaches the child as well.           *)
(***************************************************************************)
EXTENDS OwnedServer

Init ==
  /\ OwnedInit /\ pc = "mkdir"
  /\ files = [artifacts |-> FALSE, work |-> FALSE, passed |-> FALSE, errors |-> FALSE, summary |-> "none"]

-----------------------------------------------------------------------------
(* demonstrate(), up to the first server.                                   *)

(* Nothing is cleaned up when the output directory cannot be made.          *)
MakeOutput ==
  /\ At("mkdir")
  /\ \/ Proceed("root") /\ files' = [files EXCEPT !.artifacts = TRUE]
     \/ Raise("failure", "exit") /\ UNCHANGED files
  /\ Quiet /\ UNCHANGED own

MakeRoot ==
  /\ At("root") /\ Try("popen", "removeRoot")
  /\ \/ files' = [files EXCEPT !.work = TRUE]
     \/ raised' = "failure" /\ UNCHANGED files
  /\ Quiet /\ UNCHANGED own

-----------------------------------------------------------------------------
(* DemoServer.__init__.                                                     *)

Popen ==
  /\ At("popen")
  /\ own' = NoProcess /\ readers' = [name \in Pipes |-> "none"]
  /\ \/ Fork("good", FALSE, FALSE) /\ Proceed("forked")
     \/ Raise("failure", "cleanup") /\ UNCHANGED <<serverVars>>
  /\ UNCHANGED <<scriptVars, files>>

KeepProcess ==
  /\ At("forked") /\ Proceed("startReader")
  /\ own' = [own EXCEPT !.process = TRUE]
  /\ Quiet /\ UNCHANGED files

(* A reader that cannot be started has no identity, and is not joined.      *)
StartReader ==
  /\ At("startReader")
  /\ \/ readers' = [readers EXCEPT !["stdout"] = "running"] /\ Proceed("awaitPort")
     \/ Raise("failure", "cleanup") /\ UNCHANGED readers
  /\ UNCHANGED <<serverVars, own, scriptVars, files>>

wait_port ==
  /\ At("awaitPort") /\ Await("listening", "constructed")
  /\ Quiet /\ UNCHANGED <<own, files>>

Enter ==
  /\ At("constructed") /\ Proceed(IF stage = 1 THEN "static" ELSE "restarted")
  /\ own' = [own EXCEPT !.entered = TRUE]
  /\ Quiet /\ UNCHANGED files

-----------------------------------------------------------------------------
(* What is done with a server.                                              *)

(* The page and the echo.                                                   *)
Static ==
  /\ At("static") /\ exchange("create")
  /\ Quiet /\ UNCHANGED <<own, files>>

(* A request about the task created before.                                 *)
AskItem(label, method, body, status, expected, next) ==
  LET request == Request(method, created, body)
      answer == Answer(request)
  IN
  /\ At(label) /\ Ask(request, answer.status = status /\ answer.body = expected, next)
  /\ UNCHANGED created /\ Asked

Same(input) == [id |-> created, input |-> input]

Crud ==
  \/ At("create") /\ AskCreate("synthetic", "get")
  \/ AskItem("get", "GET", "none", 200, Same("synthetic"), "put")
  \/ AskItem("put", "PUT", "replaced", 200, Same("replaced"), "list")
  \/ At("list") /\ AskList({Same("replaced")}, "delete")
  \/ AskItem("delete", "DELETE", "none", 200, [id |-> created, deleted |-> TRUE], "missing")
  \/ AskItem("missing", "GET", "none", 404, "task_not_found", "again")
  \/ At("again") /\ AskCreate("survivor", "listAgain")
  \/ At("listAgain") /\ AskList({Same("survivor")}, "cleanup")

Restarted == At("restarted") /\ AskList({}, "cleanup")

-----------------------------------------------------------------------------
(* cleanup().                                                               *)

(* Five seconds for an orderly end, then the child is killed.               *)
WaitTerm ==
  /\ At("waitTerm")
  /\ IF Alive THEN own' = [own EXCEPT !.forced = TRUE] /\ Proceed(Escalate) ELSE own' = Reaped /\ Proceed("join")
  /\ Quiet /\ UNCHANGED files

(* A thread that was never started is not joined; five seconds may pass.    *)
Join ==
  /\ At("join") /\ Proceed("close")
  /\ Quiet /\ UNCHANGED <<own, files>>

(* The reader uses the descriptor, and closing does not wait for it.        *)
ClosePipe ==
  /\ At("close") /\ Proceed("record")
  /\ own' = [own EXCEPT !.closed = own.process]
  /\ Quiet /\ UNCHANGED files

Clean ==
  /\ own.process => own.reaped /\ own.closed
  /\ Silent /\ ~own.errors /\ ~own.readerError

(* The record is written, which may fail.  __exit__ raises only when there  *)
(* is no other exception; the constructor always has one.                   *)
Verdict(clean) ==
  IF raised = "none" /\ ~(clean /\ child.code = 0 /\ ~own.forced) THEN "cleanup" ELSE raised

Record ==
  /\ At("record") /\ Goto("left")
  /\ \E saved \in BOOLEAN :
       own' = (IF saved THEN own ELSE Noted(own)) /\ raised' = Verdict(Clean /\ saved)
  /\ Quiet /\ UNCHANGED files

-----------------------------------------------------------------------------
(* demonstrate(), after a server, and finalize_output().                    *)

Left ==
  /\ At("left")
  /\ Proceed(IF raised # "none" THEN "removeRoot" ELSE IF stage = 1 THEN "popen" ELSE "passed")
  /\ stage' = IF raised = "none" /\ stage = 1 THEN 2 ELSE stage
  /\ own' = IF raised = "none" THEN own ELSE NoProcess
  /\ UNCHANGED <<serverVars, readers, created, interrupts, torn, files>>

Passed ==
  /\ At("passed") /\ Proceed("removeRoot")
  /\ files' = [files EXCEPT !.passed = TRUE]
  /\ Quiet /\ UNCHANGED own

RemoveRoot ==
  /\ At("removeRoot") /\ Proceed("report")
  /\ files' \in {[files EXCEPT !.work = FALSE]}
                \cup IF files.work THEN {[files EXCEPT !.errors = TRUE]} ELSE {}
  /\ Quiet /\ UNCHANGED own

Report ==
  /\ At("report") /\ Proceed("leave")
  /\ files' \in {[files EXCEPT !.summary = IF files.passed /\ ~files.errors THEN "passed" ELSE "failed"],
                 [files EXCEPT !.errors = TRUE]}
  /\ Quiet /\ UNCHANGED own

Leave ==
  /\ At("leave") /\ Goto("exit")
  /\ raised' = IF raised = "none" /\ files.errors THEN "reporting" ELSE raised
  /\ Quiet /\ UNCHANGED <<own, files>>

Exit ==
  /\ At("exit") /\ Silent /\ Proceed("end")
  /\ Quiet /\ UNCHANGED <<own, files>>

-----------------------------------------------------------------------------
(* A signal.                                                                *)

Using     == {"popen", "startReader", "awaitPort", "static", "create", "get", "put", "list", "delete",
              "missing", "again", "listAgain", "restarted"}
(* What follows when an except clause of cleanup() has caught something.    *)
Protected == [terminate |-> "waitTerm", waitTerm |-> Escalate, waitKill |-> "join", join |-> "close",
              close |-> "record"]
Finally   == [removeRoot |-> "report", report |-> "leave"]

Caught ==
  /\ \/ pc \in DOMAIN Protected /\ Goto(Protected[pc]) /\ own' = Noted(own) /\ UNCHANGED files
     \/ pc \in DOMAIN Finally /\ Goto(Finally[pc]) /\ files' = [files EXCEPT !.errors = TRUE] /\ UNCHANGED own
  /\ UNCHANGED <<raised, torn>>

(* A summary that is already marked as passed keeps the mark.               *)
Handled ==
  /\ \/ pc \in Using /\ Raise("interrupt", "cleanup")
     \/ pc \in {"root", "left", "passed"} /\ Raise("interrupt", "removeRoot")
     \/ pc \in {"mkdir", "leave", "exit"} /\ Raise("interrupt", "exit")
  /\ files' \in {files} \cup IF pc = "passed" THEN {[files EXCEPT !.passed = TRUE]} ELSE {}
  /\ UNCHANGED <<own, torn>>

(* It comes between mkdtemp() or fork and the assignment that goes with it, *)
(* between construction and use, in kill(), or between two statements of a  *)
(* cleanup; a record that is missing then ends demonstrate() at once.       *)
Tears ==
  /\ torn' = TRUE
  /\ \/ pc = "root" /\ Raise("interrupt", "removeRoot")
     \/ pc = "forked" /\ Raise("interrupt", "cleanup")
     \/ pc = "kill" /\ Proceed("waitKill")
     \/ pc = "constructed" /\ Raise("interrupt", "removeRoot")
     \/ pc \in {"cleanup", "kill", "record"} \cup DOMAIN Protected
        /\ \E next \in {"removeRoot", "exit"} : Raise("interrupt", next)
     \/ pc \in DOMAIN Finally /\ Raise("interrupt", "exit")
  /\ own' = IF raised' = "interrupt" THEN own ELSE Noted(own)
  /\ UNCHANGED files

interrupted ==
  /\ interrupts < MaxInterrupts /\ interrupts' = interrupts + 1
  /\ Caught \/ Handled \/ Tears
  /\ child' \in {child} \cup IF Server!Running THEN {[child EXCEPT !.term = TRUE]} ELSE {}
  /\ UNCHANGED <<memory, foreign, readers, stage, created>>

-----------------------------------------------------------------------------

collect_output == ReaderGivesUp("stdout", [Reaped EXCEPT !.readerError = TRUE])

MainStep ==
  \/ MakeOutput \/ MakeRoot \/ Popen \/ KeepProcess \/ StartReader \/ wait_port \/ Enter
  \/ Static \/ Crud \/ Restarted
  \/ Poll(IF ~own.process THEN "join" ELSE IF Alive THEN "terminate" ELSE "waitTerm")
  \/ Terminate \/ WaitTerm \/ Kill \/ Wait("waitKill", "join") \/ Join \/ ClosePipe \/ Record
  \/ Left \/ Passed \/ RemoveRoot \/ Report \/ Leave \/ Exit
=============================================================================
