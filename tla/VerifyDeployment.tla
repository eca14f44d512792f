-------------------------- MODULE VerifyDeployment --------------------------
(***************************************************************************)
(* scripts/verify_deployment.py: seven servers in turn, of which three are  *)
(* given up by an injected fault, two must refuse to start and two serve.   *)
(* The main thread constructs a ServerProcess, uses it and cleans it up; at *)
(* the end it restores permissions, removes its directory and reports.      *)
(*                                                                          *)
(* A signal raises an exception in the main thread between any two          *)
(* statements.  What attempt() protects records it and goes on.             *)
(***************************************************************************)
EXTENDS OwnedServer

Plan == <<"before-popen", "before-port", "after-http", "bad-config", "root-denied", "first", "second">>

kind    == Plan[stage]
Faults  == {"before-popen", "before-port", "after-http"}
Refused == {"bad-config", "root-denied"}

Init ==
  /\ OwnedInit /\ pc = "setup"
  /\ files = [artifacts |-> FALSE, work |-> FALSE, root |-> FALSE, rootOpen |-> TRUE,
              pageOpen |-> TRUE, passed |-> FALSE, errors |-> FALSE, forced |-> FALSE, summary |-> "none"]

-----------------------------------------------------------------------------
(* run(), up to the first server.                                           *)

(* The arguments are tested before anything is created; then three          *)
(* directories and two files are made, which may fail.                      *)
Made(n) == [files EXCEPT !.artifacts = n > 0, !.work = n > 1, !.root = n > 2]

MakeDirectories ==
  /\ At("setup")
  /\ \/ Raise("failure", "exit") /\ UNCHANGED files
     \/ \E n \in 0 .. 3 :
          /\ files' = Made(n)
          /\ IF n = 3 THEN Try("unit", "restoreRoot") ELSE Raise("failure", "restoreRoot")
  /\ Quiet /\ UNCHANGED own

verify_unit ==
  /\ At("unit") /\ Try("construct", "restoreRoot")
  /\ Quiet /\ UNCHANGED <<own, files>>

-----------------------------------------------------------------------------
(* ServerProcess.__init__.                                                  *)

Construct ==
  /\ At("construct")
  /\ own' = NoProcess
  /\ readers' = [name \in Pipes |-> "none"]
  /\ files' = [files EXCEPT !.rootOpen = kind # "root-denied"]
  /\ IF kind = "before-popen" THEN Raise("fault", "cleanup") ELSE Proceed("popen")
  /\ UNCHANGED <<serverVars, scriptVars>>

Config == CASE kind = "bad-config" -> "bad" [] kind = "root-denied" -> "denied" [] OTHER -> "good"

Popen ==
  /\ At("popen")
  /\ \/ Fork(Config, TRUE, TRUE) /\ Proceed("forked")
     \/ Raise("failure", "cleanup") /\ UNCHANGED <<serverVars>>
  /\ UNCHANGED <<readers, own, scriptVars, files>>

KeepProcess ==
  /\ At("forked") /\ Proceed("startStdout")
  /\ own' = [own EXCEPT !.process = TRUE]
  /\ Quiet /\ UNCHANGED files

(* A reader is listed before it is started, which may fail.                 *)
Listed(name) == [readers EXCEPT ![name] = "listed"]

StartReader(name) ==
  /\ At(IF name = "stdout" THEN "startStdout" ELSE "startStderr")
  /\ \/ /\ readers' = [readers EXCEPT ![name] = "running"]
        /\ IF name = "stdout" THEN Proceed("startStderr")
           ELSE IF kind = "before-port" THEN Raise("fault", "cleanup")
           ELSE Proceed(IF kind \in Refused THEN "constructed" ELSE "awaitListening")
     \/ readers' = Listed(name) /\ Raise("failure", "cleanup")
  /\ UNCHANGED <<serverVars, own, scriptVars, files>>

event(line, label, next) ==
  /\ At(label) /\ Await(line, next)
  /\ Quiet /\ UNCHANGED <<own, files>>

(* __enter__, or the try statement that follows the construction.           *)
Enter ==
  /\ At("constructed")
  /\ Proceed(CASE kind \in Refused -> "awaitExit" [] kind = "second" -> "empty" [] OTHER -> "body")
  /\ own' = [own EXCEPT !.entered = TRUE]
  /\ Quiet /\ UNCHANGED files

-----------------------------------------------------------------------------
(* What is done with a server.                                              *)

(* Health, readiness, live metrics and the page.                            *)
Body ==
  /\ At("body") /\ exchange(CASE kind \in Faults -> "inject" [] kind = "first" -> "page" [] OTHER -> "cleanup")
  /\ Quiet /\ UNCHANGED <<own, files>>

Inject ==
  /\ At("inject") /\ Raise("fault", "cleanup")
  /\ Quiet /\ UNCHANGED <<own, files>>

(* The page is made unreadable, asked for, and made readable again.         *)
ShutPage ==
  /\ At("page") /\ Proceed("denied")
  /\ files' = [files EXCEPT !.pageOpen = FALSE]
  /\ Quiet /\ UNCHANGED own

DeniedPage ==
  /\ At("denied") /\ exchange("create")
  /\ files' = [files EXCEPT !.pageOpen = TRUE]
  /\ Quiet /\ UNCHANGED own

Tasks ==
  \/ At("create") /\ AskCreate("ephemeral", "list")
  \/ At("list") /\ AskList({[id |-> created, input |-> "ephemeral"]}, "cleanup")
  \/ At("empty") /\ AskList({}, "body")

(* A server that must not start is awaited for five seconds.                *)
AwaitExit ==
  /\ At("awaitExit")
  /\ IF Alive THEN Raise("failure", "cleanup") ELSE Proceed("cleanup")
  /\ own' = Reaped
  /\ Quiet /\ UNCHANGED files

-----------------------------------------------------------------------------
(* cleanup(), which runs once.                                              *)

(* Ten seconds for an orderly end, then the child is killed: it is safe,    *)
(* and it is not a success.                                                 *)
Overdue == [Noted(own) EXCEPT !.forced = TRUE]

WaitTerm ==
  /\ At("waitTerm")
  /\ IF Alive THEN own' = Overdue /\ Proceed(Escalate) ELSE own' = Reaped /\ Proceed("waitAgain")
  /\ Quiet /\ UNCHANGED files

(* join(timeout=5); a thread that was never started cannot be joined.       *)
Join(name) ==
  /\ At(IF name = "stdout" THEN "joinStdout" ELSE "joinStderr")
  /\ Proceed(IF name = "stdout" THEN "joinStderr" ELSE "close")
  /\ own' = IF readers[name] = "listed" THEN Noted(own) ELSE own
  /\ Quiet /\ UNCHANGED files

(* Closing a pipe waits for the thread that reads from it.                  *)
ClosePipes ==
  /\ At("close") /\ (own.process => Silent) /\ Proceed("record")
  /\ own' = [own EXCEPT !.closed = own.process]
  /\ Quiet /\ UNCHANGED files

(* What the record says of the object.                                      *)
Clean ==
  /\ own.process => own.reaped /\ own.closed
  /\ Silent /\ ~own.forced /\ ~own.readerError /\ ~own.errors

(* Only a server that must not start is cleaned up without its exception.   *)
NoOriginal == FALSE
Original == raised # "none" /\ (kind \in Refused => ~own.entered)

(* A cleanup that is not clean is noted on the exception that caused it, or *)
(* raised when there is none.                                               *)
Verdict(clean) ==
  IF ~clean /\ ~Original THEN "cleanup"
  ELSE IF raised = "none" /\ kind \notin Refused /\ child.code # 0 THEN "failure" ELSE raised

(* The output is saved, which may fail.                                     *)
Record ==
  /\ At("record") /\ Goto("left")
  /\ \E saved \in BOOLEAN :
       /\ own' = IF saved THEN own ELSE Noted(own)
       /\ raised' = Verdict(Clean /\ saved)
  /\ files' = [files EXCEPT !.forced = @ \/ own.forced]
  /\ Quiet

-----------------------------------------------------------------------------
(* run(), after a server.                                                   *)

(* What is required of a server that was left without an exception.         *)
Satisfied ==
  IF kind \in Refused
  THEN child.code = (IF kind = "bad-config" THEN 2 ELSE 1) /\ child.said \cap {"listening", "admin"} = {}
  ELSE "metrics" \in child.said

(* An injected fault is caught and compared.                                *)
Accepted == IF kind \in Faults THEN raised = "fault" /\ Clean ELSE raised = "none" /\ Satisfied

(* The exception with which the server is left for good; an interrupt is    *)
(* caught with the injected faults and fails the comparison.                *)
Final == IF raised \in {"none", "fault"} \/ (kind \in Faults /\ raised = "interrupt") THEN "failure" ELSE raised

(* The next server, or the finally clause, which has no use for the object. *)
Left ==
  /\ At("left")
  /\ files' = [files EXCEPT !.rootOpen = TRUE]
  /\ IF Accepted
     THEN /\ raised' = "none" /\ UNCHANGED own
          /\ IF stage < Len(Plan) THEN stage' = stage + 1 /\ Goto("construct") ELSE Goto("passed") /\ UNCHANGED stage
     ELSE Raise(Final, "restoreRoot") /\ own' = NoProcess /\ UNCHANGED stage
  /\ UNCHANGED <<serverVars, readers, created, interrupts, torn>>

(* With --negative the last requirement is meant to fail.                   *)
Passed ==
  /\ At("passed") /\ Try("restoreRoot", "restoreRoot")
  /\ files' = [files EXCEPT !.passed = raised' = "none"]
  /\ Quiet /\ UNCHANGED own

(* The finally clause: three actions that do not depend on each other.      *)
Attempt(label, next, applies, possible, done) ==
  /\ At(label) /\ Proceed(next)
  /\ \/ (applies => possible) /\ files' = IF applies THEN done ELSE files
     \/ applies /\ files' = [files EXCEPT !.errors = TRUE]
  /\ Quiet /\ UNCHANGED own

RestoreRoot ==
  Attempt("restoreRoot", "restorePage", files.root, TRUE, [files EXCEPT !.rootOpen = TRUE])
RestorePage ==
  Attempt("restorePage", "removeWork", files.work, files.rootOpen, [files EXCEPT !.pageOpen = TRUE])
RemoveWork ==
  Attempt("removeWork", "report", files.work, files.rootOpen, [files EXCEPT !.work = FALSE])

Summary == IF files.passed /\ ~files.errors /\ ~files.forced THEN "passed" ELSE "failed"

(* The summary is written and announced; either may fail.                   *)
Report ==
  /\ At("report") /\ Proceed("leave")
  /\ \E written, announced \in BOOLEAN :
       files' = [files EXCEPT !.summary = IF files.artifacts /\ written THEN Summary ELSE @,
                              !.errors = @ \/ (files.artifacts /\ ~(written /\ announced))]
  /\ Quiet /\ UNCHANGED own

Leave ==
  /\ At("leave") /\ Goto("exit")
  /\ raised' = IF raised = "none" /\ files.errors THEN "reporting" ELSE raised
  /\ Quiet /\ UNCHANGED <<own, files>>

(* The interpreter waits for the readers before it ends.                    *)
Exit ==
  /\ At("exit") /\ Silent /\ Proceed("end")
  /\ Quiet /\ UNCHANGED <<own, files>>

-----------------------------------------------------------------------------
(* A signal.                                                                *)

Constructing == {"popen", "startStdout", "startStderr", "awaitListening", "awaitAdmin"}
Using        == {"body", "inject", "page", "denied", "create", "list", "empty", "awaitExit"}
(* What a step of cleanup() leads to when attempt() has caught something.   *)
Protected    == [terminate |-> "waitTerm", waitTerm |-> Escalate, waitKill |-> "waitAgain",
                 waitAgain |-> "joinStdout", joinStdout |-> "joinStderr", joinStderr |-> "close",
                 close |-> "record"]
Finally      == [restoreRoot |-> "restorePage", restorePage |-> "removeWork", removeWork |-> "report",
                 report |-> "leave"]

(* The constructor, or __exit__, or a finally clause takes over.            *)
Handled ==
  /\ pc \in Constructing \cup Using /\ Raise("interrupt", "cleanup")
  /\ readers' \in {readers} \cup (IF pc = "startStdout" THEN {Listed("stdout")} ELSE {})
                            \cup (IF pc = "startStderr" THEN {Listed("stderr")} ELSE {})
  /\ files' \in {files} \cup (IF pc = "denied" THEN {[files EXCEPT !.pageOpen = TRUE]} ELSE {})
  /\ UNCHANGED <<own, torn>>

Caught ==
  /\ \/ /\ pc \in DOMAIN Protected /\ Goto(Protected[pc])
        /\ own' = IF pc = "waitTerm" THEN Overdue ELSE Noted(own)
        /\ UNCHANGED files
     \/ /\ pc \in DOMAIN Finally /\ Goto(Finally[pc])
        /\ files' = [files EXCEPT !.errors = TRUE]
        /\ UNCHANGED own
  /\ UNCHANGED <<raised, readers, torn>>

(* After the summary is marked as passed the try statement is still active: *)
(* the mark stays, next to the exception.                                   *)
Propagates ==
  /\ \/ /\ pc \in {"unit", "construct", "left"} /\ Raise("interrupt", "restoreRoot")
        /\ files' \in {files, [files EXCEPT !.rootOpen = pc # "construct" \/ kind # "root-denied"]}
     \/ /\ pc = "passed" /\ Raise("interrupt", "restoreRoot")
        /\ \E marked \in BOOLEAN : files' = [files EXCEPT !.passed = marked]
     \/ pc = "setup" /\ Raise("interrupt", "restoreRoot") /\ files' \in {Made(n) : n \in 0 .. 3}
     \/ pc \in {"leave", "exit"} /\ Raise("interrupt", "exit") /\ UNCHANGED files
  /\ UNCHANGED <<own, readers, torn>>

(* It comes between mkdir() or fork and the assignment that goes with it,   *)
(* between construction and use, in kill(), or between two statements of a  *)
(* cleanup, which is not repeated.                                          *)
Tears ==
  /\ torn' = TRUE
  /\ files' \in IF pc = "setup" THEN {Made(n) : n \in 0 .. 2} ELSE {files}
  /\ \/ pc = "setup" /\ Raise("interrupt", "restoreRoot")
     \/ pc = "forked" /\ Raise("interrupt", "cleanup")
     \/ pc = "kill" /\ Proceed("waitKill")
     \/ pc \in {"constructed", "cleanup", "kill", "record"} \cup DOMAIN Protected /\ Raise("interrupt", "left")
     \/ pc \in DOMAIN Finally /\ Raise("interrupt", "exit")
  /\ own' = IF raised' = "interrupt" THEN own ELSE Noted(own)
  /\ UNCHANGED readers

interrupted ==
  /\ interrupts < MaxInterrupts /\ interrupts' = interrupts + 1
  /\ Handled \/ Caught \/ Propagates \/ Tears
  /\ UNCHANGED <<serverVars, stage, created>>

-----------------------------------------------------------------------------

collect(name) == ReaderGivesUp(name, [Reaped EXCEPT !.readerError = TRUE, !.forced = TRUE])

MainStep ==
  \/ MakeDirectories \/ verify_unit \/ Construct \/ Popen \/ KeepProcess
  \/ \E name \in Pipes : StartReader(name) \/ Join(name)
  \/ event("listening", "awaitListening", "awaitAdmin") \/ event("admin", "awaitAdmin", "constructed")
  \/ Enter \/ Body \/ Inject \/ ShutPage \/ DeniedPage \/ Tasks \/ AwaitExit
  \/ Poll(IF Alive THEN "terminate" ELSE "waitAgain") \/ Terminate \/ WaitTerm \/ Kill
  \/ Wait("waitKill", "waitAgain") \/ Wait("waitAgain", "joinStdout")
  \/ ClosePipes \/ Record \/ Left \/ Passed
  \/ RestoreRoot \/ RestorePage \/ RemoveWork \/ Report \/ Leave \/ Exit
=============================================================================
