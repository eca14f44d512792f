---------------------------- MODULE OwnedServer -----------------------------
(***************************************************************************)
(* What a script that runs the server owns: one child process at a time,    *)
(* the threads that read its pipes and the Python object that keeps track   *)
(* of them.  The child is ServerLifetime, with the tasks it has in memory.  *)
(* Modules VerifyDeployment and DemoTaskApplication add the main thread of  *)
(* a script.                                                                *)
(*                                                                          *)
(* There is no clock: a wait with a timeout may time out whenever it would  *)
(* still have to wait.                                                      *)
(***************************************************************************)
EXTENDS TaskService

CONSTANTS
  MaxInterrupts,  \* bound of the model: signals sent to a script
  MaxForeign      \* bound of the model: requests of others that change tasks

ASSUME ScriptAssumption == MaxInterrupts \in Nat /\ MaxForeign \in Nat

VARIABLES
  child,       \* the process, as ServerLifetime describes it
  memory,      \* its tasks
  foreign,     \* requests of others it has carried out
  readers,     \* the reader threads, by the pipe they read
  own,         \* the object that owns the process
  pc, stage,   \* where the main thread is: step, and number of the server
  created,     \* the identifier of the task created last, as text
  raised,      \* the exception on its way, or "none"
  interrupts,  \* signals the script has received
  torn,        \* a signal has separated two statements that belong together
  files        \* the directories the script created, and its summary

serverVars == <<child, memory, foreign>>
scriptVars == <<stage, created, interrupts, torn>>
ownedVars  == <<serverVars, readers, own, pc, raised, scriptVars, files>>

Server == INSTANCE ServerLifetime

Pipes == {"stdout", "stderr"}

NoChild == [Server!Launched("good", FALSE, FALSE) EXCEPT !.life = "none"]

(* An object before its process is started.                                 *)
NoProcess == [process |-> FALSE, entered |-> FALSE, reaped |-> FALSE, forced |-> FALSE,
              readerError |-> FALSE, errors |-> FALSE, closed |-> FALSE]

OwnedInit ==
  /\ child = NoChild /\ memory = Empty /\ foreign = 0
  /\ readers = [name \in Pipes |-> "none"]
  /\ own = NoProcess
  /\ stage = 1 /\ created = << >> /\ raised = "none" /\ interrupts = 0 /\ torn = FALSE

-----------------------------------------------------------------------------
(* The child.                                                               *)

Elsewhere == UNCHANGED <<readers, own, pc, raised, scriptVars, files>>

(* The tasks are gone with the process.                                     *)
Runs(step) ==
  /\ step /\ Elsewhere
  /\ memory' = IF child'.life = "ended" THEN Empty ELSE memory
  /\ UNCHANGED foreign

ChildStep == Runs(Server!Step)
ChildDies == Runs(Server!Dies)

Serving == child.life \in {"serving", "leaving"}

(* The port is open to others, who may change tasks at any time.  It makes  *)
(* no difference unless the script is about to ask for tasks itself.        *)
Asking == {"create", "get", "put", "list", "delete", "missing", "again", "listAgain", "empty", "restarted"}

ForeignRequests ==
  [method : {"GET", "HEAD", "POST", "PUT", "DELETE"},
   digits : {<< >>, <<0>>, <<Radix>>} \cup {ToString[id] : id \in 1 .. MaxId},
   body : {"none", "bad", "large", "foreign"}]

ForeignRequest ==
  /\ Serving /\ pc \in Asking /\ foreign < MaxForeign
  /\ \E request \in ForeignRequests : memory' = onTaskResponse(memory, request).table
  /\ memory' # memory /\ foreign' = foreign + 1
  /\ UNCHANGED child /\ Elsewhere

-----------------------------------------------------------------------------
(* The readers.                                                             *)

(* The end of the output: nobody has the other end of the pipe open.        *)
ReaderEnds(name) ==
  /\ readers[name] = "running" /\ child.life = "ended"
  /\ readers' = [readers EXCEPT ![name] = "done"]
  /\ UNCHANGED <<serverVars, own, pc, raised, scriptVars, files>>

(* Too much output, or output that is no text: the reader kills the child   *)
(* if it is still there, and ends.                                          *)
ReaderGivesUp(name, noted) ==
  /\ readers[name] = "running"
  /\ readers' = [readers EXCEPT ![name] = "done"]
  /\ own' = noted
  /\ child' = IF Server!Running THEN [child EXCEPT !.killed = TRUE] ELSE child
  /\ UNCHANGED <<memory, foreign, pc, raised, scriptVars, files>>

Silent == \A name \in Pipes : readers[name] # "running"

-----------------------------------------------------------------------------
(* The main thread of a script.                                             *)

At(label)          == pc = label
Goto(label)        == pc' = label
Proceed(label)     == Goto(label) /\ UNCHANGED raised
Raise(what, label) == raised' = what /\ Goto(label)

(* Something is tried that may fail.                                        *)
Try(next, otherwise) == Proceed(next) \/ Raise("failure", otherwise)

(* A line of stdout is awaited for five seconds, which may pass before the  *)
(* reader has handed it on.                                                 *)
Await(line, next) ==
  \/ line \in child.said /\ Proceed(next)
  \/ Raise("failure", "cleanup")

(* A step that leaves child and readers alone.                              *)
Quiet == UNCHANGED <<serverVars, readers, scriptVars>>

Fork(config, admin, metrics) ==
  /\ child' = Server!Launched(config, admin, metrics)
  /\ memory' = Empty /\ foreign' = 0

(* A request that has nothing to do with tasks: answered as expected, or    *)
(* not.                                                                     *)
exchange(next) ==
  \/ Serving /\ Proceed(next)
  \/ Raise("failure", "cleanup")

Answer(request) == onTaskResponse(memory, request)

(* A request about tasks: the answer is compared with what is expected, or  *)
(* there is none, and nobody knows whether it was carried out.              *)
Ask(request, asExpected, next) ==
  LET answer == Answer(request) IN
  \/ /\ Serving /\ memory' = answer.table
     /\ IF asExpected THEN Proceed(next) ELSE Raise("mismatch", "cleanup")
  \/ Raise("failure", "cleanup") /\ memory' \in IF Serving THEN {memory, answer.table} ELSE {memory}

Asked == UNCHANGED <<child, foreign, readers, own, stage, interrupts, torn, files>>

Request(method, digits, body) == [method |-> method, digits |-> digits, body |-> body]

(* The task is created, and its identifier remembered.                      *)
AskCreate(input, next) ==
  LET request == Request("POST", << >>, input)
      answer == Answer(request)
  IN
  /\ Ask(request, answer.status = 201 /\ answer.body.input = input, next)
  /\ created' = IF pc' = next THEN answer.body.id ELSE created
  /\ Asked

AskList(tasks, next) ==
  LET request == Request("GET", << >>, "none")
      answer == Answer(request)
  IN
  /\ Ask(request, answer.status = 200 /\ answer.body = tasks, next)
  /\ UNCHANGED created /\ Asked

-----------------------------------------------------------------------------
(* What both scripts do to end a process.                                   *)

Alive == own.process /\ child.life # "ended"

(* poll() and wait() notice a child that has ended.                         *)
Reaped == [own EXCEPT !.reaped = @ \/ (own.process /\ child.life = "ended")]

(* A cleanup begins; the model forgets the tasks nobody asks for any more.  *)
Poll(next) ==
  /\ At("cleanup") /\ Proceed(next)
  /\ own' = Reaped
  /\ memory' = Empty /\ foreign' = 0 /\ created' = << >>
  /\ UNCHANGED <<child, readers, stage, interrupts, torn, files>>

(* What attempt() remembers of an exception it has caught.                  *)
Forgotten(object) == object
Noted(object)     == [object EXCEPT !.errors = TRUE]

Terminate ==
  /\ At("terminate") /\ Proceed("waitTerm")
  /\ child' = [child EXCEPT !.term = TRUE]
  /\ UNCHANGED <<memory, foreign, readers, own, scriptVars, files>>

Kill ==
  /\ At("kill") /\ Proceed("waitKill")
  /\ child' = [child EXCEPT !.killed = TRUE]
  /\ UNCHANGED <<memory, foreign, readers, own, scriptVars, files>>

(* wait(timeout=5) under attempt().                                         *)
Wait(label, next) ==
  /\ At(label) /\ Proceed(next)
  /\ own' = IF Alive THEN Noted(own) ELSE Reaped
  /\ Quiet /\ UNCHANGED files

(* What a wait for the end of the child turns to when it is over too soon.  *)
GiveUp   == "close"
Escalate == "kill"
=============================================================================
