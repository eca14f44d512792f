---------------------------- MODULE TaskService -----------------------------
(***************************************************************************)
(* hp::business::TaskService and hp::http::TaskApiHandler: the table of     *)
(* tasks a server keeps in memory, and the requests that reach it.  Every   *)
(* operation is one critical section, hence a function of the table.        *)
(*                                                                          *)
(* A request is its method, the digits of the identifier in its path (no    *)
(* digits: the collection) and its body: "none", "bad", "large", or the     *)
(* contents of a task.  Radix stands for a character that is no digit.      *)
(***************************************************************************)
EXTENDS Naturals, Sequences, FiniteSets, Functions

CONSTANTS
  kMaxTasks,  \* the capacity of the table
  MaxId,      \* the largest TaskId
  Radix,      \* of the identifiers in a path
  Inputs      \* the contents a task can have

ASSUME TaskAssumption ==
  /\ kMaxTasks \in Nat \ {0} /\ MaxId \in Nat \ {0} /\ Radix \in 2 .. MaxId + 1
  /\ Inputs \cap {"none", "bad", "large"} = {}

Empty == [tasks |-> << >>, nextId |-> 1, exhausted |-> FALSE]

Result(status, task, table) == [status |-> status, task |-> task, table |-> table]

Task(id, input) == [id |-> id, input |-> input]

NotFound(table) == Result("NotFound", << >>, table)

-----------------------------------------------------------------------------
(* TaskService.                                                             *)

(* The identifier after the one just given; the last one is not repeated.   *)
Reusing(table) == [table EXCEPT !.nextId = (@ % MaxId) + 1]
Advanced(table) ==
  IF table.nextId = MaxId THEN [table EXCEPT !.exhausted = TRUE] ELSE [table EXCEPT !.nextId = @ + 1]

createTask(table, input) ==
  LET id == table.nextId
      inserted == [table EXCEPT !.tasks = [i \in DOMAIN @ \cup {id} |-> IF i = id THEN input ELSE @[i]]]
  IN  IF Cardinality(DOMAIN table.tasks) = kMaxTasks THEN Result("Capacity", << >>, table)
      ELSE IF table.exhausted THEN Result("IdExhausted", << >>, table)
      ELSE Result("Success", Task(id, input), Advanced(inserted))

getTask(table, id) ==
  IF id \in DOMAIN table.tasks THEN Result("Success", Task(id, table.tasks[id]), table) ELSE NotFound(table)

listTasks(table) == {Task(id, table.tasks[id]) : id \in DOMAIN table.tasks}

replaceTask(table, id, input) ==
  IF id \in DOMAIN table.tasks
  THEN Result("Success", Task(id, input), [table EXCEPT !.tasks[id] = input]) ELSE NotFound(table)

deleteTask(table, id) ==
  IF id \in DOMAIN table.tasks
  THEN Result("Success", << >>, [table EXCEPT !.tasks = Restrict(@, DOMAIN @ \ {id})]) ELSE NotFound(table)

-----------------------------------------------------------------------------
(* TaskApiHandler.                                                          *)

(* std::to_string: the digits of an identifier.                             *)
ToString[id \in 0 .. MaxId] ==
  IF id < Radix THEN <<id>> ELSE Append(ToString[id \div Radix], id % Radix)

(* The loop of classifyTaskRoute over the digits: 0 is no identifier, and   *)
(* stands for one that is refused.                                          *)
Fits(id, digit) == id <= (MaxId - digit) \div Radix

ReadId(digits) ==
  LET id[n \in 0 .. Len(digits)] ==
        IF n = 0 THEN [valid |-> TRUE, value |-> 0]
        ELSE LET before == id[n - 1] IN
             IF before.valid /\ digits[n] \in 0 .. Radix - 1 /\ Fits(before.value, digits[n])
             THEN [valid |-> TRUE, value |-> before.value * Radix + digits[n]]
             ELSE [valid |-> FALSE, value |-> 0]
  IN  IF Head(digits) = 0 THEN 0 ELSE id[Len(digits)].value

classifyTaskRoute(request) ==
  IF request.digits = << >> THEN [kind |-> "Collection", id |-> 0]
  ELSE IF ReadId(request.digits) = 0 THEN [kind |-> "InvalidId", id |-> 0]
  ELSE [kind |-> "Item", id |-> ReadId(request.digits)]

Response(status, body, table) == [status |-> status, body |-> body, table |-> table]

taskError(status, code, table) == Response(status, code, table)

Serialized(task) == [id |-> ToString[task.id], input |-> task.input]

serviceResponse(result, success) ==
  CASE result.status = "NotFound"    -> taskError(404, "task_not_found", result.table)
    [] result.status = "Capacity"    -> taskError(503, "capacity_exhausted", result.table)
    [] result.status = "IdExhausted" -> taskError(503, "id_exhausted", result.table)
    [] result.status = "Success"     -> Response(success, Serialized(result.task), result.table)

Methods(kind) == IF kind = "Collection" THEN {"GET", "POST"} ELSE {"GET", "PUT", "DELETE"}

executeTask(table, route, request) ==
  CASE request.method = "DELETE" ->
         LET deleted == deleteTask(table, route.id) IN
         IF deleted.status # "Success" THEN serviceResponse(deleted, 200)
         ELSE Response(200, [id |-> ToString[route.id], deleted |-> TRUE], deleted.table)
    [] request.method = "GET" /\ route.kind = "Collection" ->
         Response(200, {Serialized(task) : task \in listTasks(table)}, table)
    [] request.method = "GET" /\ route.kind = "Item" -> serviceResponse(getTask(table, route.id), 200)
    [] request.method \in {"POST", "PUT"} /\ request.body \notin Inputs -> taskError(400, "invalid_json", table)
    [] request.method = "POST" /\ request.body \in Inputs -> serviceResponse(createTask(table, request.body), 201)
    [] request.method = "PUT" /\ request.body \in Inputs ->
         serviceResponse(replaceTask(table, route.id, request.body), 200)

(* validateTaskRequest and prevalidateTask, then the operation.             *)
onTaskResponse(table, request) ==
  LET route == classifyTaskRoute(request) IN
  IF route.kind = "InvalidId" THEN taskError(400, "invalid_id", table)
  ELSE IF request.method \notin Methods(route.kind) THEN taskError(405, "method_not_allowed", table)
  ELSE IF request.body = "large" THEN taskError(413, "body_too_large", table)
  ELSE IF request.method \in {"GET", "DELETE"} /\ request.body # "none"
       THEN taskError(400, "unexpected_body", table)
  ELSE executeTask(table, route, request)
=============================================================================
