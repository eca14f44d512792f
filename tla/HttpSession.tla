----------------------------- MODULE HttpSession -----------------------------
(***************************************************************************)
(* One connection: hp::net::TcpConnection with its ConnectionIo, and the    *)
(* hp::app::Session that speaks HTTP on it.  Everything runs on the         *)
(* connection's loop; an event is a series of steps (reading, parsing,      *)
(* writing) between which only the clock and the task executor move.        *)
(* Input is counted in pieces of which a request needs at least one, output *)
(* in pieces of a response.                                                 *)
(***************************************************************************)
EXTENDS Integers, Sequences

CONSTANTS
  MaxRequests,   \* bound of the model on the requests of one connection
  MaxInput,      \* the transport window
  MaxOutput      \* the largest response

ASSUME SessionAssumption ==
  MaxRequests \in Nat \ {0} /\ MaxInput \in Nat \ {0} /\ MaxOutput \in Nat \ {0}

VARIABLES
  conn,     \* members of TcpConnection and ConnectionIo
  session,  \* members of Session
  pc,       \* what the loop is doing with the connection
  stage,    \* how far onMessage is, "none" when it is not running
  socket,   \* the kernel's side: pieces and end of file not read yet
  jobs,     \* the jobs the executor has for this connection
  ready,    \* those of them that are finished
  counted,  \* how the requests counted in metrics ended
  answered  \* the requests whose final response was written, in order

vars == <<conn, session, pc, stage, socket, jobs, ready, counted, answered>>

Init ==
  /\ conn = [state |-> "active", draining |-> FALSE, inputStopped |-> FALSE, readPaused |-> FALSE,
             handlingEvent |-> FALSE, closeRequested |-> FALSE, eof |-> FALSE, interest |-> {"in"},
             idleWait |-> FALSE, readDeadline |-> FALSE, continuation |-> 0,
             input |-> 0, pending |-> 0, file |-> FALSE, outputLease |-> 0, answer |-> 0]
  /\ session = [phase |-> "reading", completed |-> FALSE, close |-> FALSE,
                requestPending |-> FALSE, requestLease |-> FALSE, readDeadline |-> "none",
                job |-> 0, jobLate |-> FALSE, generation |-> 0,
                requestBytes |-> FALSE, headersSeen |-> FALSE, requests |-> 0]
  /\ pc = "poll" /\ stage = "none"
  /\ socket = [pieces |-> 0, sent |-> 0, eof |-> FALSE]
  /\ jobs = {} /\ ready = {} /\ counted = << >> /\ answered = << >>

-----------------------------------------------------------------------------
(* TcpConnection, as operators from c to c.                                 *)

hasPendingOutput(c) == c.pending > 0

updateInterest(c) ==
  [c EXCEPT !.interest = (IF ~c.inputStopped /\ ~c.readPaused /\ ~c.eof THEN {"in"} ELSE {})
                         \cup (IF hasPendingOutput(c) THEN {"out"} ELSE {})]

(* Outside an event the interest is updated at once; an event does it last. *)
Updated(c) == IF c.handlingEvent \/ c.state # "active" THEN c ELSE updateInterest(c)

requestClose(c) ==
  [c EXCEPT !.state = "closing", !.continuation = 0, !.readDeadline = FALSE, !.interest = {}]

closeAfterFlush(c) ==
  LET d == [c EXCEPT !.inputStopped = TRUE]
  IN IF hasPendingOutput(c) THEN Updated(d) ELSE requestClose(d)

pauseReading(c)  == Updated([c EXCEPT !.readPaused = TRUE])
NotResumed(c)    == Updated(c)
resumeReading(c) == Updated([c EXCEPT !.readPaused = FALSE])

setReadDeadline(c, set) == IF c.state = "closing" \/ c.draining THEN c ELSE [c EXCEPT !.readDeadline = set]

(* sendBytes and sendFile of a response of size pieces for a request (0: an *)
(* interim response).  The write-complete callback is there, so the output  *)
(* is only queued; its lease is as large as it is.                          *)
queueOutput(c, request, size, file) ==
  Updated([c EXCEPT !.pending = @ + size, !.outputLease = @ + size, !.file = file, !.answer = request])

-----------------------------------------------------------------------------
(* Session.                                                                 *)

(* finishPendingRequest: the lease goes back and the request is counted,    *)
(* if there is one.                                                         *)
LeaseKept(h) == [h EXCEPT !.requestPending = FALSE]
Finished(h) == [h EXCEPT !.requestLease = FALSE, !.requestPending = FALSE]
CountedAlways(h, outcome) == Append(counted, outcome)
Counted(h, outcome) == IF h.requestPending THEN Append(counted, outcome) ELSE counted

(* The two copies of the read deadline are cleared together.                *)
OwnCopyOnly(c) == c
ClearedDeadline(c) == setReadDeadline(c, FALSE)

(* closeExpiredRequest; its caller returns.                                 *)
Expired == session.readDeadline = "past"

closeExpiredRequest ==
  /\ Expired
  /\ session' = [session EXCEPT !.phase = "closing", !.readDeadline = "none"]
  /\ conn' = requestClose(conn)
  /\ UNCHANGED <<jobs, ready, counted, answered>>

(* closeResourceRejected, for what has become of the connection and session.*)
closeResourceRejected(c, h) ==
  /\ session' = [Finished(h) EXCEPT !.phase = "closing", !.completed = FALSE, !.readDeadline = "none"]
  /\ conn' = requestClose(c)
  /\ counted' = Counted(h, "aborted")

(* sendFinalResponse: everything is settled before the response is queued;  *)
(* an output budget that is used up closes the connection.                  *)
Answering(h) == IF h.requestPending THEN h.requests ELSE h.requests + 1

sendFinalResponse(c, h, close) ==
  LET g == [h EXCEPT !.phase = "writing", !.close = close, !.completed = TRUE]
  IN \/ \E size \in 1 .. MaxOutput, file \in BOOLEAN :
          /\ session' = g
          /\ conn' = queueOutput(c, Answering(h), size, file)
          /\ UNCHANGED counted
     \/ closeResourceRejected(c, g)

-----------------------------------------------------------------------------
(* onMessage, called by the reading loop and by onWriteComplete.            *)

Returns == stage' = "none" /\ UNCHANGED <<pc, socket>>

(* Its beginning: a session that is busy, or draining, leaves the input     *)
(* where it is; an expired request is over; the first piece of input begins *)
(* a request.                                                               *)
MayTakeInput == session.phase = "reading" /\ ~conn.draining

Message ==
  /\ stage = "message"
  /\ IF ~MayTakeInput
     THEN /\ stage' = "none"
          /\ UNCHANGED <<conn, session, pc, socket, jobs, ready, counted, answered>>
     ELSE \/ closeExpiredRequest /\ Returns
          \/ /\ ~Expired
             /\ LET begins == ~session.requestPending /\ conn.input > 0
                IN /\ stage' = IF begins THEN "admit" ELSE "parse"
                   /\ session' = IF begins THEN [session EXCEPT !.requestPending = TRUE,
                                                                !.requests = @ + 1]
                                 ELSE session
             /\ UNCHANGED <<conn, pc, socket, jobs, ready, counted, answered>>

(* The input budget admits the request, and its read deadline starts.       *)
Admit ==
  /\ stage = "admit"
  /\ \/ /\ session' = [session EXCEPT !.requestLease = TRUE, !.readDeadline = "set"]
        /\ conn' = setReadDeadline(conn, TRUE)
        /\ stage' = "parse"
        /\ UNCHANGED <<pc, socket, counted>>
     \/ closeResourceRejected(conn, session) /\ Returns
  /\ UNCHANGED <<jobs, ready, answered>>

(* What the parser has consumed, and that it has seen part of a request.    *)
Consumed(rest) == [conn EXCEPT !.input = rest]

(* The request is over for the parser; the session turns to the response.   *)
Responding(c, h) ==
  <<pauseReading([ClearedDeadline(c) EXCEPT !.idleWait = FALSE]),
    [h EXCEPT !.readDeadline = "none", !.phase = "writing", !.requestBytes = TRUE]>>

(* All input is consumed and the request is not complete.  After the end of *)
(* the input that is a bad request, or nothing at all.                      *)
ParseNeedMore ==
  /\ stage = "parse"
  /\ LET seen == session.requestBytes \/ conn.input > 0
         c == Consumed(0)
         h == [session EXCEPT !.requestBytes = seen]
         r == Responding(c, h)
     IN \/ /\ ~conn.eof
           /\ session' = h
           /\ conn' = resumeReading([c EXCEPT !.idleWait = h.completed /\ ~seen /\ c.pending = 0])
           /\ UNCHANGED <<jobs, ready, counted, answered>>
        \/ /\ conn.eof /\ h.completed /\ ~seen
           /\ session' = [h EXCEPT !.phase = "closing"]
           /\ conn' = closeAfterFlush(c)
           /\ UNCHANGED <<jobs, ready, counted, answered>>
        \/ /\ conn.eof /\ ~(h.completed /\ ~seen) /\ closeExpiredRequest
        \/ /\ conn.eof /\ ~(h.completed /\ ~seen) /\ ~Expired
           /\ sendFinalResponse(r[1], r[2], TRUE)
           /\ UNCHANGED <<jobs, ready, answered>>
  /\ Returns

(* A complete request, or one that is refused; some input may be left.  A   *)
(* refusal and a provider that throws close the connection, a response may. *)
ParseEnds ==
  /\ stage = "parse" /\ conn.input > 0
  /\ \E rest \in 0 .. conn.input - 1 :
       \/ closeExpiredRequest
       \/ /\ ~Expired
          /\ LET r == Responding(Consumed(rest), session)
             IN \E close \in BOOLEAN : sendFinalResponse(r[1], r[2], close)
          /\ UNCHANGED <<jobs, ready, answered>>
  /\ Returns

(* A complete request for the executor: submitRequest is answered with a    *)
(* job, which a continuation will look at.  A loop that takes no timer      *)
(* makes the session give the job up again.                                 *)
Awaiting(h) ==
  [h EXCEPT !.phase = "awaiting", !.job = h.requests, !.jobLate = FALSE, !.generation = @ + 1]

ParseTask ==
  /\ stage = "parse" /\ conn.input > 0 /\ ~Expired
  /\ \E rest \in 0 .. conn.input - 1 :
       LET r == Responding(Consumed(rest), session)
           h == Awaiting(r[2])
       IN \/ /\ session' = h
             /\ conn' = [r[1] EXCEPT !.continuation = h.generation]
             /\ jobs' = jobs \cup {h.job}
             /\ UNCHANGED counted
          \/ /\ sendFinalResponse(r[1], [h EXCEPT !.job = 0], TRUE)
             /\ UNCHANGED jobs
  /\ UNCHANGED <<ready, answered>>
  /\ Returns

(* The headers of a request that expects 100 are complete: onRequestHeaders *)
(* answers with the interim response or rejects the request.                *)
onRequestHeaders ==
  /\ stage = "parse" /\ conn.input > 0 /\ ~session.headersSeen
  /\ \E rest \in 0 .. conn.input - 1 :
       \/ closeExpiredRequest
       \/ LET c == pauseReading([Consumed(rest) EXCEPT !.idleWait = FALSE])
              h == [session EXCEPT !.requestBytes = TRUE, !.headersSeen = TRUE]
          IN /\ ~Expired
             /\ \/ /\ session' = [h EXCEPT !.phase = "interim"]
                   /\ conn' = queueOutput(c, 0, 1, FALSE)
                   /\ UNCHANGED counted
                \/ closeResourceRejected(c, [h EXCEPT !.phase = "interim"])
                \/ LET r == Responding(c, h) IN sendFinalResponse(r[1], r[2], TRUE)
             /\ UNCHANGED <<jobs, ready, answered>>
  /\ Returns

-----------------------------------------------------------------------------
(* An event of the connection.                                              *)

AtRest == pc = "poll" /\ stage = "none" /\ conn.state = "active"

(* handleConnectionEvent starts: the kernel reports what is of interest,    *)
(* errors and hang-ups always.                                              *)
handleConnectionEvent ==
  /\ AtRest
  /\ \/ /\ "in" \in conn.interest /\ (socket.pieces > 0 \/ socket.eof)
        /\ pc' = "read"
        /\ conn' = [conn EXCEPT !.handlingEvent = TRUE]
     \/ /\ "out" \in conn.interest
        /\ pc' = "flush"
        /\ conn' = [conn EXCEPT !.handlingEvent = TRUE]
     \/ /\ pc' = "flush"
        /\ conn' = [conn EXCEPT !.handlingEvent = TRUE, !.closeRequested = TRUE]
  /\ UNCHANGED <<session, stage, socket, jobs, ready, counted, answered>>

(* How many pieces readOnce may bring: what fits into the window.           *)
readOnce == {n \in 1 .. socket.pieces : n <= MaxInput - conn.input}

(* One turn of readMessages.  A window that is full, or a failing read,     *)
(* closes the connection; the end of the input is told once.                *)
readMessages ==
  /\ pc = "read" /\ stage = "none"
  /\ LET reads == conn.state = "active" /\ ~conn.inputStopped /\ ~conn.readPaused
     IN \/ /\ ~reads \/ conn.eof \/ (socket.pieces = 0 /\ ~socket.eof)
           /\ pc' = "flush"
           /\ UNCHANGED <<conn, stage, socket>>
        \/ /\ reads /\ ~conn.eof
           /\ \E n \in readOnce :
                /\ conn' = [conn EXCEPT !.input = @ + n, !.idleWait = FALSE]
                /\ socket' = [socket EXCEPT !.pieces = @ - n]
           /\ stage' = "message" /\ UNCHANGED pc
        \/ /\ reads /\ ~conn.eof /\ socket.pieces = 0 /\ socket.eof
           /\ conn' = [conn EXCEPT !.eof = TRUE]
           /\ stage' = "message" /\ pc' = "flush"
           /\ UNCHANGED socket
        \/ /\ reads
           /\ conn' = [conn EXCEPT !.closeRequested = TRUE]
           /\ pc' = "flush"
           /\ UNCHANGED <<stage, socket>>
  /\ UNCHANGED <<session, jobs, ready, counted, answered>>

AnyResponse == session.phase \in {"interim", "writing"}
FinalResponse == session.phase = "writing"

(* onWriteComplete, for the connection c whose output is empty now.         *)
onWriteComplete(c) ==
  \/ /\ session.phase = "interim" /\ c.draining
     /\ session' = [Finished(session) EXCEPT !.phase = "closing", !.readDeadline = "none"]
     /\ counted' = Counted(session, "aborted")
     /\ conn' = closeAfterFlush(c)
     /\ stage' = "none"
  \/ /\ session.phase = "interim" /\ ~c.draining /\ Expired
     /\ session' = [session EXCEPT !.phase = "closing", !.readDeadline = "none"]
     /\ conn' = requestClose(c)
     /\ stage' = "none" /\ UNCHANGED counted
  \/ /\ session.phase = "interim" /\ ~c.draining /\ ~Expired
     /\ session' = [session EXCEPT !.phase = "reading"]
     /\ conn' = c
     /\ stage' = "message" /\ UNCHANGED counted
  \/ /\ FinalResponse
     /\ counted' = Counted(session, "completed")
     /\ IF session.close \/ c.draining
        THEN /\ session' = [Finished(session) EXCEPT !.phase = "closing"]
             /\ conn' = closeAfterFlush(c)
             /\ stage' = "none"
        ELSE /\ session' = [Finished(session) EXCEPT !.phase = "reading",
                              !.requestBytes = FALSE, !.headersSeen = FALSE]
             /\ conn' = c
             /\ stage' = "message"

(* What writing n pieces leaves: the lease shrinks with the output.         *)
Written(c, n)     == [c EXCEPT !.pending = @ - n, !.outputLease = @ - n]

(* One turn of flushOutput: nothing to do; a partial write, because the     *)
(* socket is full or a file's budget is spent; an error; or the rest of the *)
(* output, upon which the session goes on.  A file ends the turn.           *)
flushOutput ==
  /\ pc = "flush" /\ stage = "none"
  /\ \/ /\ conn.state # "active" \/ ~hasPendingOutput(conn)
        /\ pc' = "finish"
        /\ UNCHANGED <<conn, session, stage, counted, answered>>
     \/ /\ conn.state = "active" /\ hasPendingOutput(conn)
        /\ \E n \in 0 .. conn.pending - 1, failed \in BOOLEAN :
             conn' = [Written(conn, n) EXCEPT !.closeRequested = @ \/ failed]
        /\ pc' = "finish"
        /\ UNCHANGED <<session, stage, counted, answered>>
     \/ /\ conn.state = "active" /\ hasPendingOutput(conn)
        /\ pc' = IF conn.file \/ (conn.inputStopped /\ ~conn.draining) THEN "finish" ELSE "flush"
        /\ answered' = IF conn.answer = 0 THEN answered ELSE Append(answered, conn.answer)
        /\ LET c == [Written(conn, conn.pending) EXCEPT !.file = FALSE]
           IN IF ~conn.inputStopped \/ conn.draining THEN onWriteComplete(c)
              ELSE conn' = c /\ UNCHANGED <<session, stage, counted>>
  /\ UNCHANGED <<socket, jobs, ready>>

(* The end of the event: close, or set the interest.                        *)
EventEnds ==
  /\ pc = "finish" /\ stage = "none"
  /\ pc' = "poll"
  /\ LET c == [conn EXCEPT !.handlingEvent = FALSE, !.closeRequested = FALSE]
     IN conn' = IF conn.state # "active" THEN c
                ELSE IF conn.closeRequested \/ (conn.inputStopped /\ ~hasPendingOutput(conn))
                     THEN requestClose(c) ELSE updateInterest(c)
  /\ UNCHANGED <<session, stage, socket, jobs, ready, counted, answered>>

-----------------------------------------------------------------------------
(* What else the loop may call.                                             *)

(* onTaskContinuation: the answer when the job is ready, an error when it   *)
(* is late, or lost because the executor or the loop is stopping; otherwise *)
(* the session looks again later.                                           *)
NeverLate == FALSE
Late      == session.jobLate

onTaskContinuation(lost) ==
  /\ AtRest /\ conn.continuation # 0
  /\ LET c == [conn EXCEPT !.continuation = 0]
         mine == session.phase = "awaiting" /\ conn.continuation = session.generation
         finished == session.job \in ready /\ ~Late
     IN IF mine /\ (finished \/ Late \/ lost)
        THEN /\ jobs' = jobs \ {session.job}
             /\ \E close \in BOOLEAN :
                  /\ finished \/ close
                  /\ sendFinalResponse(c, [session EXCEPT !.job = 0], close)
        ELSE /\ conn' = IF mine THEN conn ELSE c
             /\ UNCHANGED <<session, jobs, counted>>
  /\ ready' = ready \cap jobs'
  /\ UNCHANGED <<pc, stage, socket, answered>>

beginConnectionDrain ==
  /\ AtRest /\ ~conn.draining
  /\ LET c == [conn EXCEPT !.draining = TRUE, !.continuation = 0, !.readDeadline = FALSE,
                           !.inputStopped = TRUE, !.readPaused = TRUE, !.idleWait = FALSE]
     IN conn' = IF hasPendingOutput(c) THEN updateInterest(c) ELSE requestClose(c)
  /\ UNCHANGED <<session, pc, stage, socket, jobs, ready, counted, answered>>

(* A time limit or a forced shutdown.                                       *)
ClosedFromOutside ==
  /\ AtRest
  /\ conn' = requestClose(conn)
  /\ UNCHANGED <<session, pc, stage, socket, jobs, ready, counted, answered>>

(* The registry destroys a closed connection, and ~Session gives up what is *)
(* left of its request.                                                     *)
WithoutJob  == jobs \ {session.job}

Destroyed ==
  /\ pc = "poll" /\ stage = "none" /\ conn.state = "closing"
  /\ pc' = "gone"
  /\ jobs' = WithoutJob /\ ready' = ready \cap jobs'
  /\ session' = [Finished(session) EXCEPT !.job = 0]
  /\ counted' = Counted(session, "aborted")
  /\ conn' = [conn EXCEPT !.pending = 0, !.outputLease = 0, !.input = 0, !.file = FALSE]
  /\ UNCHANGED <<stage, socket, answered>>

-----------------------------------------------------------------------------
(* The client, the executor and the clock.                                  *)

ClientSends ==
  /\ ~socket.eof /\ socket.sent < MaxRequests
  /\ socket' = [socket EXCEPT !.pieces = @ + 1, !.sent = @ + 1]
  /\ UNCHANGED <<conn, session, pc, stage, jobs, ready, counted, answered>>

ClientShutsDown ==
  /\ ~socket.eof
  /\ socket' = [socket EXCEPT !.eof = TRUE]
  /\ UNCHANGED <<conn, session, pc, stage, jobs, ready, counted, answered>>

JobFinishes ==
  /\ \E j \in jobs \ ready : ready' = ready \cup {j}
  /\ UNCHANGED <<conn, session, pc, stage, socket, jobs, counted, answered>>

ReadDeadlinePasses ==
  /\ session.readDeadline = "set"
  /\ session' = [session EXCEPT !.readDeadline = "past"]
  /\ UNCHANGED <<conn, pc, stage, socket, jobs, ready, counted, answered>>

JobDeadlinePasses ==
  /\ session.job # 0 /\ ~session.jobLate
  /\ session' = [session EXCEPT !.jobLate = TRUE]
  /\ UNCHANGED <<conn, pc, stage, socket, jobs, ready, counted, answered>>

Handling ==
  \/ Message \/ Admit \/ ParseNeedMore \/ ParseEnds \/ ParseTask \/ onRequestHeaders
  \/ readMessages \/ flushOutput \/ EventEnds \/ Destroyed

Next ==
  \/ Handling
  \/ handleConnectionEvent
  \/ \E lost \in BOOLEAN : onTaskContinuation(lost)
  \/ beginConnectionDrain \/ ClosedFromOutside
  \/ ClientSends \/ ClientShutsDown \/ JobFinishes \/ ReadDeadlinePasses \/ JobDeadlinePasses
  \/ pc = "gone" /\ UNCHANGED vars

Spec == Init /\ [][Next]_vars

(* The loop goes on with what it has begun and delivers continuations; a    *)
(* job's deadline passes.                                                   *)
FairSpec ==
  Spec /\ WF_vars(Handling) /\ WF_vars(onTaskContinuation(FALSE)) /\ WF_vars(JobDeadlinePasses)

-----------------------------------------------------------------------------
(* What must hold.                                                          *)

TypeOK ==
  /\ conn \in [state : {"active", "closing"}, draining : BOOLEAN, inputStopped : BOOLEAN,
               readPaused : BOOLEAN, handlingEvent : BOOLEAN, closeRequested : BOOLEAN,
               eof : BOOLEAN, interest : SUBSET {"in", "out"}, idleWait : BOOLEAN,
               readDeadline : BOOLEAN, continuation : 0 .. MaxRequests, input : 0 .. MaxInput,
               pending : 0 .. MaxOutput, file : BOOLEAN, outputLease : 0 .. MaxOutput,
               answer : 0 .. MaxRequests + 1]
  /\ session \in [phase : {"reading", "interim", "awaiting", "writing", "closing"},
                  completed : BOOLEAN, close : BOOLEAN, requestPending : BOOLEAN,
                  requestLease : BOOLEAN, readDeadline : {"none", "set", "past"},
                  job : 0 .. MaxRequests, jobLate : BOOLEAN, generation : 0 .. MaxRequests,
                  requestBytes : BOOLEAN, headersSeen : BOOLEAN, requests : 0 .. MaxRequests]
  /\ pc \in {"poll", "read", "flush", "finish", "gone"}
  /\ stage \in {"none", "message", "admit", "parse"}
  /\ socket \in [pieces : 0 .. MaxRequests, sent : 0 .. MaxRequests, eof : BOOLEAN]
  /\ ready \subseteq jobs /\ jobs \subseteq 1 .. MaxRequests
  /\ Len(counted) <= MaxRequests /\ Len(answered) <= MaxRequests + 1

(* Leases are as long as what they stand for: the output lease always       *)
(* covers exactly the output that is pending, the input lease lasts as long *)
(* as its request, and nothing is kept by a connection that is gone.  The   *)
(* executor holds no job for the connection except the one that the session *)
(* waits for: whatever ends the wait gives the job back.                    *)
NothingLeaks ==
  /\ TypeOK
  /\ conn.outputLease = conn.pending
  /\ session.requestLease => session.requestPending
  /\ session.requestPending /\ ~session.requestLease => stage = "admit"
  /\ pc = "gone" => ~session.requestPending /\ conn.outputLease = 0
  /\ jobs = IF session.job = 0 THEN {} ELSE {session.job}
  /\ session.job # 0 /\ conn.state = "active" => session.phase = "awaiting"

(* Pipelined requests are answered one by one, in order: request n's final  *)
(* response is the n-th to be written, whether it came from the router, the *)
(* executor or an error path.                                               *)
AnsweredInOrder ==
  /\ \A i \in 1 .. Len(answered) : answered[i] = i
  /\ Len(answered) <= session.requests + 1

(* A connection at rest waits for something that can happen: input it is    *)
(* willing to read, room for its output, or a continuation.  No order of    *)
(* pausing, resuming, half-closing and draining leaves it deaf.             *)
NeverStuck ==
  AtRest =>
    \/ "in" \in conn.interest /\ session.phase = "reading"
    \/ "out" \in conn.interest /\ hasPendingOutput(conn) /\ session.phase \in {"interim", "writing", "closing"}
    \/ conn.continuation = session.generation /\ session.phase = "awaiting"

(* The connection's read deadline is there while a request is being         *)
(* received, and only then: it neither lapses nor cuts a response off.      *)
DeadlineFollowsRequest ==
  AtRest => (conn.readDeadline <=>
    session.phase \in {"reading", "interim"} /\ session.requestPending /\ ~conn.draining)

(* The requests counted in the metrics follow HttpExchange.                 *)
Exchange == INSTANCE HttpExchange WITH open <- session.requestPending, outcomes <- counted

CountedOnce == Exchange!Spec

(* A request that waits for the executor does not wait for ever.            *)
AwaitEnds == session.phase = "awaiting" ~> (session.phase # "awaiting" \/ pc = "gone")
=============================================================================
