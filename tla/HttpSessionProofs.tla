------------------------- MODULE HttpSessionProofs -------------------------
(***************************************************************************)
(* Proofs, for every window, response size and number of requests, that a   *)
(* connection and its session keep each other's books.  The inductive       *)
(* invariant is IInv.                                                       *)
(***************************************************************************)
EXTENDS HttpSession, TLAPS

(* The records without the bounds on their numbers, which follow from how   *)
(* the numbers are related.                                                 *)
Conns ==
  [state : {"active", "closing"}, draining : BOOLEAN, inputStopped : BOOLEAN,
   readPaused : BOOLEAN, handlingEvent : BOOLEAN, closeRequested : BOOLEAN,
   eof : BOOLEAN, interest : SUBSET {"in", "out"}, idleWait : BOOLEAN,
   readDeadline : BOOLEAN, continuation : Nat, input : Nat,
   pending : Nat, file : BOOLEAN, outputLease : Nat, answer : Nat]

Sessions ==
  [phase : {"reading", "interim", "awaiting", "writing", "closing"},
   completed : BOOLEAN, close : BOOLEAN, requestPending : BOOLEAN,
   requestLease : BOOLEAN, readDeadline : {"none", "set", "past"},
   job : Nat, jobLate : BOOLEAN, generation : Nat,
   requestBytes : BOOLEAN, headersSeen : BOOLEAN, requests : Nat]

Typed ==
  /\ conn \in Conns /\ session \in Sessions
  /\ pc \in {"poll", "read", "flush", "finish", "gone"}
  /\ stage \in {"none", "message", "admit", "parse"}
  /\ socket \in [pieces : Nat, sent : Nat, eof : BOOLEAN]
  /\ ready \subseteq jobs
  /\ counted \in Seq({"completed", "aborted"}) /\ answered \in Seq(Nat)

Bounds ==
  /\ conn.continuation <= session.generation /\ session.generation <= session.requests
  /\ conn.answer <= session.requests + 1 /\ session.job <= session.requests
  /\ session.requests <= MaxRequests
  /\ socket.pieces <= socket.sent /\ socket.sent <= MaxRequests
  /\ conn.input <= MaxInput /\ conn.pending <= MaxOutput

(* Where the loop is: an event is being handled exactly between its start   *)
(* and its end; onMessage runs only within one, on an active connection     *)
(* whose session is reading.                                                *)
Control ==
  /\ conn.handlingEvent <=> pc \in {"read", "flush", "finish"}
  /\ stage # "none" => /\ pc \in {"read", "flush", "finish"} /\ conn.state = "active"
                       /\ session.phase = "reading"
  /\ stage = "admit" => session.requestPending
  /\ stage = "parse" => session.requestPending \/ conn.input = 0
  /\ pc = "gone" => /\ conn.state = "closing" /\ ~session.requestPending
                    /\ conn.pending = 0 /\ session.job = 0

(* What each phase of the session means for an active connection.           *)
Phases ==
  conn.state = "active" =>
    /\ session.phase # "closing"
    /\ session.phase \in {"interim", "writing"} <=> conn.pending > 0
    /\ session.phase = "interim" => conn.pending = 1 /\ conn.answer = 0 /\ session.requestPending
    /\ session.phase = "writing" => conn.answer = Len(answered) + 1
    /\ session.phase = "writing" /\ ~session.requestPending => session.close
    /\ session.phase = "awaiting" => /\ session.requestPending
                                     /\ conn.continuation = session.generation
    /\ session.phase # "awaiting" => conn.continuation = 0
    /\ session.phase # "reading" => conn.readPaused
    /\ session.phase = "reading" /\ stage = "none" => ~conn.readPaused /\ ~conn.eof
    /\ conn.inputStopped <=> conn.draining
    /\ conn.draining => session.phase \in {"interim", "writing"}

(* The interest is up to date whenever the loop waits.                      *)
Interest ==
  AtRest =>
    /\ "in" \in conn.interest <=> ~conn.inputStopped /\ ~conn.readPaused /\ ~conn.eof
    /\ "out" \in conn.interest <=> conn.pending > 0

(* The leases and the job.                                                  *)
Leases ==
  /\ conn.outputLease = conn.pending
  /\ session.requestLease => session.requestPending
  /\ session.requestPending /\ ~session.requestLease => stage = "admit"
  /\ stage = "admit" => ~session.requestLease
  /\ jobs = IF session.job = 0 THEN {} ELSE {session.job}
  /\ session.job # 0 /\ conn.state = "active" => session.phase = "awaiting"

(* The deadline lasts as long as the request's lease while it is received.  *)
Deadline ==
  conn.state = "active" =>
    (conn.readDeadline <=>
      session.phase \in {"reading", "interim"} /\ session.requestLease /\ ~conn.draining)

(* A request is begun by a piece of input of its own, which may not be      *)
(* consumed yet: so there are no more requests than pieces sent.            *)
Unread == session.requestPending /\ ~session.requestBytes

Input ==
  conn.state = "active" =>
    /\ session.requests + conn.input + socket.pieces <= socket.sent + 1
    /\ ~Unread => session.requests + conn.input + socket.pieces <= socket.sent
    /\ Unread => stage \in {"admit", "parse"} /\ conn.input > 0
    /\ session.phase = "reading" /\ session.requestBytes => session.requestPending

(* Requests, outcomes, answers and jobs are numbered alike.                 *)
Numbers ==
  /\ session.requestPending => Len(counted) + 1 = session.requests
  /\ ~session.requestPending => Len(counted) = session.requests
  /\ \A i \in 1 .. Len(answered) : answered[i] = i
  /\ Len(answered) <= session.requests + 1
  /\ conn.state = "active" =>
       /\ session.requestPending => Len(answered) + 1 = session.requests
       /\ ~session.requestPending => Len(answered) = session.requests
       /\ session.phase \in {"reading", "interim"} /\ session.requestPending =>
            session.generation < session.requests
       /\ \A i \in 1 .. Len(counted) : counted[i] = "completed"

IInv ==
  Typed /\ Bounds /\ Control /\ Phases /\ Interest /\ Leases /\ Deadline /\ Input /\ Numbers

-----------------------------------------------------------------------------
(* What the operators on connections do, field by field.                    *)

(* The fields that closing leaves alone.                                    *)
SameRest(d, c) ==
  /\ d.draining = c.draining /\ d.inputStopped = c.inputStopped
  /\ d.readPaused = c.readPaused /\ d.handlingEvent = c.handlingEvent
  /\ d.eof = c.eof /\ d.input = c.input /\ d.pending = c.pending
  /\ d.outputLease = c.outputLease /\ d.answer = c.answer

(* requestClose leaves a connection that waits for nothing.                 *)
LEMMA RequestClose ==
  ASSUME NEW c \in Conns
  PROVE  /\ requestClose(c) \in Conns
         /\ requestClose(c).state = "closing" /\ requestClose(c).continuation = 0
         /\ SameRest(requestClose(c), c)
BY Zenon DEF Conns, requestClose, SameRest

(* updateInterest asks for input that may be taken and for room for output. *)
LEMMA UpdateInterest ==
  ASSUME NEW c \in Conns
  PROVE  /\ updateInterest(c) \in Conns
         /\ SameRest(updateInterest(c), c)
         /\ updateInterest(c).state = c.state
         /\ updateInterest(c).continuation = c.continuation
         /\ updateInterest(c).readDeadline = c.readDeadline
         /\ "in" \in updateInterest(c).interest <=> ~c.inputStopped /\ ~c.readPaused /\ ~c.eof
         /\ "out" \in updateInterest(c).interest <=> c.pending > 0
<1>. DEFINE i == (IF ~c.inputStopped /\ ~c.readPaused /\ ~c.eof THEN {"in"} ELSE {})
                 \cup (IF hasPendingOutput(c) THEN {"out"} ELSE {})
<1>1. /\ i \in SUBSET {"in", "out"}
      /\ "in" \in i <=> ~c.inputStopped /\ ~c.readPaused /\ ~c.eof
      /\ "out" \in i <=> c.pending > 0
  BY Zenon DEF hasPendingOutput
<1>2. updateInterest(c) = [c EXCEPT !.interest = i]
  BY Zenon DEF updateInterest
<1>. HIDE DEF i
<1>. QED  BY <1>1, <1>2 DEF Conns, SameRest

(* Within an event nothing but the change itself; outside, the interest too.*)
LEMMA UpdatedFacts ==
  ASSUME NEW c \in Conns, c.state = "active"
  PROVE  /\ Updated(c) \in Conns
         /\ SameRest(Updated(c), c)
         /\ Updated(c).state = "active"
         /\ Updated(c).continuation = c.continuation
         /\ Updated(c).readDeadline = c.readDeadline
         /\ ~c.handlingEvent =>
              /\ "in" \in Updated(c).interest <=> ~c.inputStopped /\ ~c.readPaused /\ ~c.eof
              /\ "out" \in Updated(c).interest <=> c.pending > 0
<1>1. CASE c.handlingEvent
  <2>1. Updated(c) = c
    BY Zenon, <1>1 DEF Updated
  <2>. QED  BY Zenon, <1>1, <2>1 DEF SameRest
<1>2. CASE ~c.handlingEvent
  <2>1. Updated(c) = updateInterest(c)
    BY Zenon, <1>2 DEF Updated
  <2>. QED  BY Zenon, <1>2, <2>1, UpdateInterest
<1>. QED  BY Zenon, <1>1, <1>2

(* finishPendingRequest counts the request that is pending, if any.         *)
LEMMA Counting ==
  ASSUME IInv, NEW h \in Sessions, h.requestPending = session.requestPending,
         NEW outcome \in {"completed", "aborted"}
  PROVE  /\ Counted(h, outcome) \in Seq({"completed", "aborted"})
         /\ Len(Counted(h, outcome)) = session.requests
         /\ (conn.state = "active" /\ outcome = "completed") =>
              \A i \in 1 .. Len(Counted(h, outcome)) : Counted(h, outcome)[i] = "completed"
<1>1. /\ counted \in Seq({"completed", "aborted"})
      /\ session.requestPending => Len(counted) + 1 = session.requests
      /\ ~session.requestPending => Len(counted) = session.requests
      /\ conn.state = "active" => \A i \in 1 .. Len(counted) : counted[i] = "completed"
  BY Zenon DEF IInv, Typed, Numbers
<1>2. CASE session.requestPending
  <2>1. Counted(h, outcome) = Append(counted, outcome)
    BY Zenon, <1>2 DEF Counted
  <2>. QED  BY <1>1, <1>2, <2>1
<1>3. CASE ~session.requestPending
  <2>1. Counted(h, outcome) = counted
    BY Zenon, <1>3 DEF Counted
  <2>. QED  BY Zenon, <1>1, <1>3, <2>1
<1>. QED  BY Zenon, <1>2, <1>3

(* Whatever closes the connection: the output is what it was or less, the   *)
(* request is still pending and uncounted, or finished and counted.         *)
LEMMA Closes ==
  ASSUME IInv, conn.state = "active",
         NEW c \in Conns, conn' = requestClose(c),
         c.handlingEvent <=> pc' \in {"read", "flush", "finish"}, c.pending <= conn.pending,
         c.outputLease = c.pending, c.input <= conn.input, c.answer = conn.answer,
         session' \in Sessions, session'.requests = session.requests,
         session'.generation <= session.requests, session'.job <= session.requests,
         jobs' = IF session'.job = 0 THEN {} ELSE {session'.job}, ready' \subseteq jobs',
         session'.requestLease = session'.requestPending,
         \/ session'.requestPending /\ session.requestPending /\ UNCHANGED counted
         \/ /\ ~session'.requestPending
            /\ counted' \in Seq({"completed", "aborted"}) /\ Len(counted') = session.requests,
         answered' \in Seq(Nat), \A i \in 1 .. Len(answered') : answered'[i] = i,
         Len(answered') <= session.requests + 1,
         stage' = "none", pc' \in {"poll", "read", "flush", "finish"}, UNCHANGED socket
  PROVE  IInv'
<1>1. /\ conn' \in Conns /\ conn'.state = "closing" /\ conn'.continuation = 0
      /\ conn'.handlingEvent = c.handlingEvent /\ conn'.pending = c.pending
      /\ conn'.outputLease = c.outputLease /\ conn'.input = c.input /\ conn'.answer = conn.answer
  BY Zenon, RequestClose DEF SameRest
<1>2. Typed'
  BY Zenon, <1>1 DEF IInv, Typed
<1>3. Bounds'
  <2>1. /\ conn'.continuation = 0 /\ conn'.input <= conn.input /\ conn'.pending <= conn.pending
        /\ conn'.input \in Nat /\ conn'.pending \in Nat /\ session'.generation \in Nat
        /\ session'.job \in Nat
    BY Zenon, <1>1 DEF Conns, Sessions
  <2>2. /\ conn.input \in Nat /\ conn.pending \in Nat /\ session.requests \in Nat
    BY Zenon DEF IInv, Typed, Conns, Sessions
  <2>. QED  BY SMTT(30), <2>1, <2>2, <1>1, SessionAssumption DEF IInv, Bounds
<1>4. Control'
  BY Zenon, <1>1 DEF IInv, Control, Typed
<1>5. Phases' /\ Interest' /\ Deadline' /\ Input'
  BY Zenon, <1>1 DEF Phases, Interest, Deadline, Input, AtRest
<1>6. Leases'
  BY Zenon, <1>1 DEF Leases
<1>7. Numbers'
  BY Zenon, <1>1 DEF IInv, Numbers
<1>. QED  BY Zenon, <1>2, <1>3, <1>4, <1>5, <1>6, <1>7 DEF IInv

(* closeResourceRejected, whatever has been done to the connection and to   *)
(* the session before.                                                      *)
LEMMA Rejected ==
  ASSUME IInv, conn.state = "active",
         NEW c \in Conns, NEW h \in Sessions, closeResourceRejected(c, h),
         c.handlingEvent = conn.handlingEvent, c.pending = conn.pending,
         c.outputLease = conn.pending, c.input <= conn.input, c.answer = conn.answer,
         h.requestPending = session.requestPending, h.requests = session.requests,
         h.generation <= session.requests, h.job = 0,
         jobs' = {}, ready' = {}, UNCHANGED <<answered, pc, socket>>, stage' = "none"
  PROVE  IInv'
<1>1. /\ session' \in Sessions /\ session'.requests = h.requests
      /\ session'.generation = h.generation /\ session'.job = h.job
      /\ session'.requestLease = FALSE /\ session'.requestPending = FALSE
  BY Zenon DEF closeResourceRejected, Finished, Sessions
<1>2. conn' = requestClose(c) /\ counted' = Counted(h, "aborted")
  BY Zenon DEF closeResourceRejected
<1>3. counted' \in Seq({"completed", "aborted"}) /\ Len(counted') = session.requests
  BY Zenon, <1>2, Counting
<1>4. /\ session'.job <= session.requests /\ pc # "gone"
      /\ answered' \in Seq(Nat) /\ \A i \in 1 .. Len(answered') : answered'[i] = i
      /\ Len(answered') <= session.requests + 1
      /\ pc' \in {"poll", "read", "flush", "finish"}
      /\ c.pending \in Nat /\ c.pending <= conn.pending
      /\ c.handlingEvent <=> pc' \in {"read", "flush", "finish"}
  BY <1>1 DEF IInv, Typed, Numbers, Control, Sessions, Conns
<1>. QED  BY Zenon, <1>1, <1>2, <1>3, <1>4, Closes

(* sendFinalResponse, on a connection c that is paused and has no output,   *)
(* for a session h that has no job any more.                                *)
LEMMA Responds ==
  ASSUME IInv, conn.state = "active",
         NEW c \in Conns, NEW h \in Sessions, NEW close \in BOOLEAN,
         sendFinalResponse(c, h, close),
         session.phase \in {"reading", "awaiting"}, stage = "none" => pc = "poll",
         session.requestPending \/ close,
         c.state = "active", c.handlingEvent = conn.handlingEvent, c.pending = 0,
         c.outputLease = 0, c.input <= conn.input, c.answer = conn.answer, c.continuation = 0,
         ~c.draining, ~c.inputStopped, c.readPaused, ~c.readDeadline,
         session.requests + c.input + socket.pieces <= socket.sent,
         h.requestPending = session.requestPending, h.requestLease = session.requestLease,
         session.requestLease = session.requestPending,
         h.requestBytes \/ ~h.requestPending, h.requests = session.requests,
         h.generation <= session.requests, h.job = 0,
         jobs' = {}, ready' = {}, UNCHANGED <<answered, pc, socket>>, stage' = "none"
  PROVE  IInv'
<1>. DEFINE g == [h EXCEPT !.phase = "writing", !.close = close, !.completed = TRUE]
<1>1. /\ g \in Sessions /\ g.phase = "writing" /\ g.close = close
      /\ g.requestPending = h.requestPending /\ g.requestLease = h.requestLease
      /\ g.requests = h.requests /\ g.generation = h.generation /\ g.job = h.job
      /\ g.requestBytes = h.requestBytes
  BY Zenon DEF Sessions
<1>2. CASE closeResourceRejected(c, g)
  <2>1. conn.pending = 0
    BY SMTT(30) DEF IInv, Typed, Conns, Phases
  <2>. QED  BY Zenon, <1>1, <1>2, <2>1, Rejected
<1>3. ASSUME NEW size \in 1 .. MaxOutput, NEW file \in BOOLEAN,
             session' = g, conn' = queueOutput(c, Answering(h), size, file), UNCHANGED counted
      PROVE  IInv'
  <2>. DEFINE a == Answering(h)
              d == [c EXCEPT !.pending = size, !.outputLease = size, !.file = file, !.answer = a]
  <2>1. /\ size \in Nat /\ size > 0 /\ size <= MaxOutput /\ a \in Nat
        /\ session.requestPending => a = session.requests
        /\ ~session.requestPending => a = session.requests + 1
    BY SessionAssumption DEF Answering, Sessions
  <2>2. conn' = Updated(d)
    <3>1. c.pending + size = size /\ c.outputLease + size = size
      BY <2>1
    <3>. QED  BY Zenon, <1>3, <3>1 DEF queueOutput
  <2>. HIDE DEF a
  <2>3. /\ d \in Conns /\ d.pending = size /\ d.outputLease = size /\ d.answer = a
        /\ d.state = "active" /\ d.handlingEvent = c.handlingEvent /\ d.input = c.input
        /\ d.continuation = 0 /\ d.draining = c.draining /\ d.inputStopped = c.inputStopped
        /\ d.readPaused = c.readPaused /\ d.readDeadline = c.readDeadline /\ d.eof = c.eof
    BY ZenonT(30), <2>1 DEF Conns
  <2>. HIDE DEF d, g
  <2>4. /\ conn' \in Conns /\ conn'.pending = size /\ conn'.outputLease = size /\ conn'.answer = a
        /\ conn'.state = "active" /\ conn'.handlingEvent = conn.handlingEvent
        /\ conn'.input = c.input /\ conn'.continuation = 0
        /\ ~conn'.draining /\ ~conn'.inputStopped /\ conn'.readPaused /\ ~conn'.readDeadline
        /\ ~conn.handlingEvent => "in" \notin conn'.interest /\ "out" \in conn'.interest
    <3>1. /\ conn' \in Conns /\ SameRest(conn', d) /\ conn'.state = "active"
          /\ conn'.continuation = d.continuation /\ conn'.readDeadline = d.readDeadline
          /\ ~d.handlingEvent =>
               /\ "in" \in conn'.interest <=> ~d.inputStopped /\ ~d.readPaused /\ ~d.eof
               /\ "out" \in conn'.interest <=> d.pending > 0
      BY Zenon, <2>2, <2>3, UpdatedFacts
    <3>. QED  BY ZenonT(30), <2>1, <2>3, <3>1 DEF SameRest
  <2>5. Typed'
    BY Zenon, <1>1, <1>3, <2>4 DEF IInv, Typed
  <2>6. /\ session.requests \in Nat /\ h.generation \in Nat /\ c.input \in Nat /\ conn.input \in Nat
        /\ Len(answered) \in Nat /\ socket.pieces \in Nat /\ socket.sent \in Nat /\ pc # "gone"
        /\ session.requestPending => Len(answered) + 1 = session.requests
        /\ ~session.requestPending => Len(answered) = session.requests
    BY DEF IInv, Typed, Numbers, Conns, Sessions, Control
  <2>7. Bounds'
    <3>1. /\ conn'.continuation <= session'.generation /\ session'.generation <= session'.requests
          /\ conn'.answer <= session'.requests + 1 /\ session'.job <= session'.requests
      BY SMTT(30), <1>1, <1>3, <2>1, <2>4, <2>6
    <3>2. conn'.input <= MaxInput /\ conn'.pending <= MaxOutput
      BY <2>1, <2>4, <2>6, SessionAssumption DEF IInv, Bounds
    <3>. QED  BY Zenon, <1>1, <1>3, <3>1, <3>2 DEF IInv, Bounds
  <2>8. Control'
    BY Zenon, <1>1, <1>3, <2>4, <2>6 DEF IInv, Control
  <2>9. Phases'
    BY Zenon, <1>1, <1>3, <2>1, <2>4, <2>6 DEF Phases
  <2>10. Interest'
    BY Zenon, <2>1, <2>4 DEF IInv, Interest, AtRest, Control
  <2>11. Leases'
    BY Zenon, <1>1, <1>3, <2>4 DEF Leases
  <2>12. Deadline'
    BY Zenon, <1>1, <1>3, <2>4 DEF Deadline
  <2>13. Input'
    BY SMTT(30), <1>1, <1>3, <2>4, <2>6 DEF Input, Unread
  <2>14. Numbers'
    BY ZenonT(30), <1>1, <1>3, <2>4 DEF IInv, Numbers
  <2>. QED  BY Zenon, <2>5, <2>7, <2>8, <2>9, <2>10, <2>11, <2>12, <2>13, <2>14 DEF IInv
<1>4. \/ \E size \in 1 .. MaxOutput, file \in BOOLEAN :
           session' = g /\ conn' = queueOutput(c, Answering(h), size, file) /\ UNCHANGED counted
      \/ closeResourceRejected(c, g)
  BY Zenon DEF sendFinalResponse
<1>. HIDE DEF g
<1>. QED  BY Zenon, <1>2, <1>3, <1>4

(* Where onMessage stands: the connection is active, within an event, and   *)
(* has neither output nor a job; the session is reading.                    *)
LEMMA OnMessage ==
  ASSUME IInv, stage # "none"
  PROVE  /\ conn \in Conns /\ session \in Sessions /\ conn.state = "active"
         /\ conn.handlingEvent /\ pc \in {"read", "flush", "finish"}
         /\ session.phase = "reading" /\ ~conn.draining /\ ~conn.inputStopped
         /\ conn.pending = 0 /\ conn.outputLease = 0 /\ conn.continuation = 0
         /\ session.job = 0 /\ jobs = {} /\ ready = {}
         /\ session.requestPending => session.generation < session.requests
         /\ session.requests \in Nat /\ session.generation \in Nat /\ conn.input \in Nat
         /\ socket.pieces \in Nat /\ socket.sent \in Nat
<1>1. /\ conn \in Conns /\ session \in Sessions /\ socket.pieces \in Nat /\ socket.sent \in Nat
      /\ session.requests \in Nat /\ session.generation \in Nat /\ conn.input \in Nat
      /\ conn.pending \in Nat
  BY Zenon DEF IInv, Typed, Conns, Sessions
<1>2. /\ conn.state = "active" /\ conn.handlingEvent /\ pc \in {"read", "flush", "finish"}
      /\ session.phase = "reading"
  BY Zenon DEF IInv, Control
<1>3. ~conn.draining /\ ~conn.inputStopped /\ conn.continuation = 0 /\ conn.pending = 0
  BY <1>1, <1>2 DEF IInv, Phases
<1>4. conn.outputLease = 0 /\ session.job = 0 /\ jobs = {} /\ ready = {}
  BY Zenon, <1>2, <1>3 DEF IInv, Leases, Typed
<1>. QED  BY Zenon, <1>1, <1>2, <1>3, <1>4 DEF IInv, Numbers

(* The turn from a request to its response, within an event.                *)
LEMMA RespondingFacts ==
  ASSUME NEW c \in Conns, NEW h \in Sessions, c.state = "active", c.handlingEvent, ~c.draining
  PROVE  /\ Responding(c, h)[1] \in Conns
         /\ Responding(c, h)[1].state = "active" /\ Responding(c, h)[1].handlingEvent
         /\ Responding(c, h)[1].readPaused /\ ~Responding(c, h)[1].readDeadline
         /\ Responding(c, h)[1].draining = c.draining
         /\ Responding(c, h)[1].inputStopped = c.inputStopped
         /\ Responding(c, h)[1].pending = c.pending
         /\ Responding(c, h)[1].outputLease = c.outputLease
         /\ Responding(c, h)[1].input = c.input /\ Responding(c, h)[1].answer = c.answer
         /\ Responding(c, h)[1].continuation = c.continuation
         /\ Responding(c, h)[2] \in Sessions /\ Responding(c, h)[2].requestBytes
         /\ Responding(c, h)[2].requestPending = h.requestPending
         /\ Responding(c, h)[2].requestLease = h.requestLease
         /\ Responding(c, h)[2].requests = h.requests
         /\ Responding(c, h)[2].generation = h.generation /\ Responding(c, h)[2].job = h.job
<1>. DEFINE never == FALSE
            always == TRUE
            d == [c EXCEPT !.readDeadline = never]
            e == [d EXCEPT !.idleWait = never]
            k == [e EXCEPT !.readPaused = always]
            g == [[[h EXCEPT !.readDeadline = "none"] EXCEPT !.phase = "writing"]
                    EXCEPT !.requestBytes = always]
<1>1. ClearedDeadline(c) = d
  BY Zenon DEF ClearedDeadline, setReadDeadline
<1>2. Responding(c, h) = <<pauseReading(e), g>>
  BY Zenon, <1>1 DEF Responding
<1>3. never \in BOOLEAN /\ always \in BOOLEAN /\ ~never /\ always
  OBVIOUS
<1>. HIDE DEF never, always
<1>4. /\ k \in Conns /\ k.state = "active" /\ k.handlingEvent = c.handlingEvent
      /\ k.readPaused = always /\ k.readDeadline = never /\ k.draining = c.draining
      /\ k.inputStopped = c.inputStopped /\ k.pending = c.pending
      /\ k.outputLease = c.outputLease /\ k.input = c.input /\ k.answer = c.answer
      /\ k.continuation = c.continuation
  BY Zenon, <1>3 DEF Conns
<1>5. pauseReading(e) = k
  BY Zenon, <1>4 DEF pauseReading, Updated, always
<1>6. /\ g \in Sessions /\ g.requestBytes = always /\ g.requestPending = h.requestPending
      /\ g.requestLease = h.requestLease /\ g.requests = h.requests
      /\ g.generation = h.generation /\ g.job = h.job
  BY Zenon, <1>3 DEF Sessions
<1>. HIDE DEF k, g
<1>7. Responding(c, h)[1] = k /\ Responding(c, h)[2] = g
  BY <1>2, <1>5
<1>. QED  BY Zenon, <1>3, <1>4, <1>6, <1>7

-----------------------------------------------------------------------------
(* The steps of onMessage.                                                  *)

(* closeExpiredRequest keeps the request for the destructor to finish.      *)
LEMMA ExpiredStep ==
  ASSUME IInv, stage # "none", stage # "admit", closeExpiredRequest, Returns
  PROVE  IInv'
<1>1. /\ session' \in Sessions /\ session'.requests = session.requests
      /\ session'.generation = session.generation /\ session'.job = session.job
      /\ session'.requestLease = session.requestLease
      /\ session'.requestPending = session.requestPending
  BY Zenon, OnMessage DEF closeExpiredRequest, Sessions
<1>2. /\ conn' = requestClose(conn) /\ stage' = "none" /\ UNCHANGED <<pc, socket>>
      /\ UNCHANGED <<jobs, ready, counted, answered>>
  BY Zenon DEF closeExpiredRequest, Returns
<1>3. /\ session.requestLease = session.requestPending
      /\ session.job <= session.requests /\ session.generation <= session.requests
  BY Zenon, OnMessage DEF IInv, Leases, Bounds, Sessions
<1>4. /\ counted \in Seq({"completed", "aborted"}) /\ answered \in Seq(Nat)
      /\ \A i \in 1 .. Len(answered) : answered[i] = i
      /\ Len(answered) <= session.requests + 1
      /\ ~session.requestPending => Len(counted) = session.requests
      /\ conn.pending <= conn.pending /\ conn.input <= conn.input
      /\ conn.outputLease = conn.pending /\ session.requestPending \in BOOLEAN
  BY SMTT(30), OnMessage DEF IInv, Typed, Numbers, Conns, Sessions
<1>. QED  BY Zenon, OnMessage, <1>1, <1>2, <1>3, <1>4, Closes

(* The beginning of onMessage keeps the invariant: it begins a request at   *)
(* most when there is input for one.                                        *)
LEMMA MessageStep ==
  ASSUME IInv, Message
  PROVE  IInv'
<1>0. stage = "message"
  BY Zenon DEF Message
<1>1. MayTakeInput
  BY Zenon, <1>0, OnMessage DEF MayTakeInput
<1>2. CASE closeExpiredRequest /\ Returns
  BY Zenon, <1>0, <1>2, ExpiredStep
<1>3. CASE ~Expired /\ UNCHANGED <<conn, pc, socket, jobs, ready, counted, answered>>
  <2>. DEFINE begins == ~session.requestPending /\ conn.input > 0
  <2>0. /\ stage' = IF begins THEN "admit" ELSE "parse"
        /\ session' = IF begins THEN [session EXCEPT !.requestPending = TRUE, !.requests = @ + 1]
                      ELSE session
    BY Zenon, <1>0, <1>1, <1>3 DEF Message, closeExpiredRequest, Expired
  <2>1. CASE begins
    <3>1. /\ session' \in Sessions /\ session'.requestPending
          /\ session'.requests = session.requests + 1
          /\ session'.phase = session.phase /\ session'.requestLease = session.requestLease
          /\ session'.job = session.job /\ session'.generation = session.generation
          /\ session'.requestBytes = session.requestBytes /\ session'.close = session.close
      <4>. DEFINE always == TRUE
                  n == session.requests + 1
      <4>1. session' = [session EXCEPT !.requestPending = always, !.requests = n]
        BY Zenon, <2>0, <2>1
      <4>2. always \in BOOLEAN /\ always /\ session \in Sessions /\ n \in Nat
        BY <1>0, OnMessage
      <4>. HIDE DEF always, n
      <4>3. /\ session' \in Sessions /\ session'.requestPending = always
            /\ session'.requests = n
            /\ session'.phase = session.phase /\ session'.requestLease = session.requestLease
            /\ session'.job = session.job /\ session'.generation = session.generation
            /\ session'.requestBytes = session.requestBytes /\ session'.close = session.close
        BY Zenon, <4>1, <4>2 DEF Sessions
      <4>. QED  BY Zenon, <4>2, <4>3 DEF n
    <3>2. stage' = "admit" /\ conn.input > 0 /\ ~session.requestPending
      BY Zenon, <2>0, <2>1
    <3>. HIDE DEF begins
    <3>3. Typed'
      BY Zenon, <1>3, <3>1, <3>2 DEF IInv, Typed
    <3>4. Bounds'
      <4>1. session.requests + conn.input + socket.pieces <= socket.sent
        BY Zenon, <1>0, <3>2, OnMessage DEF IInv, Input, Unread
      <4>2. session.requests + 1 <= MaxRequests
        BY <1>0, <3>2, <4>1, OnMessage, SessionAssumption DEF IInv, Bounds
      <4>3. /\ session.job \in Nat /\ conn.answer \in Nat /\ conn.continuation \in Nat
            /\ session.requests \in Nat /\ session.generation \in Nat
        BY Zenon, <1>0, OnMessage DEF Sessions, Conns
      <4>. QED  BY <1>3, <3>1, <4>2, <4>3 DEF IInv, Bounds
    <3>5. Control'
      BY Zenon, <1>0, <1>3, <3>1, <3>2, OnMessage DEF IInv, Control
    <3>6. Phases' /\ Interest'
      BY Zenon, <1>0, <1>3, <3>1, <3>2, OnMessage DEF IInv, Phases, Interest, AtRest
    <3>7. Leases' /\ Deadline'
      BY Zenon, <1>0, <1>3, <3>1, <3>2, OnMessage DEF IInv, Leases, Deadline
    <3>8. Input'
      BY <1>0, <1>3, <3>1, <3>2, OnMessage DEF IInv, Input, Unread
    <3>9. Numbers'
      BY SMTT(30), <1>0, <1>3, <3>1, <3>2, OnMessage DEF IInv, Numbers, Bounds
    <3>. QED  BY Zenon, <3>3, <3>4, <3>5, <3>6, <3>7, <3>8, <3>9 DEF IInv
  <2>2. CASE ~begins
    <3>1. session' = session /\ stage' = "parse" /\ (session.requestPending \/ conn.input = 0)
      BY <2>0, <2>2, OnMessage, <1>0
    <3>. HIDE DEF begins
    <3>2. Typed' /\ Bounds' /\ Control' /\ Phases' /\ Interest' /\ Leases' /\ Deadline' /\ Numbers'
      BY ZenonT(30), <1>0, <1>3, <3>1, OnMessage
      DEF IInv, Typed, Bounds, Control, Phases, Interest, AtRest, Leases, Deadline, Numbers
    <3>3. Input'
      BY Zenon, <1>0, <1>3, <3>1, OnMessage DEF IInv, Input, Unread
    <3>. QED  BY Zenon, <3>2, <3>3 DEF IInv
  <2>. QED  BY Zenon, <2>1, <2>2
<1>. QED  BY Zenon, <1>1, <1>2, <1>3 DEF Message

(* Admission to the input budget keeps the invariant: the lease and the two *)
(* copies of the deadline start together, or the connection closes.         *)
LEMMA AdmitStep ==
  ASSUME IInv, Admit
  PROVE  IInv'
<1>0. stage = "admit" /\ UNCHANGED <<jobs, ready, answered>>
  BY Zenon DEF Admit
<1>1. CASE closeResourceRejected(conn, session) /\ Returns
  <2>1. session.generation <= session.requests /\ conn.input <= conn.input
    BY <1>0, OnMessage DEF IInv, Bounds
  <2>. QED  BY Zenon, <1>0, <1>1, <2>1, OnMessage, Rejected DEF Returns
<1>2. CASE /\ session' = [session EXCEPT !.requestLease = TRUE, !.readDeadline = "set"]
           /\ conn' = setReadDeadline(conn, TRUE)
           /\ stage' = "parse" /\ UNCHANGED <<pc, socket, counted>>
  <2>1. /\ session' \in Sessions /\ session'.requestLease
        /\ session'.phase = session.phase /\ session'.requestPending = session.requestPending
        /\ session'.requests = session.requests /\ session'.job = session.job
        /\ session'.generation = session.generation /\ session'.close = session.close
        /\ session'.requestBytes = session.requestBytes
    <3>. DEFINE always == TRUE
    <3>1. session' = [session EXCEPT !.requestLease = always, !.readDeadline = "set"]
      BY Zenon, <1>2
    <3>2. always \in BOOLEAN /\ always /\ session \in Sessions
      BY Zenon, <1>0, OnMessage
    <3>. HIDE DEF always
    <3>3. /\ session' \in Sessions /\ session'.requestLease = always
          /\ session'.phase = session.phase /\ session'.requestPending = session.requestPending
          /\ session'.requests = session.requests /\ session'.job = session.job
          /\ session'.generation = session.generation /\ session'.close = session.close
          /\ session'.requestBytes = session.requestBytes
      BY Zenon, <3>1, <3>2 DEF Sessions
    <3>. QED  BY Zenon, <3>2, <3>3
  <2>2. /\ conn' \in Conns /\ conn'.readDeadline /\ SameRest(conn', conn)
        /\ conn'.state = conn.state /\ conn'.continuation = conn.continuation
    <3>. DEFINE always == TRUE
    <3>1. conn' = [conn EXCEPT !.readDeadline = always]
      BY Zenon, <1>0, <1>2, OnMessage DEF setReadDeadline
    <3>2. always \in BOOLEAN /\ always /\ conn \in Conns
      BY Zenon, <1>0, OnMessage
    <3>. HIDE DEF always
    <3>3. /\ conn' \in Conns /\ conn'.readDeadline = always /\ SameRest(conn', conn)
          /\ conn'.state = conn.state /\ conn'.continuation = conn.continuation
      BY Zenon, <3>1, <3>2 DEF Conns, SameRest
    <3>. QED  BY Zenon, <3>2, <3>3
  <2>3. stage' = "parse" /\ UNCHANGED <<pc, socket, counted, jobs, ready, answered>>
    BY Zenon, <1>0, <1>2
  <2>. USE <1>0, <2>1, <2>2, <2>3, OnMessage DEF SameRest
  <2>4. Typed'
    BY Zenon DEF IInv, Typed
  <2>5. Bounds'
    BY Zenon DEF IInv, Bounds
  <2>6. Control'
    BY Zenon DEF IInv, Control
  <2>7. Phases' /\ Interest'
    BY Zenon DEF IInv, Phases, Interest, AtRest
  <2>8. Leases' /\ Deadline'
    BY ZenonT(30) DEF IInv, Leases, Deadline, Control
  <2>9. Input'
    BY Zenon DEF IInv, Input, Unread
  <2>10. Numbers'
    BY ZenonT(30) DEF IInv, Numbers
  <2>. QED  BY Zenon, <2>4, <2>5, <2>6, <2>7, <2>8, <2>9, <2>10 DEF IInv
<1>. QED  BY Zenon, <1>1, <1>2 DEF Admit

(* The parser consumes input and changes nothing else of the connection;    *)
(* a request has had a piece of its own by then.                            *)
LEMMA ConsumedFacts ==
  ASSUME IInv, stage = "parse", NEW rest \in Nat, rest < conn.input \/ rest = 0
  PROVE  /\ Consumed(rest) \in Conns /\ Consumed(rest).input = rest
         /\ Consumed(rest).state = "active" /\ Consumed(rest).handlingEvent
         /\ Consumed(rest).draining = FALSE /\ Consumed(rest).inputStopped = FALSE
         /\ Consumed(rest).pending = 0 /\ Consumed(rest).outputLease = 0
         /\ Consumed(rest).answer = conn.answer /\ Consumed(rest).continuation = 0
         /\ Consumed(rest).readDeadline = conn.readDeadline /\ Consumed(rest).eof = conn.eof
         /\ rest <= conn.input
         /\ session.requests + rest + socket.pieces <= socket.sent
         /\ session.requestLease = session.requestPending
         /\ session.requestPending \/ conn.input = 0
<1>1. /\ Consumed(rest) \in Conns /\ Consumed(rest).input = rest
      /\ Consumed(rest).state = "active" /\ Consumed(rest).handlingEvent
      /\ Consumed(rest).draining = conn.draining /\ Consumed(rest).inputStopped = conn.inputStopped
      /\ Consumed(rest).pending = 0 /\ Consumed(rest).outputLease = 0
      /\ Consumed(rest).answer = conn.answer /\ Consumed(rest).continuation = 0
      /\ Consumed(rest).readDeadline = conn.readDeadline /\ Consumed(rest).eof = conn.eof
  BY Zenon, OnMessage DEF Consumed, Conns
<1>2. conn.draining \in BOOLEAN /\ conn.inputStopped \in BOOLEAN
  BY Zenon, OnMessage DEF Conns
<1>3. rest <= conn.input /\ session.requests + rest + socket.pieces <= socket.sent
  <2>1. CASE Unread
    BY <2>1, OnMessage DEF IInv, Input
  <2>2. CASE ~Unread
    BY <2>2, OnMessage DEF IInv, Input
  <2>. QED  BY Zenon, <2>1, <2>2
<1>4. session.requestLease = session.requestPending
  BY OnMessage DEF IInv, Leases, Sessions
<1>5. session.requestPending \/ conn.input = 0
  BY Zenon DEF IInv, Control
<1>. QED  BY Zenon, <1>1, <1>2, <1>3, <1>4, <1>5, OnMessage

(* sendFinalResponse within onMessage.                                      *)
LEMMA RespondsOnMessage ==
  ASSUME IInv, stage = "parse", NEW k \in Conns, NEW g \in Sessions, NEW close \in BOOLEAN,
         sendFinalResponse(k, g, close), session.requestPending \/ close,
         k.state = "active", k.handlingEvent, k.readPaused, ~k.readDeadline, ~k.draining,
         ~k.inputStopped, k.pending = 0, k.outputLease = 0, k.answer = conn.answer,
         k.continuation = 0, k.input <= conn.input,
         session.requests + k.input + socket.pieces <= socket.sent,
         g.requestBytes, g.requestPending = session.requestPending,
         g.requestLease = session.requestLease, g.requests = session.requests,
         g.generation <= session.requests, g.job = 0,
         UNCHANGED <<jobs, ready, answered>>, Returns
  PROVE  IInv'
<1>1. k.handlingEvent = conn.handlingEvent
  BY Zenon, OnMessage DEF Conns
<1>2. session.requestLease = session.requestPending
  BY Zenon, OnMessage DEF IInv, Leases, Sessions
<1>3. /\ jobs' = {} /\ ready' = {} /\ UNCHANGED <<answered, pc, socket>> /\ stage' = "none"
      /\ session.phase \in {"reading", "awaiting"}
  BY Zenon, OnMessage DEF Returns
<1>. QED  BY Zenon, <1>1, <1>2, <1>3, OnMessage, Responds

(* An incomplete request keeps the invariant: reading goes on, or after the *)
(* end of the input the connection answers or closes.                       *)
LEMMA ParseNeedMoreStep ==
  ASSUME IInv, ParseNeedMore
  PROVE  IInv'
<1>. DEFINE seen == session.requestBytes \/ conn.input > 0
            c == Consumed(0)
            h == [session EXCEPT !.requestBytes = seen]
            r == Responding(c, h)
<1>0. stage = "parse" /\ stage' = "none" /\ UNCHANGED <<pc, socket>>
  BY Zenon DEF ParseNeedMore, Returns
<1>1. seen \in BOOLEAN
  BY Zenon, <1>0, OnMessage DEF Sessions
<1>2. /\ ~seen => ~session.requestBytes /\ ~session.requestPending
      /\ seen <=> session.requestPending
  BY <1>0, OnMessage DEF IInv, Input, Unread, Control
<1>. HIDE DEF seen
<1>3. /\ h \in Sessions /\ h.requestBytes = seen /\ h.phase = "reading"
      /\ h.requestPending = session.requestPending /\ h.requestLease = session.requestLease
      /\ h.requests = session.requests /\ h.generation = session.generation
      /\ h.job = 0 /\ h.close = session.close /\ h.completed = session.completed
  BY Zenon, <1>0, <1>1, OnMessage DEF Sessions
<1>. DEFINE Fields(k) ==
       /\ k \in Conns /\ k.input = 0 /\ k.state = "active" /\ k.handlingEvent
       /\ k.draining = FALSE /\ k.inputStopped = FALSE /\ k.pending = 0 /\ k.outputLease = 0
       /\ k.answer = conn.answer /\ k.continuation = 0 /\ k.readDeadline = conn.readDeadline
       /\ k.eof = conn.eof
<1>4. /\ Fields(c)
      /\ session.requests + 0 + socket.pieces <= socket.sent
      /\ session.requestLease = session.requestPending
  BY Zenon, <1>0, ConsumedFacts
<1>5. CASE /\ ~conn.eof /\ session' = h
           /\ conn' = resumeReading([c EXCEPT !.idleWait = h.completed /\ ~seen /\ c.pending = 0])
           /\ UNCHANGED <<jobs, ready, counted, answered>>
  <2>. DEFINE idle == h.completed /\ ~seen /\ c.pending = 0
              never == FALSE
              d == [c EXCEPT !.idleWait = idle]
              e == [d EXCEPT !.readPaused = never]
  <2>1. idle \in BOOLEAN /\ never \in BOOLEAN /\ ~never /\ conn' = resumeReading(d)
    BY Zenon, <1>5
  <2>. HIDE DEF idle, c
  <2>2. resumeReading(d) = Updated(e)
    BY Zenon DEF resumeReading
  <2>. HIDE DEF never
  <2>3. Fields(e) /\ e.readPaused = never
    BY Zenon, <1>4, <2>1 DEF Conns
  <2>. HIDE DEF e, d
  <2>4. Fields(conn') /\ ~conn'.readPaused
    BY Zenon, <2>1, <2>2, <2>3 DEF Updated
  <2>5. session' \in Sessions
    BY Zenon, <1>3, <1>5
  <2>. HIDE DEF h, r
  <2>. USE <1>0, <1>2, <1>3, <1>4, <1>5, <2>4, OnMessage
  <2>6. Typed'
    BY Zenon DEF IInv, Typed
  <2>7. Bounds'
    BY SessionAssumption DEF IInv, Bounds
  <2>8. Control'
    BY Zenon DEF IInv, Control
  <2>9. Phases' /\ Interest'
    BY ZenonT(30) DEF IInv, Phases, Interest, AtRest
  <2>10. Leases' /\ Deadline'
    BY ZenonT(30) DEF IInv, Leases, Deadline
  <2>11. Input'
    BY DEF Input, Unread
  <2>12. Numbers'
    BY ZenonT(30) DEF IInv, Numbers
  <2>. QED  BY Zenon, <2>6, <2>7, <2>8, <2>9, <2>10, <2>11, <2>12 DEF IInv
<1>6. CASE /\ conn.eof /\ h.completed /\ ~seen
           /\ session' = [h EXCEPT !.phase = "closing"] /\ conn' = closeAfterFlush(c)
           /\ UNCHANGED <<jobs, ready, counted, answered>>
  <2>. DEFINE always == TRUE
              d == [c EXCEPT !.inputStopped = always]
  <2>1. conn' = requestClose(d)
    BY <1>4, <1>6 DEF closeAfterFlush, hasPendingOutput
  <2>2. always \in BOOLEAN
    OBVIOUS
  <2>. HIDE DEF always, c, h
  <2>3. /\ d \in Conns /\ d.input = 0 /\ d.handlingEvent = c.handlingEvent /\ d.pending = 0
        /\ d.outputLease = 0 /\ d.answer = conn.answer
    BY Zenon, <1>4, <2>2 DEF Conns
  <2>4. /\ session' \in Sessions /\ session'.requests = session.requests
        /\ session'.generation = session.generation /\ session'.job = 0
        /\ session'.requestLease = session.requestLease
        /\ session'.requestPending = session.requestPending
    BY Zenon, <1>3, <1>6 DEF Sessions
  <2>5. /\ ~session.requestPending /\ session.generation <= session.requests
        /\ counted \in Seq({"completed", "aborted"}) /\ answered \in Seq(Nat)
        /\ \A i \in 1 .. Len(answered) : answered[i] = i
        /\ Len(answered) <= session.requests + 1 /\ Len(counted) = session.requests
    BY Zenon, <1>2, <1>6 DEF IInv, Typed, Numbers, Bounds
  <2>. HIDE DEF d
  <2>6. d.handlingEvent = conn.handlingEvent
    BY Zenon, <1>0, <1>4, <2>3, OnMessage DEF Conns
  <2>7. /\ d.input <= conn.input /\ d.pending <= conn.pending /\ d.outputLease = d.pending
        /\ session'.job <= session.requests /\ session'.generation <= session.requests
        /\ session'.requestLease = session'.requestPending /\ ~session'.requestPending
    BY <1>0, <1>4, <2>3, <2>4, <2>5, OnMessage
  <2>8. /\ jobs' = {} /\ ready' \subseteq jobs' /\ pc' \in {"poll", "read", "flush", "finish"}
        /\ pc' = pc
    BY Zenon, <1>0, <1>6, OnMessage
  <2>. QED
    BY Zenon, <1>0, <1>6, <2>1, <2>3, <2>4, <2>5, <2>6, <2>7, <2>8, OnMessage, Closes
<1>7. CASE closeExpiredRequest
  BY Zenon, <1>0, <1>7, ExpiredStep DEF Returns
<1>8. CASE sendFinalResponse(r[1], r[2], TRUE) /\ UNCHANGED <<jobs, ready, answered>>
  <2>. HIDE DEF c, h
  <2>. DEFINE k == r[1]
              g == r[2]
  <2>1. /\ k \in Conns /\ k.state = "active" /\ k.handlingEvent /\ k.readPaused
        /\ ~k.readDeadline /\ ~k.draining /\ ~k.inputStopped /\ k.pending = 0
        /\ k.outputLease = 0 /\ k.input = 0 /\ k.answer = conn.answer /\ k.continuation = 0
        /\ g \in Sessions /\ g.requestBytes /\ g.requestPending = session.requestPending
        /\ g.requestLease = session.requestLease /\ g.requests = session.requests
        /\ g.generation = session.generation /\ g.job = 0
    BY <1>3, <1>4, RespondingFacts
  <2>2. sendFinalResponse(k, g, TRUE)
    BY Zenon, <1>8
  <2>. HIDE DEF k, g, r
  <2>3. /\ k.input <= conn.input /\ session.requests + k.input + socket.pieces <= socket.sent
        /\ g.generation <= session.requests
    BY <1>0, <1>4, <2>1, OnMessage DEF IInv, Bounds
  <2>. QED  BY Zenon, <1>0, <1>4, <1>8, <2>1, <2>2, <2>3, RespondsOnMessage DEF Returns
<1>. QED  BY Zenon, <1>5, <1>6, <1>7, <1>8 DEF ParseNeedMore, seen

(* A request that is complete or refused: what Responding leaves, when some *)
(* input may be left.                                                       *)
LEMMA RequestEnds ==
  ASSUME IInv, stage = "parse", NEW rest \in 0 .. conn.input - 1, conn.input > 0
  PROVE  LET k == Responding(Consumed(rest), session)[1]
             g == Responding(Consumed(rest), session)[2]
         IN /\ k \in Conns /\ k.state = "active" /\ k.handlingEvent /\ k.readPaused
            /\ ~k.readDeadline /\ ~k.draining /\ ~k.inputStopped /\ k.pending = 0
            /\ k.outputLease = 0 /\ k.input = rest /\ k.answer = conn.answer /\ k.continuation = 0
            /\ k.input <= conn.input
            /\ session.requests + k.input + socket.pieces <= socket.sent
            /\ g \in Sessions /\ g.requestBytes /\ g.requestPending = session.requestPending
            /\ g.requestLease = session.requestLease /\ g.requests = session.requests
            /\ g.generation = session.generation /\ g.job = 0
            /\ session.requestPending /\ session.requestLease
            /\ session.generation < session.requests
<1>1. rest \in Nat /\ rest < conn.input
  BY OnMessage
<1>2. /\ session.requestPending /\ session.requestLease = session.requestPending
      /\ rest <= conn.input /\ session.requests + rest + socket.pieces <= socket.sent
  <2>1. /\ session.requestPending \/ conn.input = 0
        /\ session.requestLease = session.requestPending
        /\ rest <= conn.input /\ session.requests + rest + socket.pieces <= socket.sent
    BY Zenon, <1>1, ConsumedFacts
  <2>. QED  BY <1>1, <2>1
<1>. DEFINE c == Consumed(rest)
<1>3. /\ c \in Conns /\ c.input = rest /\ c.state = "active" /\ c.handlingEvent
      /\ c.draining = FALSE /\ c.inputStopped = FALSE /\ c.pending = 0 /\ c.outputLease = 0
      /\ c.answer = conn.answer /\ c.continuation = 0
  BY Zenon, <1>1, ConsumedFacts
<1>. HIDE DEF c
<1>. DEFINE k == Responding(c, session)[1]
            g == Responding(c, session)[2]
<1>4. /\ k \in Conns /\ k.state = "active" /\ k.handlingEvent /\ k.readPaused
      /\ ~k.readDeadline /\ k.draining = c.draining /\ k.inputStopped = c.inputStopped
      /\ k.pending = 0 /\ k.outputLease = 0 /\ k.input = rest /\ k.answer = conn.answer
      /\ k.continuation = 0
      /\ g \in Sessions /\ g.requestBytes /\ g.requestPending = session.requestPending
      /\ g.requestLease = session.requestLease /\ g.requests = session.requests
      /\ g.generation = session.generation /\ g.job = 0
  BY <1>3, OnMessage, RespondingFacts
<1>. HIDE DEF k, g
<1>5. session.generation < session.requests /\ session.requestLease
  BY Zenon, <1>2, OnMessage
<1>6. /\ k \in Conns /\ k.state = "active" /\ k.handlingEvent /\ k.readPaused
      /\ ~k.readDeadline /\ ~k.draining /\ ~k.inputStopped /\ k.pending = 0
      /\ k.outputLease = 0 /\ k.input = rest /\ k.answer = conn.answer /\ k.continuation = 0
      /\ k.input <= conn.input
      /\ session.requests + k.input + socket.pieces <= socket.sent
  BY Zenon, <1>2, <1>3, <1>4
<1>. QED  BY Zenon, <1>2, <1>4, <1>5, <1>6 DEF k, g, c

(* The response to a complete or refused request keeps the invariant.       *)
LEMMA ParseEndsStep ==
  ASSUME IInv, ParseEnds
  PROVE  IInv'
<1>1. /\ stage = "parse" /\ conn.input > 0 /\ Returns
  BY Zenon DEF ParseEnds
<1>2. PICK rest \in 0 .. conn.input - 1 :
        \/ closeExpiredRequest
        \/ /\ \E close \in BOOLEAN :
                sendFinalResponse(Responding(Consumed(rest), session)[1],
                                  Responding(Consumed(rest), session)[2], close)
           /\ UNCHANGED <<jobs, ready, answered>>
  BY Zenon DEF ParseEnds
<1>3. CASE closeExpiredRequest
  BY Zenon, <1>1, <1>3, ExpiredStep
<1>4. CASE ~closeExpiredRequest
  <2>. DEFINE k == Responding(Consumed(rest), session)[1]
              g == Responding(Consumed(rest), session)[2]
  <2>1. PICK close \in BOOLEAN : sendFinalResponse(k, g, close)
    BY Zenon, <1>2, <1>4
  <2>2. UNCHANGED <<jobs, ready, answered>>
    BY Zenon, <1>2, <1>4
  <2>3. /\ k \in Conns /\ k.state = "active" /\ k.handlingEvent /\ k.readPaused
        /\ ~k.readDeadline /\ ~k.draining /\ ~k.inputStopped /\ k.pending = 0
        /\ k.outputLease = 0 /\ k.answer = conn.answer /\ k.continuation = 0
        /\ k.input <= conn.input
        /\ session.requests + k.input + socket.pieces <= socket.sent
        /\ g \in Sessions /\ g.requestBytes /\ g.requestPending = session.requestPending
        /\ g.requestLease = session.requestLease /\ g.requests = session.requests
        /\ g.generation = session.generation /\ g.job = 0 /\ session.requestPending
        /\ session.generation < session.requests
    BY Zenon, <1>1, RequestEnds
  <2>. HIDE DEF k, g
  <2>4. g.generation <= session.requests
    BY <1>1, <2>3, OnMessage
  <2>. QED  BY Zenon, <1>1, <2>1, <2>2, <2>3, <2>4, RespondsOnMessage
<1>. QED  BY Zenon, <1>3, <1>4

(* Submitting a request to the executor keeps the invariant: the job is the *)
(* one the session waits for, or is given up at once.                       *)
LEMMA ParseTaskStep ==
  ASSUME IInv, ParseTask
  PROVE  IInv'
<1>1. /\ stage = "parse" /\ conn.input > 0 /\ Returns /\ UNCHANGED <<ready, answered>>
  BY Zenon DEF ParseTask
<1>2. PICK rest \in 0 .. conn.input - 1 :
        LET r == Responding(Consumed(rest), session)
            h == Awaiting(r[2])
        IN \/ /\ session' = h
              /\ conn' = [r[1] EXCEPT !.continuation = h.generation]
              /\ jobs' = jobs \cup {h.job}
              /\ UNCHANGED counted
           \/ /\ sendFinalResponse(r[1], [h EXCEPT !.job = 0], TRUE)
              /\ UNCHANGED jobs
  BY Zenon DEF ParseTask
<1>. DEFINE k == Responding(Consumed(rest), session)[1]
            g == Responding(Consumed(rest), session)[2]
            h == Awaiting(g)
<1>3. /\ k \in Conns /\ k.state = "active" /\ k.handlingEvent /\ k.readPaused
      /\ ~k.readDeadline /\ ~k.draining /\ ~k.inputStopped /\ k.pending = 0
      /\ k.outputLease = 0 /\ k.input = rest /\ k.answer = conn.answer /\ k.continuation = 0
      /\ k.input <= conn.input
      /\ session.requests + k.input + socket.pieces <= socket.sent
      /\ g \in Sessions /\ g.requestBytes /\ g.requestPending = session.requestPending
      /\ g.requestLease = session.requestLease /\ g.requests = session.requests
      /\ g.generation = session.generation /\ g.job = 0
      /\ session.requestPending /\ session.requestLease
      /\ session.generation < session.requests
  BY Zenon, <1>1, RequestEnds
<1>. HIDE DEF k, g
<1>4. /\ h \in Sessions /\ h.phase = "awaiting" /\ h.job = session.requests
      /\ h.generation = session.generation + 1 /\ h.requestBytes
      /\ h.requestPending = session.requestPending /\ h.requestLease = session.requestLease
      /\ h.requests = session.requests
  <2>. DEFINE never == FALSE
              n == g.generation + 1
  <2>1. h = [[[[g EXCEPT !.phase = "awaiting"] EXCEPT !.job = g.requests]
                  EXCEPT !.jobLate = never] EXCEPT !.generation = n]
    BY Zenon DEF Awaiting
  <2>2. never \in BOOLEAN /\ n \in Nat
    BY <1>3 DEF Sessions
  <2>. HIDE DEF never, n, h
  <2>3. /\ h \in Sessions /\ h.phase = "awaiting" /\ h.job = g.requests
        /\ h.generation = n /\ h.requestBytes = g.requestBytes
        /\ h.requestPending = g.requestPending /\ h.requestLease = g.requestLease
        /\ h.requests = g.requests
    BY Zenon, <1>3, <2>1, <2>2 DEF Sessions
  <2>. QED  BY Zenon, <1>3, <2>3 DEF n
<1>. HIDE DEF h
<1>5. CASE sendFinalResponse(k, [h EXCEPT !.job = 0], TRUE) /\ UNCHANGED jobs
  <2>. DEFINE i == [h EXCEPT !.job = 0]
  <2>1. /\ i \in Sessions /\ i.requestBytes /\ i.requestPending = session.requestPending
        /\ i.requestLease = session.requestLease /\ i.requests = session.requests
        /\ i.generation = session.generation + 1 /\ i.job = 0
    BY Zenon, <1>4 DEF Sessions
  <2>2. sendFinalResponse(k, i, TRUE)
    BY Zenon, <1>5
  <2>. HIDE DEF i
  <2>3. i.generation <= session.requests
    BY <1>1, <1>3, <2>1, OnMessage
  <2>. QED  BY Zenon, <1>1, <1>3, <1>5, <2>1, <2>2, <2>3, RespondsOnMessage
<1>6. CASE /\ session' = h /\ conn' = [k EXCEPT !.continuation = h.generation]
           /\ jobs' = jobs \cup {h.job} /\ UNCHANGED counted
  <2>1. /\ conn' \in Conns /\ conn'.state = "active" /\ conn'.handlingEvent
        /\ conn'.readPaused /\ ~conn'.readDeadline /\ ~conn'.draining /\ ~conn'.inputStopped
        /\ conn'.pending = 0 /\ conn'.outputLease = 0 /\ conn'.input = rest
        /\ conn'.answer = conn.answer /\ conn'.continuation = session.generation + 1
    BY <1>1, <1>3, <1>4, <1>6, OnMessage DEF Conns
  <2>2. /\ jobs' = {session.requests} /\ ready' = {} /\ session.requests # 0
        /\ UNCHANGED <<pc, socket, counted, answered>> /\ stage' = "none"
        /\ rest \in Nat /\ rest <= conn.input
    BY <1>1, <1>3, <1>4, <1>6, OnMessage DEF Returns
  <2>. USE <1>1, <1>3, <1>4, <1>6, <2>1, <2>2, OnMessage
  <2>3. Typed'
    BY Zenon DEF IInv, Typed
  <2>4. Bounds'
    BY SessionAssumption DEF IInv, Bounds
  <2>5. Control'
    BY Zenon DEF IInv, Control
  <2>6. Phases' /\ Interest'
    BY Zenon DEF IInv, Phases, Interest, AtRest, Control
  <2>7. Leases' /\ Deadline'
    BY ZenonT(30) DEF IInv, Leases, Deadline
  <2>8. Input'
    BY DEF IInv, Input, Unread
  <2>9. Numbers'
    <3>1. /\ UNCHANGED <<counted, answered>> /\ session'.requests = session.requests
          /\ session'.requestPending = session.requestPending /\ session'.phase = "awaiting"
          /\ conn.state = "active" /\ IInv
      BY Zenon
    <3>. QED  BY ONLY <3>1 DEF IInv, Numbers
  <2>. QED  BY Zenon, <2>3, <2>4, <2>5, <2>6, <2>7, <2>8, <2>9 DEF IInv
<1>. QED  BY Zenon, <1>2, <1>5, <1>6 DEF h, k, g

(* The decision on a request that expects 100 keeps the invariant.          *)
LEMMA onRequestHeadersStep ==
  ASSUME IInv, onRequestHeaders
  PROVE  IInv'
<1>1. /\ stage = "parse" /\ conn.input > 0 /\ Returns
  BY Zenon DEF onRequestHeaders
<1>. DEFINE always == TRUE
            never == FALSE
            Paused(rest) == pauseReading([Consumed(rest) EXCEPT !.idleWait = never])
            h == [[session EXCEPT !.requestBytes = always] EXCEPT !.headersSeen = always]
            Answer(rest) == Responding(Paused(rest), h)
<1>2. PICK rest \in 0 .. conn.input - 1 :
        \/ closeExpiredRequest
        \/ /\ \/ /\ session' = [h EXCEPT !.phase = "interim"]
                 /\ conn' = queueOutput(Paused(rest), 0, 1, never)
                 /\ UNCHANGED counted
              \/ closeResourceRejected(Paused(rest), [h EXCEPT !.phase = "interim"])
              \/ sendFinalResponse(Answer(rest)[1], Answer(rest)[2], TRUE)
           /\ UNCHANGED <<jobs, ready, answered>>
  BY Zenon DEF onRequestHeaders
<1>3. always \in BOOLEAN /\ always /\ never \in BOOLEAN /\ ~never
  OBVIOUS
<1>. HIDE DEF always, never
<1>4. rest \in Nat /\ rest < conn.input
  BY <1>1, OnMessage
<1>. DEFINE c == Consumed(rest)
            d == [c EXCEPT !.idleWait = never]
            p == [d EXCEPT !.readPaused = always]
            i == [h EXCEPT !.phase = "interim"]
<1>5. /\ c \in Conns /\ c.input = rest /\ c.state = "active" /\ c.handlingEvent
      /\ c.draining = FALSE /\ c.inputStopped = FALSE /\ c.pending = 0 /\ c.outputLease = 0
      /\ c.answer = conn.answer /\ c.continuation = 0 /\ c.readDeadline = conn.readDeadline
      /\ rest <= conn.input /\ session.requests + rest + socket.pieces <= socket.sent
      /\ session.requestLease = session.requestPending
      /\ session.requestPending \/ conn.input = 0
  BY Zenon, <1>1, <1>4, ConsumedFacts
<1>6. session.requestPending /\ session.requestLease /\ session.generation < session.requests
  BY <1>1, <1>4, <1>5, OnMessage
<1>. HIDE DEF c
<1>7. /\ p \in Conns /\ p.input = rest /\ p.state = "active" /\ p.handlingEvent
      /\ p.draining = FALSE /\ p.inputStopped = FALSE /\ p.pending = 0 /\ p.outputLease = 0
      /\ p.answer = conn.answer /\ p.continuation = 0 /\ p.readDeadline = conn.readDeadline
      /\ p.readPaused = always
  BY Zenon, <1>3, <1>5 DEF Conns
<1>8. Paused(rest) = p
  <2>1. pauseReading(d) = Updated(p)
    BY Zenon DEF pauseReading, always
  <2>2. Updated(p) = p
    BY Zenon, <1>7 DEF Updated
  <2>. QED  BY Zenon, <2>1, <2>2 DEF c
<1>9. /\ h \in Sessions /\ h.requestBytes = always /\ h.phase = session.phase
      /\ h.requestPending = session.requestPending /\ h.requestLease = session.requestLease
      /\ h.requests = session.requests /\ h.generation = session.generation
      /\ h.job = session.job
  BY Zenon, <1>1, <1>3, OnMessage DEF Sessions
<1>10. /\ i \in Sessions /\ i.requestBytes = always /\ i.phase = "interim"
       /\ i.requestPending = session.requestPending /\ i.requestLease = session.requestLease
       /\ i.requests = session.requests /\ i.generation = session.generation
       /\ i.job = 0
  BY Zenon, <1>1, <1>3, OnMessage DEF Sessions
<1>11. CASE closeExpiredRequest
  BY Zenon, <1>1, <1>11, ExpiredStep
<1>12. CASE /\ sendFinalResponse(Answer(rest)[1], Answer(rest)[2], TRUE)
            /\ UNCHANGED <<jobs, ready, answered>>
  <2>. DEFINE k == Responding(p, h)[1]
              g == Responding(p, h)[2]
  <2>1. sendFinalResponse(k, g, TRUE)
    BY Zenon, <1>8, <1>12
  <2>. HIDE DEF p, h
  <2>2. /\ k \in Conns /\ k.state = "active" /\ k.handlingEvent /\ k.readPaused
        /\ ~k.readDeadline /\ k.draining = p.draining /\ k.inputStopped = p.inputStopped
        /\ k.pending = 0 /\ k.outputLease = 0 /\ k.input = rest /\ k.answer = conn.answer
        /\ k.continuation = 0
        /\ g \in Sessions /\ g.requestBytes /\ g.requestPending = session.requestPending
        /\ g.requestLease = session.requestLease /\ g.requests = session.requests
        /\ g.generation = session.generation /\ g.job = 0
    BY <1>1, <1>7, <1>9, OnMessage, RespondingFacts
  <2>. HIDE DEF k, g
  <2>3. /\ ~k.draining /\ ~k.inputStopped /\ k.input <= conn.input
        /\ session.requests + k.input + socket.pieces <= socket.sent
        /\ g.generation <= session.requests
    BY <1>1, <1>5, <1>6, <1>7, <2>2, OnMessage
  <2>. QED  BY Zenon, <1>1, <1>12, <2>1, <2>2, <2>3, RespondsOnMessage
<1>13. CASE closeResourceRejected(Paused(rest), i) /\ UNCHANGED <<jobs, ready, answered>>
  <2>1. closeResourceRejected(p, i)
    BY Zenon, <1>8, <1>13
  <2>. HIDE DEF p, i
  <2>2. /\ p.handlingEvent = conn.handlingEvent /\ p.pending = conn.pending
        /\ p.outputLease = conn.pending /\ p.input <= conn.input
        /\ i.generation <= session.requests /\ jobs' = {} /\ ready' = {}
    <3>1. p.handlingEvent = conn.handlingEvent
      BY Zenon, <1>1, <1>7, OnMessage DEF Conns
    <3>2. i.generation <= session.requests /\ p.input <= conn.input
      BY <1>1, <1>5, <1>6, <1>7, <1>10, OnMessage
    <3>. QED  BY Zenon, <1>1, <1>7, <1>13, <3>1, <3>2, OnMessage
  <2>. QED  BY Zenon, <1>1, <1>7, <1>10, <1>13, <2>1, <2>2, OnMessage, Rejected DEF Returns
<1>14. CASE /\ session' = i /\ conn' = queueOutput(Paused(rest), 0, 1, never)
            /\ UNCHANGED counted /\ UNCHANGED <<jobs, ready, answered>>
  <2>. DEFINE q == [p EXCEPT !.pending = 1, !.outputLease = 1, !.file = never, !.answer = 0]
  <2>. HIDE DEF p, i
  <2>1. conn' = Updated(q)
    <3>1. p.pending + 1 = 1 /\ p.outputLease + 1 = 1
      BY <1>7
    <3>. QED  BY Zenon, <1>8, <1>14, <3>1 DEF queueOutput
  <2>2. /\ q \in Conns /\ q.input = rest /\ q.state = "active" /\ q.handlingEvent = p.handlingEvent
        /\ q.draining = p.draining /\ q.inputStopped = p.inputStopped /\ q.pending = 1
        /\ q.outputLease = 1 /\ q.answer = 0 /\ q.continuation = 0
        /\ q.readDeadline = p.readDeadline /\ q.readPaused = p.readPaused
    BY Zenon, <1>3, <1>7 DEF Conns
  <2>. HIDE DEF q
  <2>3. conn' = q
    BY Zenon, <1>7, <2>1, <2>2 DEF Updated
  <2>4. /\ stage' = "none" /\ UNCHANGED <<pc, socket, jobs, ready, counted, answered>>
    BY Zenon, <1>1, <1>14 DEF Returns
  <2>5. /\ conn' \in Conns /\ conn'.input = rest /\ conn'.state = "active" /\ conn'.handlingEvent
        /\ ~conn'.draining /\ ~conn'.inputStopped /\ conn'.pending = 1 /\ conn'.outputLease = 1
        /\ conn'.answer = 0 /\ conn'.continuation = 0
        /\ conn'.readDeadline = conn.readDeadline /\ conn'.readPaused
    BY Zenon, <1>3, <1>7, <2>2, <2>3
  <2>6. /\ session' \in Sessions /\ session'.requestBytes /\ session'.phase = "interim"
        /\ session'.requestPending /\ session'.requestLease /\ session'.requests = session.requests
        /\ session'.generation = session.generation /\ session'.job = 0
    BY Zenon, <1>3, <1>6, <1>10, <1>14
  <2>. USE <2>4, <2>5, <2>6
  <2>7. Typed'
    BY Zenon DEF IInv, Typed
  <2>8. Bounds'
    BY <1>1, <1>4, <1>5, SessionAssumption, OnMessage DEF IInv, Bounds
  <2>9. Control'
    BY Zenon, <1>1, OnMessage DEF IInv, Control
  <2>10. Phases' /\ Interest'
    BY <1>1, OnMessage DEF Phases, Interest, AtRest
  <2>11. Leases'
    BY Zenon, <1>1, OnMessage DEF Leases
  <2>12. Deadline'
    BY Zenon, <1>1, <1>6, OnMessage DEF IInv, Deadline
  <2>13. Input'
    BY <1>1, <1>4, <1>5, OnMessage DEF Input, Unread
  <2>14. Numbers'
    BY Zenon, <1>1, <1>6, OnMessage DEF IInv, Numbers
  <2>. QED  BY Zenon, <2>7, <2>8, <2>9, <2>10, <2>11, <2>12, <2>13, <2>14 DEF IInv
<1>. HIDE DEF i, h, Answer, Paused
<1>. QED  BY Zenon, <1>2, <1>11, <1>12, <1>13, <1>14 DEF i

-----------------------------------------------------------------------------
(* The steps of an event.                                                   *)

(* A step that only starts or ends something of the loop: the connection's  *)
(* other fields, the session and the histories stay.                        *)
LEMMA handleConnectionEventStep ==
  ASSUME IInv, handleConnectionEvent
  PROVE  IInv'
<1>1. /\ AtRest /\ pc' \in {"read", "flush"}
      /\ UNCHANGED <<session, stage, socket, jobs, ready, counted, answered>>
  BY Zenon DEF handleConnectionEvent
<1>2. conn \in Conns /\ conn.state = "active" /\ pc = "poll" /\ stage = "none"
  BY Zenon, <1>1 DEF IInv, Typed, AtRest
<1>3. /\ conn' \in Conns /\ conn'.handlingEvent /\ conn'.state = conn.state
      /\ conn'.draining = conn.draining /\ conn'.inputStopped = conn.inputStopped
      /\ conn'.readPaused = conn.readPaused /\ conn'.eof = conn.eof
      /\ conn'.input = conn.input /\ conn'.pending = conn.pending
      /\ conn'.outputLease = conn.outputLease /\ conn'.answer = conn.answer
      /\ conn'.continuation = conn.continuation /\ conn'.readDeadline = conn.readDeadline
  <2>. DEFINE always == TRUE
  <2>1. \/ conn' = [conn EXCEPT !.handlingEvent = always]
        \/ conn' = [[conn EXCEPT !.handlingEvent = always] EXCEPT !.closeRequested = always]
    BY Zenon DEF handleConnectionEvent
  <2>2. always \in BOOLEAN /\ always
    OBVIOUS
  <2>. HIDE DEF always
  <2>3. /\ conn' \in Conns /\ conn'.handlingEvent = always /\ conn'.state = conn.state
        /\ conn'.draining = conn.draining /\ conn'.inputStopped = conn.inputStopped
        /\ conn'.readPaused = conn.readPaused /\ conn'.eof = conn.eof
        /\ conn'.input = conn.input /\ conn'.pending = conn.pending
        /\ conn'.outputLease = conn.outputLease /\ conn'.answer = conn.answer
        /\ conn'.continuation = conn.continuation /\ conn'.readDeadline = conn.readDeadline
    BY ZenonT(30), <1>2, <2>1, <2>2 DEF Conns
  <2>. QED  BY Zenon, <2>2, <2>3
<1>. USE <1>1, <1>2, <1>3
<1>4. Typed'
  BY Zenon DEF IInv, Typed
<1>5. Bounds' /\ Control'
  BY Zenon DEF IInv, Bounds, Control
<1>6. Phases' /\ Interest'
  BY Zenon DEF IInv, Phases, Interest, AtRest
<1>7. Leases' /\ Deadline'
  BY Zenon DEF IInv, Leases, Deadline
<1>8. Input' /\ Numbers'
  BY Zenon DEF IInv, Input, Unread, Numbers
<1>. QED  BY Zenon, <1>4, <1>5, <1>6, <1>7, <1>8 DEF IInv

(* One turn of the reading loop.                                            *)
LEMMA readMessagesStep ==
  ASSUME IInv, readMessages
  PROVE  IInv'
<1>. DEFINE reads == conn.state = "active" /\ ~conn.inputStopped /\ ~conn.readPaused
            always == TRUE
            never == FALSE
<1>1. /\ pc = "read" /\ stage = "none"
      /\ UNCHANGED <<session, jobs, ready, counted, answered>>
  BY Zenon DEF readMessages
<1>2. /\ conn \in Conns /\ session \in Sessions /\ conn.handlingEvent
      /\ conn.input \in Nat /\ socket.pieces \in Nat /\ socket.sent \in Nat
      /\ socket \in [pieces : Nat, sent : Nat, eof : BOOLEAN]
      /\ session.requests \in Nat
  BY Zenon, <1>1 DEF IInv, Typed, Control, Conns, Sessions
<1>3. reads => session.phase = "reading" /\ ~conn.draining
  BY Zenon DEF IInv, Phases
<1>4. always \in BOOLEAN /\ always /\ never \in BOOLEAN /\ ~never
  BY SMTT(30)
<1>. DEFINE Same(c) ==
       /\ c \in Conns /\ c.state = conn.state /\ c.handlingEvent
       /\ c.draining = conn.draining /\ c.inputStopped = conn.inputStopped
       /\ c.readPaused = conn.readPaused /\ c.pending = conn.pending
       /\ c.outputLease = conn.outputLease /\ c.answer = conn.answer
       /\ c.continuation = conn.continuation /\ c.readDeadline = conn.readDeadline
<1>5. CASE pc' = "flush" /\ UNCHANGED <<conn, stage, socket>>
  BY ZenonT(30), <1>1, <1>2, <1>5
  DEF IInv, Typed, Bounds, Control, Phases, Interest, AtRest, Leases, Deadline, Input, Unread,
      Numbers
<1>6. CASE /\ reads
           /\ conn' = [conn EXCEPT !.closeRequested = always]
           /\ pc' = "flush" /\ UNCHANGED <<stage, socket>>
  <2>. HIDE DEF always
  <2>1. Same(conn') /\ conn'.input = conn.input /\ conn'.eof = conn.eof
    BY Zenon, <1>2, <1>4, <1>6 DEF Conns
  <2>. USE <1>1, <1>2, <1>6, <2>1
  <2>2. Typed' /\ Bounds' /\ Control'
    BY Zenon DEF IInv, Typed, Bounds, Control
  <2>3. Phases' /\ Interest'
    BY Zenon DEF IInv, Phases, Interest, AtRest
  <2>4. Leases' /\ Deadline'
    BY Zenon DEF IInv, Leases, Deadline
  <2>5. Input' /\ Numbers'
    BY Zenon DEF IInv, Input, Unread, Numbers
  <2>. QED  BY Zenon, <2>2, <2>3, <2>4, <2>5 DEF IInv
<1>7. CASE /\ reads
           /\ conn' = [conn EXCEPT !.eof = always]
           /\ stage' = "message" /\ pc' = "flush" /\ UNCHANGED socket
  <2>. HIDE DEF always
  <2>1. Same(conn') /\ conn'.input = conn.input /\ conn'.eof = always
    BY Zenon, <1>2, <1>4, <1>7 DEF Conns
  <2>. USE <1>1, <1>2, <1>3, <1>7, <2>1
  <2>2. Typed' /\ Bounds' /\ Control'
    BY Zenon DEF IInv, Typed, Bounds, Control
  <2>3. Phases' /\ Interest'
    BY Zenon DEF IInv, Phases, Interest, AtRest
  <2>4. Leases' /\ Deadline'
    BY Zenon DEF IInv, Leases, Deadline
  <2>5. Input' /\ Numbers'
    BY Zenon DEF IInv, Input, Unread, Numbers
  <2>. QED  BY Zenon, <2>2, <2>3, <2>4, <2>5 DEF IInv
<1>8. ASSUME reads, NEW n \in readOnce,
             conn' = [conn EXCEPT !.input = @ + n, !.idleWait = never],
             socket' = [socket EXCEPT !.pieces = @ - n],
             stage' = "message", UNCHANGED pc
      PROVE  IInv'
  <2>1. n \in Nat /\ n > 0 /\ n <= socket.pieces /\ n <= MaxInput - conn.input
    BY <1>2 DEF readOnce
  <2>. DEFINE i == conn.input + n
              p == socket.pieces - n
  <2>2. /\ i \in Nat /\ p \in Nat /\ i <= MaxInput /\ p <= socket.pieces
        /\ i + p = conn.input + socket.pieces
    BY <1>2, <2>1, SessionAssumption
  <2>3. /\ conn' = [[conn EXCEPT !.input = i] EXCEPT !.idleWait = never]
        /\ socket' = [socket EXCEPT !.pieces = p]
    BY Zenon, <1>8
  <2>. HIDE DEF i, p, never
  <2>4. Same(conn') /\ conn'.input = i /\ conn'.eof = conn.eof
    BY Zenon, <1>2, <1>4, <2>2, <2>3 DEF Conns
  <2>5. /\ socket' \in [pieces : Nat, sent : Nat, eof : BOOLEAN] /\ socket'.pieces = p
        /\ socket'.sent = socket.sent
    BY Zenon, <1>2, <2>2, <2>3
  <2>. USE <1>1, <1>2, <1>3, <1>8, <2>2, <2>4, <2>5
  <2>6. Typed' /\ Control'
    BY Zenon DEF IInv, Typed, Control
  <2>7. Bounds'
    BY SessionAssumption DEF IInv, Bounds
  <2>8. Phases' /\ Interest'
    BY Zenon DEF IInv, Phases, Interest, AtRest
  <2>9. Leases' /\ Deadline'
    BY Zenon DEF IInv, Leases, Deadline
  <2>10. Input'
    BY DEF IInv, Input, Unread
  <2>11. Numbers'
    BY Zenon DEF IInv, Numbers
  <2>. QED  BY Zenon, <2>6, <2>7, <2>8, <2>9, <2>10, <2>11 DEF IInv
<1>. HIDE DEF Same
<1>. QED  BY ZenonT(30), <1>5, <1>6, <1>7, <1>8 DEF readMessages

(* What a write leaves, for n of the pending pieces.                        *)
LEMMA WrittenFacts ==
  ASSUME IInv, conn.state = "active", pc = "flush", NEW n \in 0 .. conn.pending
  PROVE  /\ Written(conn, n) \in Conns
         /\ Written(conn, n).pending = conn.pending - n
         /\ Written(conn, n).outputLease = conn.pending - n
         /\ Written(conn, n).state = "active" /\ Written(conn, n).handlingEvent
         /\ Written(conn, n).draining = conn.draining
         /\ Written(conn, n).inputStopped = conn.inputStopped
         /\ Written(conn, n).readPaused = conn.readPaused /\ Written(conn, n).eof = conn.eof
         /\ Written(conn, n).input = conn.input /\ Written(conn, n).answer = conn.answer
         /\ Written(conn, n).continuation = conn.continuation
         /\ Written(conn, n).readDeadline = conn.readDeadline
<1>1. /\ conn \in Conns /\ conn.pending \in Nat /\ conn.outputLease = conn.pending
      /\ conn.handlingEvent
  BY Zenon DEF IInv, Typed, Conns, Leases, Control
<1>. DEFINE m == conn.pending - n
<1>2. m \in Nat
  BY <1>1
<1>3. Written(conn, n) = [conn EXCEPT !.pending = m, !.outputLease = m]
  BY Zenon, <1>1 DEF Written
<1>. HIDE DEF m
<1>4. /\ Written(conn, n) \in Conns /\ Written(conn, n).pending = m
      /\ Written(conn, n).outputLease = m
      /\ Written(conn, n).state = "active" /\ Written(conn, n).handlingEvent
      /\ Written(conn, n).draining = conn.draining
      /\ Written(conn, n).inputStopped = conn.inputStopped
      /\ Written(conn, n).readPaused = conn.readPaused /\ Written(conn, n).eof = conn.eof
      /\ Written(conn, n).input = conn.input /\ Written(conn, n).answer = conn.answer
      /\ Written(conn, n).continuation = conn.continuation
      /\ Written(conn, n).readDeadline = conn.readDeadline
  BY ZenonT(30), <1>1, <1>2, <1>3 DEF Conns
<1>. QED  BY Zenon, <1>4 DEF m

(* A turn of flushOutput that writes nothing, or not everything.            *)
LEMMA PartialWrite ==
  ASSUME IInv, pc = "flush", stage = "none", conn.state = "active", hasPendingOutput(conn),
         NEW n \in 0 .. conn.pending - 1, NEW failed \in BOOLEAN,
         conn' = [Written(conn, n) EXCEPT !.closeRequested = @ \/ failed],
         pc' = "finish", UNCHANGED <<session, stage, counted, answered, socket, jobs, ready>>
  PROVE  IInv'
<1>1. conn.pending \in Nat /\ conn.pending > 0 /\ n \in Nat /\ n < conn.pending
  BY DEF IInv, Typed, Conns, hasPendingOutput
<1>. DEFINE w == Written(conn, n)
            failing == w.closeRequested \/ failed
<1>2. /\ w \in Conns /\ w.pending = conn.pending - n /\ w.outputLease = conn.pending - n
      /\ w.state = "active" /\ w.handlingEvent /\ w.draining = conn.draining
      /\ w.inputStopped = conn.inputStopped
      /\ w.readPaused = conn.readPaused /\ w.eof = conn.eof
      /\ w.input = conn.input /\ w.answer = conn.answer
      /\ w.continuation = conn.continuation /\ w.readDeadline = conn.readDeadline
  BY <1>1, WrittenFacts
<1>3. failing \in BOOLEAN /\ conn' = [w EXCEPT !.closeRequested = failing]
  BY Zenon, <1>2 DEF Conns
<1>. HIDE DEF w, failing
<1>4. /\ conn' \in Conns /\ conn'.pending = conn.pending - n /\ conn'.outputLease = conn.pending - n
      /\ conn'.state = "active" /\ conn'.handlingEvent /\ conn'.draining = conn.draining
      /\ conn'.inputStopped = conn.inputStopped
      /\ conn'.readPaused = conn.readPaused /\ conn'.eof = conn.eof
      /\ conn'.input = conn.input /\ conn'.answer = conn.answer
      /\ conn'.continuation = conn.continuation /\ conn'.readDeadline = conn.readDeadline
  BY ZenonT(30), <1>2, <1>3 DEF Conns
<1>5. /\ conn'.pending \in Nat /\ conn'.pending > 0 /\ conn'.pending <= conn.pending
      /\ conn'.outputLease = conn'.pending /\ conn.pending = 1 => conn'.pending = 1
  BY <1>1, <1>4
<1>. USE <1>1, <1>4, <1>5
<1>6. Typed' /\ Control'
  BY Zenon DEF IInv, Typed, Control
<1>7. Bounds'
  BY SessionAssumption DEF IInv, Bounds
<1>8. Phases' /\ Interest'
  BY Zenon DEF IInv, Phases, Interest, AtRest
<1>9. Leases' /\ Deadline'
  BY Zenon DEF IInv, Leases, Deadline
<1>10. Input' /\ Numbers'
  BY Zenon DEF IInv, Input, Unread, Numbers
<1>. QED  BY Zenon, <1>6, <1>7, <1>8, <1>9, <1>10 DEF IInv

(* The rest of the output is written and the session goes on: it reads the  *)
(* body it has asked for, turns to the next request, or closes.             *)
LEMMA WriteCompletes ==
  ASSUME IInv, pc = "flush", stage = "none", conn.state = "active", hasPendingOutput(conn),
         NEW c \in Conns, onWriteComplete(c), pc' \in {"flush", "finish"},
         answered' = IF conn.answer = 0 THEN answered ELSE Append(answered, conn.answer),
         c.pending = 0, c.outputLease = 0, c.state = "active", c.handlingEvent,
         c.draining = conn.draining, c.inputStopped = conn.inputStopped,
         c.readPaused = conn.readPaused, c.eof = conn.eof, c.input = conn.input,
         c.answer = conn.answer, c.continuation = conn.continuation,
         c.readDeadline = conn.readDeadline, UNCHANGED <<socket, jobs, ready>>
  PROVE  IInv'
<1>1. /\ conn \in Conns /\ session \in Sessions /\ conn.pending \in Nat /\ conn.pending > 0
      /\ answered \in Seq(Nat) /\ counted \in Seq({"completed", "aborted"})
      /\ Len(answered) \in Nat /\ session.requests \in Nat /\ session.generation \in Nat
      /\ conn.input \in Nat /\ ready \subseteq jobs
      /\ session.requestPending \in BOOLEAN /\ session.requestLease \in BOOLEAN
  BY DEF IInv, Typed, Conns, Sessions, hasPendingOutput
<1>2. /\ session.phase \in {"interim", "writing"} /\ session.job = 0 /\ jobs = {} /\ ready = {}
      /\ session.requestLease = session.requestPending
      /\ session.generation <= session.requests
  BY Zenon, <1>1 DEF IInv, Phases, Leases, Bounds
<1>3. /\ session.phase = "interim" => answered' = answered
      /\ session.phase = "writing" => answered' = Append(answered, Len(answered) + 1)
  BY <1>1 DEF IInv, Phases
<1>4. /\ answered' \in Seq(Nat) /\ \A i \in 1 .. Len(answered') : answered'[i] = i
      /\ Len(answered') <= session.requests + 1 /\ Len(answered') \in Nat
      /\ session.phase = "writing" => Len(answered') = Len(answered) + 1
      /\ session.phase = "interim" => Len(answered') = Len(answered)
  <2>1. /\ \A i \in 1 .. Len(answered) : answered[i] = i
        /\ Len(answered) <= session.requests
    BY <1>1 DEF IInv, Numbers
  <2>2. CASE session.phase = "interim"
    BY <1>1, <1>3, <2>1, <2>2
  <2>3. CASE session.phase = "writing"
    BY <1>1, <1>3, <2>1, <2>3
  <2>. QED  BY Zenon, <1>2, <2>2, <2>3
<1>. DEFINE always == TRUE
            d == [c EXCEPT !.inputStopped = always]
<1>5. /\ d \in Conns /\ d.input = conn.input /\ d.handlingEvent /\ d.pending = 0
      /\ d.outputLease = 0 /\ d.answer = conn.answer
      /\ closeAfterFlush(c) = requestClose(d)
  <2>1. closeAfterFlush(c) = requestClose(d)
    BY DEF closeAfterFlush, hasPendingOutput
  <2>2. always \in BOOLEAN
    OBVIOUS
  <2>. HIDE DEF always
  <2>3. /\ d \in Conns /\ d.input = conn.input /\ d.handlingEvent = c.handlingEvent
        /\ d.pending = 0 /\ d.outputLease = 0 /\ d.answer = conn.answer
    BY Zenon, <2>2 DEF Conns
  <2>. QED  BY Zenon, <2>1, <2>3
<1>. HIDE DEF d
<1>6. ASSUME NEW e \in {c, d}, conn' = requestClose(e), stage' = "none",
             session' \in Sessions, session'.requests = session.requests,
             session'.generation = session.generation, session'.job = session.job,
             session'.requestLease = session'.requestPending,
             \/ session'.requestPending /\ session.requestPending /\ UNCHANGED counted
             \/ /\ ~session'.requestPending
                /\ counted' \in Seq({"completed", "aborted"}) /\ Len(counted') = session.requests
      PROVE  IInv'
  <2>1. /\ e \in Conns /\ e.input = conn.input /\ e.handlingEvent /\ e.pending = 0
        /\ e.outputLease = 0 /\ e.answer = conn.answer
    BY Zenon, <1>5
  <2>2. /\ e.handlingEvent <=> pc' \in {"read", "flush", "finish"}
        /\ e.pending <= conn.pending /\ e.outputLease = e.pending /\ e.input <= conn.input
        /\ session'.generation <= session.requests /\ session'.job <= session.requests
        /\ jobs' = (IF session'.job = 0 THEN {} ELSE {session'.job}) /\ ready' \subseteq jobs'
        /\ pc' \in {"poll", "read", "flush", "finish"}
    BY <1>1, <1>2, <1>6, <2>1
  <2>. QED  BY Zenon, <1>4, <1>6, <2>1, <2>2, Closes
<1>. DEFINE never == FALSE
            f == [[session EXCEPT !.requestLease = never] EXCEPT !.requestPending = never]
<1>7. Finished(session) = f
  BY Zenon DEF Finished
<1>8. never \in BOOLEAN /\ ~never
  OBVIOUS
<1>. HIDE DEF never
<1>9. /\ f \in Sessions /\ f.requests = session.requests /\ f.generation = session.generation
      /\ f.job = session.job /\ f.requestLease = never /\ f.requestPending = never
  BY Zenon, <1>1, <1>8 DEF Sessions
<1>. HIDE DEF f
<1>10. /\ Counted(session, "aborted") \in Seq({"completed", "aborted"})
       /\ Len(Counted(session, "aborted")) = session.requests
       /\ Counted(session, "completed") \in Seq({"completed", "aborted"})
       /\ Len(Counted(session, "completed")) = session.requests
       /\ \A i \in 1 .. Len(Counted(session, "completed")) :
            Counted(session, "completed")[i] = "completed"
  BY Zenon, <1>1, Counting
<1>11. CASE /\ session' = [f EXCEPT !.phase = "closing", !.readDeadline = "none"]
            /\ counted' = Counted(session, "aborted")
            /\ conn' = closeAfterFlush(c) /\ stage' = "none"
  <2>1. /\ session' \in Sessions /\ session'.requests = session.requests
        /\ session'.generation = session.generation /\ session'.job = session.job
        /\ session'.requestLease = never /\ session'.requestPending = never
    BY Zenon, <1>9, <1>11 DEF Sessions
  <2>. QED  BY Zenon, <1>5, <1>6, <1>8, <1>10, <1>11, <2>1
<1>12. CASE /\ session.phase = "interim"
            /\ session' = [session EXCEPT !.phase = "closing", !.readDeadline = "none"]
            /\ conn' = requestClose(c) /\ stage' = "none" /\ UNCHANGED counted
  <2>1. /\ session' \in Sessions /\ session'.requests = session.requests
        /\ session'.generation = session.generation /\ session'.job = session.job
        /\ session'.requestLease = session.requestLease
        /\ session'.requestPending = session.requestPending
    BY Zenon, <1>1, <1>12 DEF Sessions
  <2>2. session.requestPending
    BY Zenon, <1>12 DEF IInv, Phases
  <2>. QED  BY Zenon, <1>2, <1>6, <1>12, <2>1, <2>2
<1>13. CASE /\ FinalResponse /\ counted' = Counted(session, "completed")
            /\ session' = [f EXCEPT !.phase = "closing"]
            /\ conn' = closeAfterFlush(c) /\ stage' = "none"
  <2>1. /\ session' \in Sessions /\ session'.requests = session.requests
        /\ session'.generation = session.generation /\ session'.job = session.job
        /\ session'.requestLease = never /\ session'.requestPending = never
    BY Zenon, <1>9, <1>13 DEF Sessions
  <2>. QED  BY Zenon, <1>5, <1>6, <1>8, <1>10, <1>13, <2>1
<1>14. CASE /\ session.phase = "interim" /\ ~c.draining
            /\ session' = [session EXCEPT !.phase = "reading"] /\ conn' = c
            /\ stage' = "message" /\ UNCHANGED counted
  <2>1. /\ session' \in Sessions /\ session'.phase = "reading"
        /\ session'.requests = session.requests /\ session'.generation = session.generation
        /\ session'.job = session.job /\ session'.requestLease = session.requestLease
        /\ session'.requestPending = session.requestPending
        /\ session'.requestBytes = session.requestBytes
    BY Zenon, <1>1, <1>14 DEF Sessions
  <2>2. session.requestPending /\ UNCHANGED answered
    BY Zenon, <1>3, <1>14 DEF IInv, Phases
  <2>. USE <1>1, <1>2, <1>14, <2>1, <2>2
  <2>3. Typed' /\ Control'
    BY Zenon DEF IInv, Typed, Control
  <2>4. Bounds'
    BY SessionAssumption DEF IInv, Bounds
  <2>5. Phases' /\ Interest'
    BY DEF IInv, Phases, Interest, AtRest
  <2>6. Leases' /\ Deadline'
    BY Zenon DEF IInv, Leases, Deadline
  <2>7. Input' /\ Numbers'
    BY ZenonT(30) DEF IInv, Input, Unread, Numbers
  <2>. QED  BY Zenon, <2>3, <2>4, <2>5, <2>6, <2>7 DEF IInv
<1>15. CASE /\ FinalResponse /\ counted' = Counted(session, "completed")
            /\ ~session.close /\ ~c.draining
            /\ session' = [[[f EXCEPT !.phase = "reading"] EXCEPT !.requestBytes = never]
                             EXCEPT !.headersSeen = never]
            /\ conn' = c /\ stage' = "message"
  <2>1. /\ session' \in Sessions /\ session'.phase = "reading"
        /\ session'.requests = session.requests /\ session'.generation = session.generation
        /\ session'.job = session.job /\ session'.requestLease = never
        /\ session'.requestPending = never /\ session'.requestBytes = never
    BY Zenon, <1>8, <1>9, <1>15 DEF Sessions
  <2>2. ~session'.requestLease /\ ~session'.requestPending /\ ~session'.requestBytes
    BY Zenon, <1>8, <2>1
  <2>3. session.phase = "writing" /\ session.requestPending
    BY Zenon, <1>15 DEF IInv, Phases, FinalResponse
  <2>4. /\ counted' \in Seq({"completed", "aborted"}) /\ Len(counted') = session.requests
        /\ \A i \in 1 .. Len(counted') : counted'[i] = "completed"
    BY Zenon, <1>10, <1>15
  <2>5. Len(answered') = session.requests
    BY Zenon, <1>1, <1>4, <2>3 DEF IInv, Numbers
  <2>. USE <1>1, <1>2, <1>4, <1>15, <2>1, <2>2, <2>3, <2>4, <2>5
  <2>6. Typed' /\ Control'
    BY Zenon DEF IInv, Typed, Control
  <2>7. Bounds'
    BY SMTT(30), SessionAssumption DEF IInv, Bounds
  <2>8. Phases' /\ Interest'
    BY DEF IInv, Phases, Interest, AtRest
  <2>9. Leases' /\ Deadline'
    BY DEF IInv, Leases, Deadline
  <2>10. Input'
    BY Zenon DEF IInv, Input, Unread
  <2>11. Numbers'
    BY Zenon DEF Numbers
  <2>. QED  BY Zenon, <2>6, <2>7, <2>8, <2>9, <2>10, <2>11 DEF IInv
<1>16. \/ /\ session.phase = "interim"
          /\ session' = [f EXCEPT !.phase = "closing", !.readDeadline = "none"]
          /\ counted' = Counted(session, "aborted")
          /\ conn' = closeAfterFlush(c) /\ stage' = "none"
       \/ /\ session.phase = "interim"
          /\ session' = [session EXCEPT !.phase = "closing", !.readDeadline = "none"]
          /\ conn' = requestClose(c) /\ stage' = "none" /\ UNCHANGED counted
       \/ /\ session.phase = "interim" /\ ~c.draining
          /\ session' = [session EXCEPT !.phase = "reading"] /\ conn' = c
          /\ stage' = "message" /\ UNCHANGED counted
       \/ /\ FinalResponse /\ counted' = Counted(session, "completed")
          /\ session' = [f EXCEPT !.phase = "closing"]
          /\ conn' = closeAfterFlush(c) /\ stage' = "none"
       \/ /\ FinalResponse /\ counted' = Counted(session, "completed")
          /\ ~session.close /\ ~c.draining
          /\ session' = [[[f EXCEPT !.phase = "reading"] EXCEPT !.requestBytes = never]
                           EXCEPT !.headersSeen = never]
          /\ conn' = c /\ stage' = "message"
  BY Zenon, <1>7 DEF onWriteComplete, never
<1>. QED  BY Zenon, <1>11, <1>12, <1>13, <1>14, <1>15, <1>16

(* A turn of flushOutput keeps the invariant.                               *)
LEMMA flushOutputStep ==
  ASSUME IInv, flushOutput
  PROVE  IInv'
<1>1. /\ pc = "flush" /\ stage = "none" /\ UNCHANGED <<socket, jobs, ready>>
  BY Zenon DEF flushOutput
<1>2. CASE pc' = "finish" /\ UNCHANGED <<conn, session, stage, counted, answered>>
  <2>. USE <1>1, <1>2
  <2>1. Typed' /\ Bounds'
    BY Zenon DEF IInv, Typed, Bounds
  <2>2. Control' /\ Phases' /\ Interest'
    BY Zenon DEF IInv, Control, Phases, Interest, AtRest
  <2>3. Leases' /\ Deadline'
    BY Zenon DEF IInv, Leases, Deadline
  <2>4. Input' /\ Numbers'
    BY Zenon DEF IInv, Input, Unread, Numbers
  <2>. QED  BY Zenon, <2>1, <2>2, <2>3, <2>4 DEF IInv
<1>3. CASE /\ conn.state = "active" /\ hasPendingOutput(conn)
           /\ \E n \in 0 .. conn.pending - 1, failed \in BOOLEAN :
                conn' = [Written(conn, n) EXCEPT !.closeRequested = @ \/ failed]
           /\ pc' = "finish" /\ UNCHANGED <<session, stage, counted, answered>>
  BY Zenon, <1>1, <1>3, PartialWrite
<1>. DEFINE never == FALSE
            c == [Written(conn, conn.pending) EXCEPT !.file = never]
<1>4. CASE /\ conn.state = "active" /\ hasPendingOutput(conn)
           /\ pc' \in {"flush", "finish"}
           /\ answered' = IF conn.answer = 0 THEN answered ELSE Append(answered, conn.answer)
           /\ IF ~conn.inputStopped \/ conn.draining THEN onWriteComplete(c)
              ELSE conn' = c /\ UNCHANGED <<session, stage, counted>>
  <2>1. onWriteComplete(c)
    BY Zenon, <1>4 DEF IInv, Phases
  <2>2. conn.pending \in 0 .. conn.pending /\ conn.pending - conn.pending = 0
    BY DEF IInv, Typed, Conns
  <2>. DEFINE w == Written(conn, conn.pending)
  <2>3. /\ w \in Conns /\ w.pending = 0 /\ w.outputLease = 0
        /\ w.state = "active" /\ w.handlingEvent /\ w.draining = conn.draining
        /\ w.inputStopped = conn.inputStopped /\ w.readPaused = conn.readPaused
        /\ w.eof = conn.eof /\ w.input = conn.input /\ w.answer = conn.answer
        /\ w.continuation = conn.continuation /\ w.readDeadline = conn.readDeadline
    BY Zenon, <1>1, <1>4, <2>2, WrittenFacts
  <2>4. never \in BOOLEAN
    OBVIOUS
  <2>. HIDE DEF never, w
  <2>5. /\ c \in Conns /\ c.pending = 0 /\ c.outputLease = 0
        /\ c.state = "active" /\ c.handlingEvent /\ c.draining = conn.draining
        /\ c.inputStopped = conn.inputStopped /\ c.readPaused = conn.readPaused
        /\ c.eof = conn.eof /\ c.input = conn.input /\ c.answer = conn.answer
        /\ c.continuation = conn.continuation /\ c.readDeadline = conn.readDeadline
    BY Zenon, <2>3, <2>4 DEF Conns, w
  <2>. HIDE DEF c
  <2>. QED  BY Zenon, <1>1, <1>4, <2>1, <2>5, WriteCompletes
<1>. HIDE DEF c
<1>. QED  BY Zenon, <1>2, <1>3, <1>4 DEF flushOutput, c

(* A connection that closes while its session stays as it is, as at the end *)
(* of an event, when draining begins or when a time limit is over.          *)
LEMMA ClosesOnly ==
  ASSUME IInv, conn.state = "active", stage = "none",
         NEW c \in Conns, conn' = requestClose(c), ~c.handlingEvent,
         c.pending = conn.pending, c.outputLease = conn.outputLease, c.input = conn.input,
         c.answer = conn.answer, pc' = "poll",
         UNCHANGED <<session, stage, socket, jobs, ready, counted, answered>>
  PROVE  IInv'
<1>1. /\ session \in Sessions /\ conn \in Conns /\ conn.outputLease = conn.pending
      /\ conn.pending \in Nat /\ conn.input \in Nat
  BY Zenon DEF IInv, Typed, Leases, Conns
<1>2. /\ session.requestLease = session.requestPending
      /\ jobs = (IF session.job = 0 THEN {} ELSE {session.job}) /\ ready \subseteq jobs
  BY Zenon, <1>1 DEF IInv, Leases, Typed, Sessions
<1>3. /\ session.job <= session.requests /\ session.generation <= session.requests
      /\ counted \in Seq({"completed", "aborted"})
      /\ ~session.requestPending => Len(counted) = session.requests
      /\ answered \in Seq(Nat) /\ \A i \in 1 .. Len(answered) : answered[i] = i
      /\ Len(answered) <= session.requests + 1
  BY Zenon DEF IInv, Bounds, Numbers, Typed
<1>. QED  BY <1>1, <1>2, <1>3, Closes

(* The clock, the client's end of file and the executor change nothing that *)
(* the invariant is about.                                                  *)
LEMMA Untouched ==
  ASSUME IInv, UNCHANGED <<conn, pc, stage, jobs, counted, answered>>, ready' \subseteq jobs,
         session' \in Sessions, session'.phase = session.phase, session'.close = session.close,
         session'.requestPending = session.requestPending,
         session'.requestLease = session.requestLease, session'.job = session.job,
         session'.generation = session.generation,
         session'.requestBytes = session.requestBytes, session'.requests = session.requests,
         socket' \in [pieces : Nat, sent : Nat, eof : BOOLEAN],
         socket'.pieces = socket.pieces, socket'.sent = socket.sent
  PROVE  IInv'
<1>1. Typed'
  BY Zenon DEF IInv, Typed
<1>2. Bounds'
  BY Zenon DEF IInv, Bounds
<1>3. Control' /\ Phases' /\ Interest'
  BY Zenon DEF IInv, Control, Phases, Interest, AtRest
<1>4. Leases' /\ Deadline'
  BY Zenon DEF IInv, Leases, Deadline
<1>5. Input' /\ Numbers'
  BY Zenon DEF IInv, Input, Unread, Numbers
<1>. QED  BY Zenon, <1>1, <1>2, <1>3, <1>4, <1>5 DEF IInv

(* The end of an event keeps the invariant.                                 *)
LEMMA EventEndsStep ==
  ASSUME IInv, EventEnds
  PROVE  IInv'
<1>. DEFINE never == FALSE
            c == [[conn EXCEPT !.handlingEvent = never] EXCEPT !.closeRequested = never]
<1>1. /\ pc = "finish" /\ stage = "none" /\ pc' = "poll"
      /\ UNCHANGED <<session, stage, socket, jobs, ready, counted, answered>>
  BY Zenon DEF EventEnds
<1>2. \/ conn.state # "active" /\ conn' = c
      \/ conn.state = "active" /\ conn' = requestClose(c)
      \/ conn.state = "active" /\ conn' = updateInterest(c)
  BY Zenon DEF EventEnds
<1>3. never \in BOOLEAN /\ ~never
  OBVIOUS
<1>. HIDE DEF never
<1>4. /\ c \in Conns /\ c.handlingEvent = never /\ c.state = conn.state
      /\ c.pending = conn.pending /\ c.outputLease = conn.outputLease /\ c.input = conn.input
      /\ c.answer = conn.answer /\ c.continuation = conn.continuation
      /\ c.readDeadline = conn.readDeadline /\ c.draining = conn.draining
      /\ c.inputStopped = conn.inputStopped /\ c.readPaused = conn.readPaused /\ c.eof = conn.eof
  BY ZenonT(30), <1>3 DEF IInv, Typed, Conns
<1>. HIDE DEF c
<1>5. CASE conn.state # "active" /\ conn' = c
  <2>. USE <1>1, <1>3, <1>4, <1>5
  <2>1. Typed' /\ Bounds'
    BY Zenon DEF IInv, Typed, Bounds
  <2>2. Control' /\ Phases' /\ Interest' /\ Deadline' /\ Input'
    BY Zenon DEF IInv, Control, Phases, Interest, AtRest, Deadline, Input
  <2>3. Leases' /\ Numbers'
    BY Zenon DEF IInv, Leases, Numbers
  <2>. QED  BY Zenon, <2>1, <2>2, <2>3 DEF IInv
<1>6. CASE conn.state = "active" /\ conn' = requestClose(c)
  BY Zenon, <1>1, <1>3, <1>4, <1>6, ClosesOnly
<1>7. CASE conn.state = "active" /\ conn' = updateInterest(c)
  <2>1. /\ conn' \in Conns /\ ~conn'.handlingEvent /\ conn'.state = "active"
        /\ conn'.pending = conn.pending /\ conn'.outputLease = conn.outputLease
        /\ conn'.input = conn.input
        /\ conn'.answer = conn.answer /\ conn'.continuation = conn.continuation
        /\ conn'.readDeadline = conn.readDeadline /\ conn'.draining = conn.draining
        /\ conn'.inputStopped = conn.inputStopped /\ conn'.readPaused = conn.readPaused
        /\ conn'.eof = conn.eof
        /\ "in" \in conn'.interest <=> ~conn.inputStopped /\ ~conn.readPaused /\ ~conn.eof
        /\ "out" \in conn'.interest <=> conn.pending > 0
    BY ZenonT(30), <1>3, <1>4, <1>7, UpdateInterest DEF SameRest
  <2>. USE <1>1, <1>7, <2>1
  <2>2. Typed' /\ Control' /\ Interest'
    BY Zenon DEF IInv, Typed, Control, Interest
  <2>3. Bounds' /\ Phases'
    BY Zenon DEF IInv, Bounds, Phases
  <2>4. Leases' /\ Deadline'
    BY Zenon DEF IInv, Leases, Deadline
  <2>5. Input' /\ Numbers'
    BY Zenon DEF IInv, Input, Unread, Numbers
  <2>. QED  BY Zenon, <2>2, <2>3, <2>4, <2>5 DEF IInv
<1>. QED  BY Zenon, <1>2, <1>5, <1>6, <1>7

(* Looking at the executor's job keeps the invariant: the answer is sent    *)
(* and the job is given back, or nothing changes.                           *)
LEMMA onTaskContinuationStep ==
  ASSUME IInv, NEW lost \in BOOLEAN, onTaskContinuation(lost)
  PROVE  IInv'
<1>. DEFINE c == [conn EXCEPT !.continuation = 0]
            h == [session EXCEPT !.job = 0]
<1>1. /\ AtRest /\ conn.continuation # 0 /\ ready' = ready \cap jobs'
      /\ UNCHANGED <<pc, stage, socket, answered>>
  BY Zenon DEF onTaskContinuation
<1>2. session.phase = "awaiting" /\ conn.continuation = session.generation
  BY Zenon, <1>1 DEF AtRest, IInv, Phases
<1>3. \/ /\ jobs' = jobs \ {session.job}
         /\ \E close \in BOOLEAN : sendFinalResponse(c, h, close)
      \/ conn' = conn /\ UNCHANGED <<session, jobs, counted>>
  BY Zenon, <1>2 DEF onTaskContinuation
<1>4. CASE conn' = conn /\ UNCHANGED <<session, jobs, counted>>
  <2>1. ready' = ready
    BY Zenon, <1>1, <1>4 DEF IInv, Typed
  <2>. QED  BY Zenon, <1>1, <1>4, <2>1, Untouched DEF IInv, Typed
<1>5. ASSUME jobs' = jobs \ {session.job},
             NEW close \in BOOLEAN, sendFinalResponse(c, h, close)
      PROVE  IInv'
  <2>1. /\ conn \in Conns /\ session \in Sessions /\ conn.state = "active"
        /\ stage = "none" /\ pc = "poll"
    BY Zenon, <1>1 DEF IInv, Typed, AtRest
  <2>2. /\ session.requestPending /\ session.requestLease /\ session.requestBytes
        /\ conn.readPaused /\ ~conn.draining /\ ~conn.inputStopped /\ ~conn.readDeadline
        /\ session.requests + conn.input + socket.pieces <= socket.sent
    BY Zenon, <1>2, <2>1 DEF IInv, Phases, Leases, Input, Unread, Deadline
  <2>3. conn.pending = 0 /\ conn.outputLease = 0
    BY <1>2, <2>1 DEF IInv, Phases, Leases, Conns
  <2>4. jobs' = {} /\ ready' = {}
    BY Zenon, <1>1, <1>5 DEF IInv, Leases
  <2>5. /\ c \in Conns /\ c.continuation = 0 /\ c.state = conn.state
        /\ c.handlingEvent = conn.handlingEvent /\ c.pending = conn.pending
        /\ c.outputLease = conn.outputLease /\ c.input = conn.input /\ c.answer = conn.answer
        /\ c.draining = conn.draining /\ c.inputStopped = conn.inputStopped
        /\ c.readPaused = conn.readPaused /\ c.readDeadline = conn.readDeadline
    BY Zenon, <2>1 DEF Conns
  <2>6. /\ h \in Sessions /\ h.job = 0 /\ h.requestPending = session.requestPending
        /\ h.requestLease = session.requestLease /\ h.requestBytes = session.requestBytes
        /\ h.requests = session.requests /\ h.generation = session.generation
    BY Zenon, <2>1 DEF Sessions
  <2>. HIDE DEF c, h
  <2>7. /\ session.generation <= session.requests /\ session.requestLease = session.requestPending
        /\ c.input <= conn.input
    BY <2>1, <2>2, <2>5 DEF IInv, Bounds, Conns, Sessions
  <2>. QED  BY ZenonT(30), <1>1, <1>2, <1>5, <2>1, <2>2, <2>3, <2>4, <2>5, <2>6, <2>7, Responds
<1>. QED  BY Zenon, <1>3, <1>4, <1>5

(* The beginning of draining keeps the invariant: output that is pending is *)
(* still written, without it the connection closes.                         *)
LEMMA beginConnectionDrainStep ==
  ASSUME IInv, beginConnectionDrain
  PROVE  IInv'
<1>. DEFINE always == TRUE
            never == FALSE
            c == [[[[[[conn EXCEPT !.draining = always] EXCEPT !.continuation = 0]
                     EXCEPT !.readDeadline = never] EXCEPT !.inputStopped = always]
                   EXCEPT !.readPaused = always] EXCEPT !.idleWait = never]
<1>1. /\ AtRest /\ ~conn.draining
      /\ UNCHANGED <<session, pc, stage, socket, jobs, ready, counted, answered>>
  BY Zenon DEF beginConnectionDrain
<1>2. conn' = IF hasPendingOutput(c) THEN updateInterest(c) ELSE requestClose(c)
  BY Zenon DEF beginConnectionDrain
<1>3. /\ always \in BOOLEAN /\ never \in BOOLEAN /\ always /\ ~never
  OBVIOUS
<1>. HIDE DEF always, never
<1>4. /\ c \in Conns /\ c.state = conn.state /\ c.handlingEvent = conn.handlingEvent
      /\ c.draining = always /\ c.inputStopped = always /\ c.readPaused = always
      /\ c.readDeadline = never /\ c.continuation = 0 /\ c.pending = conn.pending
      /\ c.outputLease = conn.outputLease /\ c.input = conn.input /\ c.answer = conn.answer
      /\ c.eof = conn.eof
  BY ZenonT(30), <1>3 DEF IInv, Typed, Conns
<1>. HIDE DEF c
<1>5. pc = "poll" /\ stage = "none" /\ conn.state = "active" /\ ~conn.handlingEvent
  BY Zenon, <1>1 DEF AtRest, IInv, Control
<1>6. CASE ~hasPendingOutput(c)
  BY Zenon, <1>1, <1>2, <1>4, <1>5, <1>6, ClosesOnly
<1>7. CASE hasPendingOutput(c)
  <2>1. /\ conn' \in Conns /\ ~conn'.handlingEvent /\ conn'.state = "active"
        /\ conn'.pending = conn.pending /\ conn'.outputLease = conn.outputLease
        /\ conn'.input = conn.input /\ conn'.answer = conn.answer /\ conn'.continuation = 0
        /\ ~conn'.readDeadline /\ conn'.draining /\ conn'.inputStopped /\ conn'.readPaused
        /\ "in" \notin conn'.interest /\ "out" \in conn'.interest /\ conn.pending > 0
    BY ZenonT(30), <1>2, <1>3, <1>4, <1>5, <1>7, UpdateInterest DEF SameRest, hasPendingOutput
  <2>2. session.phase \in {"interim", "writing"}
    BY Zenon, <1>5, <2>1 DEF IInv, Phases
  <2>. USE <1>1, <1>5, <2>1, <2>2
  <2>3. Typed' /\ Control' /\ Interest'
    BY Zenon DEF IInv, Typed, Control, Interest
  <2>4. Bounds'
    BY DEF IInv, Bounds, Typed, Sessions
  <2>5. Phases'
    BY Zenon DEF IInv, Phases
  <2>6. Leases' /\ Deadline'
    BY Zenon DEF IInv, Leases, Deadline
  <2>7. Input' /\ Numbers'
    BY Zenon DEF IInv, Input, Unread, Numbers
  <2>. QED  BY Zenon, <2>3, <2>4, <2>5, <2>6, <2>7 DEF IInv
<1>. QED  BY Zenon, <1>6, <1>7

(* A time limit or a forced shutdown keeps the invariant.                   *)
LEMMA ClosedFromOutsideStep ==
  ASSUME IInv, ClosedFromOutside
  PROVE  IInv'
<1>1. /\ AtRest /\ conn' = requestClose(conn)
      /\ UNCHANGED <<session, pc, stage, socket, jobs, ready, counted, answered>>
  BY Zenon DEF ClosedFromOutside
<1>2. /\ conn \in Conns /\ ~conn.handlingEvent /\ pc = "poll" /\ stage = "none"
      /\ conn.state = "active"
  BY Zenon, <1>1 DEF AtRest, IInv, Typed, Control
<1>. QED  BY Zenon, <1>1, <1>2, ClosesOnly

(* ~Session and ~TcpConnection keep the invariant: what is left of the      *)
(* request, its job and the output is given back.                           *)
LEMMA DestroyedStep ==
  ASSUME IInv, Destroyed
  PROVE  IInv'
<1>. DEFINE never == FALSE
            h == [[[session EXCEPT !.requestLease = never] EXCEPT !.requestPending = never]
                   EXCEPT !.job = 0]
            c == [[conn EXCEPT !.pending = 0, !.outputLease = 0, !.input = 0] EXCEPT !.file = never]
<1>1. /\ pc = "poll" /\ stage = "none" /\ conn.state = "closing" /\ pc' = "gone"
      /\ jobs' = jobs \ {session.job} /\ ready' = ready \cap jobs'
      /\ counted' = Counted(session, "aborted") /\ UNCHANGED <<stage, socket, answered>>
  BY Zenon DEF Destroyed, WithoutJob
<1>2. session' = h /\ conn' = c
  BY Zenon DEF Destroyed, Finished
<1>3. never \in BOOLEAN /\ ~never
  OBVIOUS
<1>. HIDE DEF never
<1>4. /\ session' \in Sessions /\ session'.requestLease = never /\ session'.requestPending = never
      /\ session'.job = 0 /\ session'.requests = session.requests
      /\ session'.generation = session.generation
  BY Zenon, <1>2, <1>3 DEF IInv, Typed, Sessions
<1>5. /\ conn' \in Conns /\ conn'.pending = 0 /\ conn'.outputLease = 0 /\ conn'.input = 0
      /\ conn'.state = conn.state /\ conn'.handlingEvent = conn.handlingEvent
      /\ conn'.continuation = conn.continuation /\ conn'.answer = conn.answer
  BY Zenon, <1>2, <1>3 DEF IInv, Typed, Conns
<1>. HIDE DEF h, c
<1>6. counted' \in Seq({"completed", "aborted"}) /\ Len(counted') = session.requests
  BY Zenon, <1>1, Counting DEF IInv, Typed
<1>7. jobs' = {} /\ ready' = {}
  BY Zenon, <1>1 DEF IInv, Leases
<1>. USE <1>1, <1>3, <1>4, <1>5
<1>8. Typed'
  BY Zenon, <1>6, <1>7 DEF IInv, Typed
<1>9. Bounds'
  BY SMTT(30), SessionAssumption DEF IInv, Bounds, Typed, Sessions
<1>10. Control'
  BY Zenon DEF IInv, Control
<1>11. Phases' /\ Interest' /\ Deadline' /\ Input'
  BY Zenon DEF Phases, Interest, AtRest, Deadline, Input
<1>12. Leases'
  BY Zenon, <1>7 DEF Leases
<1>13. Numbers'
  BY Zenon, <1>6 DEF IInv, Numbers
<1>. QED  BY Zenon, <1>8, <1>9, <1>10, <1>11, <1>12, <1>13 DEF IInv

(* What the client, the executor and the clock do keeps the invariant.      *)
LEMMA EnvironmentStep ==
  ASSUME IInv, \/ ClientSends \/ ClientShutsDown \/ JobFinishes
               \/ ReadDeadlinePasses \/ JobDeadlinePasses
  PROVE  IInv'
<1>1. CASE ClientSends
  <2>. DEFINE p == socket.pieces + 1
              s == socket.sent + 1
  <2>1. /\ socket \in [pieces : Nat, sent : Nat, eof : BOOLEAN] /\ p \in Nat /\ s \in Nat
        /\ socket' = [socket EXCEPT !.pieces = p, !.sent = s] /\ socket.sent < MaxRequests
        /\ UNCHANGED <<conn, session, pc, stage, jobs, ready, counted, answered>>
    BY <1>1 DEF ClientSends, IInv, Typed
  <2>. HIDE DEF p, s
  <2>2. /\ socket' \in [pieces : Nat, sent : Nat, eof : BOOLEAN]
        /\ socket'.pieces = p /\ socket'.sent = s
    BY Zenon, <2>1
  <2>3. socket'.pieces = socket.pieces + 1 /\ socket'.sent = socket.sent + 1
    BY Zenon, <2>2 DEF p, s
  <2>. USE <2>1, <2>2, <2>3
  <2>4. Typed' /\ Control' /\ Phases' /\ Interest' /\ Leases' /\ Deadline' /\ Numbers'
    BY DEF IInv, Typed, Control, Phases, Interest, AtRest, Leases, Deadline, Numbers
  <2>5. Bounds'
    BY SessionAssumption DEF IInv, Bounds
  <2>6. Input'
    <3>1. /\ conn.input \in Nat /\ session.requests \in Nat
          /\ socket.pieces \in Nat /\ socket.sent \in Nat
      BY Zenon DEF IInv, Typed, Conns, Sessions
    <3>. QED  BY <3>1 DEF IInv, Input, Unread
  <2>. QED  BY Zenon, <2>4, <2>5, <2>6 DEF IInv
<1>2. CASE ClientShutsDown
  <2>1. /\ socket' \in [pieces : Nat, sent : Nat, eof : BOOLEAN]
        /\ socket'.pieces = socket.pieces /\ socket'.sent = socket.sent
        /\ UNCHANGED <<conn, session, pc, stage, jobs, ready, counted, answered>>
    BY Zenon, <1>2 DEF ClientShutsDown, IInv, Typed
  <2>. QED  BY Zenon, <2>1, Untouched DEF IInv, Typed
<1>3. CASE JobFinishes
  <2>1. /\ ready' \subseteq jobs
        /\ UNCHANGED <<conn, session, pc, stage, socket, jobs, counted, answered>>
    BY Zenon, <1>3 DEF JobFinishes, IInv, Typed
  <2>. QED  BY Zenon, <2>1, Untouched DEF IInv, Typed
<1>4. CASE ReadDeadlinePasses \/ JobDeadlinePasses
  <2>1. /\ session' \in Sessions /\ session'.phase = session.phase
        /\ session'.close = session.close /\ session'.requestPending = session.requestPending
        /\ session'.requestLease = session.requestLease /\ session'.job = session.job
        /\ session'.generation = session.generation
        /\ session'.requestBytes = session.requestBytes /\ session'.requests = session.requests
        /\ UNCHANGED <<conn, pc, stage, socket, jobs, ready, counted, answered>>
    BY ZenonT(30), <1>4 DEF ReadDeadlinePasses, JobDeadlinePasses, IInv, Typed, Sessions
  <2>. QED  BY Zenon, <2>1, Untouched DEF IInv, Typed
<1>. QED  BY Zenon, <1>1, <1>2, <1>3, <1>4

-----------------------------------------------------------------------------
(* The invariant.                                                           *)

(* A new connection satisfies the invariant.                                *)
LEMMA InvariantInit == Init => IInv
<1>. SUFFICES ASSUME Init
              PROVE  IInv
  OBVIOUS
<1>1. conn \in Conns /\ session \in Sessions
  BY Zenon DEF Init, Conns, Sessions
<1>2. /\ conn.state = "active" /\ ~conn.draining /\ ~conn.inputStopped /\ ~conn.readPaused
      /\ ~conn.handlingEvent /\ ~conn.eof /\ conn.interest = {"in"} /\ ~conn.readDeadline
      /\ conn.continuation = 0 /\ conn.input = 0 /\ conn.pending = 0 /\ conn.outputLease = 0
      /\ conn.answer = 0
  BY Zenon DEF Init
<1>3. /\ session.phase = "reading" /\ ~session.requestPending /\ ~session.requestLease
      /\ session.job = 0 /\ session.generation = 0 /\ ~session.requestBytes
      /\ session.requests = 0
  BY Zenon DEF Init
<1>4. /\ pc = "poll" /\ stage = "none" /\ jobs = {} /\ ready = {}
      /\ counted = << >> /\ answered = << >>
      /\ socket \in [pieces : Nat, sent : Nat, eof : BOOLEAN]
      /\ socket.pieces = 0 /\ socket.sent = 0
  BY Zenon DEF Init
<1>. USE <1>1, <1>2, <1>3, <1>4
<1>5. Typed /\ Bounds
  BY SessionAssumption DEF Typed, Bounds
<1>6. Control /\ Phases /\ Interest
  BY DEF Control, Phases, Interest
<1>7. Leases /\ Deadline /\ Input
  BY DEF Leases, Deadline, Input, Unread
<1>8. Numbers
  BY DEF Numbers
<1>. QED  BY Zenon, <1>5, <1>6, <1>7, <1>8 DEF IInv

(* Every step of the loop, the client, the executor and the clock keeps the *)
(* invariant.                                                               *)
LEMMA InvariantStep == IInv /\ [Next]_vars => IInv'
<1>. SUFFICES ASSUME IInv, [Next]_vars
              PROVE  IInv'
  OBVIOUS
<1>1. CASE Message
  BY Zenon, <1>1, MessageStep
<1>2. CASE Admit
  BY Zenon, <1>2, AdmitStep
<1>3. CASE ParseNeedMore
  BY Zenon, <1>3, ParseNeedMoreStep
<1>4. CASE ParseEnds
  BY Zenon, <1>4, ParseEndsStep
<1>5. CASE ParseTask
  BY Zenon, <1>5, ParseTaskStep
<1>6. CASE onRequestHeaders
  BY Zenon, <1>6, onRequestHeadersStep
<1>7. CASE handleConnectionEvent
  BY Zenon, <1>7, handleConnectionEventStep
<1>8. CASE readMessages
  BY Zenon, <1>8, readMessagesStep
<1>9. CASE flushOutput
  BY Zenon, <1>9, flushOutputStep
<1>10. CASE EventEnds
  BY Zenon, <1>10, EventEndsStep
<1>11. CASE \E lost \in BOOLEAN : onTaskContinuation(lost)
  BY Zenon, <1>11, onTaskContinuationStep
<1>12. CASE beginConnectionDrain
  BY Zenon, <1>12, beginConnectionDrainStep
<1>13. CASE ClosedFromOutside
  BY Zenon, <1>13, ClosedFromOutsideStep
<1>14. CASE Destroyed
  BY Zenon, <1>14, DestroyedStep
<1>15. CASE \/ ClientSends \/ ClientShutsDown \/ JobFinishes
            \/ ReadDeadlinePasses \/ JobDeadlinePasses
  BY Zenon, <1>15, EnvironmentStep
<1>16. CASE UNCHANGED vars
  BY Zenon, <1>16, Untouched DEF vars, IInv, Typed
<1>. QED
  BY Zenon, <1>1, <1>2, <1>3, <1>4, <1>5, <1>6, <1>7, <1>8, <1>9, <1>10, <1>11, <1>12, <1>13, <1>14,
     <1>15, <1>16 DEF Next, Handling

-----------------------------------------------------------------------------
(* The properties.                                                          *)

(* In every reachable state the connection and its session keep each        *)
(* other's books.                                                           *)
THEOREM BooksKept == Spec => []IInv
<1>. QED  BY InvariantInit, InvariantStep, PTL DEF Spec

(* The numbers stay within the window, the largest response and the number  *)
(* of requests.                                                             *)
LEMMA TypeCorrect == IInv => TypeOK
<1>. SUFFICES ASSUME IInv
              PROVE  TypeOK
  OBVIOUS
<1>1. conn \in Conns /\ session \in Sessions
  BY Zenon DEF IInv, Typed
<1>2. /\ conn.continuation \in 0 .. MaxRequests /\ conn.input \in 0 .. MaxInput
      /\ conn.pending \in 0 .. MaxOutput /\ conn.outputLease \in 0 .. MaxOutput
      /\ conn.answer \in 0 .. MaxRequests + 1
      /\ session.job \in 0 .. MaxRequests /\ session.generation \in 0 .. MaxRequests
      /\ session.requests \in 0 .. MaxRequests
  <2>1. /\ conn.continuation \in Nat /\ conn.input \in Nat /\ conn.pending \in Nat
        /\ conn.answer \in Nat /\ session.job \in Nat /\ session.generation \in Nat
        /\ session.requests \in Nat
    BY Zenon, <1>1 DEF Conns, Sessions
  <2>. QED  BY <2>1, SessionAssumption DEF IInv, Bounds, Leases
<1>3. conn \in [state : {"active", "closing"}, draining : BOOLEAN, inputStopped : BOOLEAN,
                readPaused : BOOLEAN, handlingEvent : BOOLEAN, closeRequested : BOOLEAN,
                eof : BOOLEAN, interest : SUBSET {"in", "out"}, idleWait : BOOLEAN,
                readDeadline : BOOLEAN, continuation : 0 .. MaxRequests, input : 0 .. MaxInput,
                pending : 0 .. MaxOutput, file : BOOLEAN, outputLease : 0 .. MaxOutput,
                answer : 0 .. MaxRequests + 1]
  BY Zenon, <1>1, <1>2 DEF Conns
<1>4. session \in [phase : {"reading", "interim", "awaiting", "writing", "closing"},
                   completed : BOOLEAN, close : BOOLEAN, requestPending : BOOLEAN,
                   requestLease : BOOLEAN, readDeadline : {"none", "set", "past"},
                   job : 0 .. MaxRequests, jobLate : BOOLEAN, generation : 0 .. MaxRequests,
                   requestBytes : BOOLEAN, headersSeen : BOOLEAN, requests : 0 .. MaxRequests]
  BY Zenon, <1>1, <1>2 DEF Sessions
<1>5. socket \in [pieces : 0 .. MaxRequests, sent : 0 .. MaxRequests, eof : BOOLEAN]
  <2>1. socket \in [pieces : Nat, sent : Nat, eof : BOOLEAN]
    BY Zenon DEF IInv, Typed
  <2>2. socket.pieces \in 0 .. MaxRequests /\ socket.sent \in 0 .. MaxRequests
    BY <2>1, SessionAssumption DEF IInv, Bounds
  <2>. QED  BY Zenon, <2>1, <2>2
<1>6. ready \subseteq jobs /\ jobs \subseteq 1 .. MaxRequests
  BY SMTT(30), <1>2, SessionAssumption DEF IInv, Typed, Leases
<1>7. Len(counted) <= MaxRequests /\ Len(answered) <= MaxRequests + 1
  <2>1. Len(counted) \in Nat /\ Len(answered) \in Nat
    BY DEF IInv, Typed
  <2>. QED  BY SMTT(30), <1>2, <2>1, SessionAssumption DEF IInv, Numbers
<1>. QED  BY Zenon, <1>3, <1>4, <1>5, <1>6, <1>7 DEF IInv, Typed, TypeOK

(* The output lease always covers exactly the pending output, the input     *)
(* lease lasts as long as its request, and the executor holds no job but    *)
(* the one the session waits for: whatever order the closing paths of       *)
(* Session and TcpConnection run in, nothing leaks.                         *)
THEOREM LeasesAreExact == Spec => []NothingLeaks
<1>1. IInv => NothingLeaks
  BY Zenon, TypeCorrect DEF NothingLeaks, IInv, Leases, Control
<1>. QED  BY <1>1, BooksKept, PTL

(* Pipelined requests are answered one by one, in their order, whether the  *)
(* router, the executor or an error path makes the response.                *)
THEOREM ResponsesInOrder == Spec => []AnsweredInOrder
<1>1. IInv => AnsweredInOrder
  BY Zenon DEF AnsweredInOrder, IInv, Numbers
<1>. QED  BY <1>1, BooksKept, PTL

(* No order of pausing, resuming, half-closing and draining leaves an open  *)
(* connection at rest without an event or a continuation to wait for.       *)
THEOREM ConnectionNeverDeaf == Spec => []NeverStuck
<1>1. ASSUME IInv, AtRest
      PROVE  \/ "in" \in conn.interest /\ session.phase = "reading"
             \/ /\ "out" \in conn.interest /\ hasPendingOutput(conn)
                /\ session.phase \in {"interim", "writing", "closing"}
             \/ conn.continuation = session.generation /\ session.phase = "awaiting"
  <2>1. session.phase \in {"reading", "interim", "awaiting", "writing", "closing"}
    BY Zenon, <1>1 DEF IInv, Typed, Sessions
  <2>2. CASE session.phase = "reading"
    BY Zenon, <1>1, <2>2 DEF IInv, Phases, Interest, AtRest
  <2>3. CASE session.phase \in {"interim", "writing"}
    BY Zenon, <1>1, <2>3 DEF IInv, Phases, Interest, AtRest, hasPendingOutput
  <2>4. CASE session.phase \in {"awaiting", "closing"}
    BY Zenon, <1>1, <2>4 DEF IInv, Phases, AtRest
  <2>. QED  BY Zenon, <2>1, <2>2, <2>3, <2>4
<1>2. IInv => NeverStuck
  BY Zenon, <1>1 DEF NeverStuck
<1>. QED  BY <1>2, BooksKept, PTL

(* The read deadline is armed while a request is being received, and only   *)
(* then: it neither lapses nor cuts off a response.                         *)
THEOREM DeadlineIsTheRequests == Spec => []DeadlineFollowsRequest
<1>1. ASSUME IInv, AtRest
      PROVE  session.requestLease <=> session.requestPending
  BY Zenon, <1>1 DEF IInv, Leases, AtRest
<1>2. IInv => DeadlineFollowsRequest
  BY Zenon, <1>1 DEF DeadlineFollowsRequest, IInv, Deadline, AtRest
<1>. QED  BY <1>2, BooksKept, PTL

-----------------------------------------------------------------------------
(* The session implements HttpExchange.                                     *)

Exchanged == [Exchange!Next]_<<session.requestPending, counted>>

(* finishPendingRequest ends the request that is pending, or does nothing.  *)
LEMMA Settles ==
  ASSUME IInv, NEW h \in Sessions, h.requestPending = session.requestPending,
         NEW outcome \in {"completed", "aborted"}, counted' = Counted(h, outcome),
         session' \in Sessions, ~session'.requestPending
  PROVE  Exchanged
<1>1. session'.requestPending = FALSE /\ session.requestPending \in BOOLEAN
  BY Zenon DEF Sessions, IInv, Typed
<1>2. CASE session.requestPending
  <2>1. counted' = Append(counted, outcome)
    BY Zenon, <1>2 DEF Counted
  <2>2. Exchange!Finish(outcome)
    BY Zenon, <1>1, <1>2, <2>1 DEF Exchange!Finish
  <2>. QED  BY Zenon, <2>2 DEF Exchanged, Exchange!Next
<1>3. CASE ~session.requestPending
  <2>1. counted' = counted
    BY Zenon, <1>3 DEF Counted
  <2>2. session.requestPending = FALSE
    BY Zenon, <1>1, <1>3
  <2>. QED  BY Zenon, <1>1, <2>1, <2>2 DEF Exchanged
<1>. QED  BY Zenon, <1>2, <1>3

(* closeResourceRejected aborts the request that is pending, if any.        *)
LEMMA RejectionSettles ==
  ASSUME IInv, NEW c, NEW h \in Sessions, h.requestPending = session.requestPending,
         closeResourceRejected(c, h)
  PROVE  Exchanged
<1>1. counted' = Counted(h, "aborted") /\ session' \in Sessions /\ ~session'.requestPending
  BY Zenon DEF closeResourceRejected, Finished, Sessions
<1>. QED  BY Zenon, <1>1, Settles

(* sendFinalResponse leaves the request pending until the response is       *)
(* written, or aborts it.                                                   *)
LEMMA ResponseSettles ==
  ASSUME IInv, NEW c, NEW h \in Sessions, h.requestPending = session.requestPending,
         NEW close \in BOOLEAN, sendFinalResponse(c, h, close)
  PROVE  Exchanged
<1>. DEFINE g == [h EXCEPT !.phase = "writing", !.close = close, !.completed = TRUE]
<1>1. g \in Sessions /\ g.requestPending = h.requestPending
  BY Zenon DEF Sessions
<1>2. \/ session' = g /\ UNCHANGED counted
      \/ closeResourceRejected(c, g)
  BY Zenon DEF sendFinalResponse
<1>. HIDE DEF g
<1>3. CASE session' = g /\ UNCHANGED counted
  BY Zenon, <1>1, <1>3 DEF Exchanged
<1>4. CASE closeResourceRejected(c, g)
  BY Zenon, <1>1, <1>4, RejectionSettles
<1>. QED  BY Zenon, <1>2, <1>3, <1>4

(* An expired request is left to the destructor.                            *)
LEMMA ExpirySettles ==
  ASSUME IInv, closeExpiredRequest
  PROVE  Exchanged
<1>1. session'.requestPending = session.requestPending /\ UNCHANGED counted
  BY Zenon DEF closeExpiredRequest, IInv, Typed, Sessions
<1>. QED  BY Zenon, <1>1 DEF Exchanged

(* Turning to the response does not end the request.                        *)
LEMMA RespondingKeeps ==
  ASSUME NEW c, NEW h \in Sessions
  PROVE  /\ Responding(c, h)[2] \in Sessions
         /\ Responding(c, h)[2].requestPending = h.requestPending
         /\ Awaiting(Responding(c, h)[2]) \in Sessions
         /\ Awaiting(Responding(c, h)[2]).requestPending = h.requestPending
<1>. DEFINE g == [h EXCEPT !.readDeadline = "none", !.phase = "writing", !.requestBytes = TRUE]
<1>1. Responding(c, h)[2] = g
  BY Zenon DEF Responding
<1>2. g \in Sessions /\ g.requestPending = h.requestPending
  BY Zenon DEF Sessions
<1>. HIDE DEF g
<1>3. Awaiting(g) \in Sessions /\ Awaiting(g).requestPending = g.requestPending
  <2>. DEFINE next == g.generation + 1
              never == FALSE
  <2>1. /\ next \in Nat /\ g.requests \in Nat /\ never \in BOOLEAN
        /\ Awaiting(g) = [g EXCEPT !.phase = "awaiting", !.job = g.requests, !.jobLate = never,
                                   !.generation = next]
    BY <1>2 DEF Awaiting, Sessions
  <2>. HIDE DEF next, never
  <2>. QED  BY ZenonT(30), <1>2, <2>1 DEF Sessions
<1>. QED  BY Zenon, <1>1, <1>2, <1>3

(* The beginning of onMessage begins at most a request, after requests that *)
(* were all completed.                                                      *)
LEMMA MessageExchanged ==
  ASSUME IInv, Message
  PROVE  Exchanged
<1>. DEFINE always == TRUE
            one == session.requests + 1
<1>1. session \in Sessions /\ one \in Nat /\ stage # "none"
  BY DEF IInv, Typed, Sessions, Message
<1>2. \/ closeExpiredRequest
      \/ UNCHANGED <<session, counted>>
      \/ /\ ~session.requestPending /\ UNCHANGED counted
         /\ session' = [[session EXCEPT !.requestPending = always] EXCEPT !.requests = one]
  BY Zenon DEF Message
<1>3. always \in BOOLEAN /\ always = TRUE
  OBVIOUS
<1>. HIDE DEF always, one
<1>4. CASE /\ ~session.requestPending /\ UNCHANGED counted
           /\ session' = [[session EXCEPT !.requestPending = always] EXCEPT !.requests = one]
  <2>1. session'.requestPending = always
    BY Zenon, <1>1, <1>3, <1>4 DEF Sessions
  <2>2. \A i \in 1 .. Len(counted) : counted[i] = "completed"
    BY Zenon, <1>1, OnMessage DEF IInv, Numbers
  <2>3. Exchange!Begin
    BY Zenon, <1>3, <1>4, <2>1, <2>2 DEF Exchange!Begin
  <2>. QED  BY Zenon, <2>3 DEF Exchanged, Exchange!Next
<1>5. CASE UNCHANGED <<session, counted>>
  BY Zenon, <1>5 DEF Exchanged
<1>. QED  BY Zenon, <1>2, <1>4, <1>5, ExpirySettles

(* The other steps of onMessage end a request or leave it.                  *)
LEMMA OnMessageExchanged ==
  ASSUME IInv, Admit \/ ParseNeedMore \/ ParseEnds \/ ParseTask \/ onRequestHeaders
  PROVE  Exchanged
<1>1. session \in Sessions
  BY Zenon DEF IInv, Typed
<1>2. CASE Admit
  <2>1. CASE /\ session' = [session EXCEPT !.requestLease = TRUE, !.readDeadline = "set"]
             /\ UNCHANGED counted
    <3>1. session'.requestPending = session.requestPending
      BY Zenon, <1>1, <2>1 DEF Sessions
    <3>. QED  BY Zenon, <2>1, <3>1 DEF Exchanged
  <2>2. CASE closeResourceRejected(conn, session)
    BY Zenon, <1>1, <2>2, RejectionSettles
  <2>. QED  BY Zenon, <1>2, <2>1, <2>2 DEF Admit
<1>3. CASE ParseNeedMore
  <2>. DEFINE seen == session.requestBytes \/ conn.input > 0
              h == [session EXCEPT !.requestBytes = seen]
              r == Responding(Consumed(0), h)
  <2>1. seen \in BOOLEAN
    BY Zenon, <1>1 DEF Sessions
  <2>2. \/ session' = h /\ UNCHANGED counted
        \/ session' = [h EXCEPT !.phase = "closing"] /\ UNCHANGED counted
        \/ closeExpiredRequest
        \/ sendFinalResponse(r[1], r[2], TRUE)
    BY Zenon, <1>3 DEF ParseNeedMore
  <2>. HIDE DEF seen
  <2>3. h \in Sessions /\ h.requestPending = session.requestPending
    BY Zenon, <1>1, <2>1 DEF Sessions
  <2>. HIDE DEF h
  <2>4. CASE session' = h /\ UNCHANGED counted
    BY Zenon, <2>3, <2>4 DEF Exchanged
  <2>5. CASE session' = [h EXCEPT !.phase = "closing"] /\ UNCHANGED counted
    <3>1. session'.requestPending = h.requestPending
      BY Zenon, <2>3, <2>5 DEF Sessions
    <3>. QED  BY Zenon, <2>3, <2>5, <3>1 DEF Exchanged
  <2>6. CASE sendFinalResponse(r[1], r[2], TRUE)
    BY Zenon, <2>3, <2>6, RespondingKeeps, ResponseSettles
  <2>. QED  BY Zenon, <2>2, <2>4, <2>5, <2>6, ExpirySettles
<1>4. CASE ParseEnds
  <2>1. PICK rest \in 0 .. conn.input - 1 :
          \/ closeExpiredRequest
          \/ \E close \in BOOLEAN :
               sendFinalResponse(Responding(Consumed(rest), session)[1],
                                 Responding(Consumed(rest), session)[2], close)
    BY <1>4, Zenon DEF ParseEnds
  <2>. QED  BY Zenon, <1>1, <2>1, RespondingKeeps, ResponseSettles, ExpirySettles
<1>5. CASE ParseTask
  <2>1. PICK rest \in 0 .. conn.input - 1 :
          LET r == Responding(Consumed(rest), session)
              h == Awaiting(r[2])
          IN \/ session' = h /\ UNCHANGED counted
             \/ sendFinalResponse(r[1], [h EXCEPT !.job = 0], TRUE)
    BY <1>5, Zenon DEF ParseTask
  <2>. DEFINE r == Responding(Consumed(rest), session)
              h == Awaiting(r[2])
              g == [h EXCEPT !.job = 0]
  <2>2. h \in Sessions /\ h.requestPending = session.requestPending
    BY Zenon, <1>1, RespondingKeeps
  <2>. HIDE DEF h
  <2>3. g \in Sessions /\ g.requestPending = h.requestPending
    BY Zenon, <2>2 DEF Sessions
  <2>. HIDE DEF g
  <2>4. CASE session' = h /\ UNCHANGED counted
    BY Zenon, <2>2, <2>4 DEF Exchanged
  <2>5. CASE sendFinalResponse(r[1], g, TRUE)
    BY Zenon, <2>2, <2>3, <2>5, ResponseSettles
  <2>. QED  BY Zenon, <2>1, <2>4, <2>5 DEF g, h
<1>6. CASE onRequestHeaders
  <2>. DEFINE h == [session EXCEPT !.requestBytes = TRUE, !.headersSeen = TRUE]
              g == [h EXCEPT !.phase = "interim"]
  <2>1. PICK rest \in 0 .. conn.input - 1 :
          LET c == pauseReading([Consumed(rest) EXCEPT !.idleWait = FALSE])
              r == Responding(c, h)
          IN \/ closeExpiredRequest
             \/ session' = g /\ UNCHANGED counted
             \/ closeResourceRejected(c, g)
             \/ sendFinalResponse(r[1], r[2], TRUE)
    BY <1>6, Zenon DEF onRequestHeaders
  <2>. DEFINE c == pauseReading([Consumed(rest) EXCEPT !.idleWait = FALSE])
              r == Responding(c, h)
  <2>2. h \in Sessions /\ h.requestPending = session.requestPending
    BY Zenon, <1>1 DEF Sessions
  <2>. HIDE DEF h
  <2>3. g \in Sessions /\ g.requestPending = session.requestPending
    BY Zenon, <2>2 DEF Sessions
  <2>. HIDE DEF g, c
  <2>4. CASE session' = g /\ UNCHANGED counted
    BY Zenon, <2>3, <2>4 DEF Exchanged
  <2>5. CASE closeResourceRejected(c, g)
    BY Zenon, <2>3, <2>5, RejectionSettles
  <2>6. CASE sendFinalResponse(r[1], r[2], TRUE)
    BY Zenon, <2>2, <2>6, RespondingKeeps, ResponseSettles
  <2>. QED  BY Zenon, <2>1, <2>4, <2>5, <2>6, ExpirySettles DEF c
<1>. QED  BY Zenon, <1>2, <1>3, <1>4, <1>5, <1>6

(* Writing the rest of a response completes the request, or aborts one that *)
(* has only been told to continue.                                          *)
LEMMA WriteExchanged ==
  ASSUME IInv, flushOutput
  PROVE  Exchanged
<1>1. session \in Sessions
  BY Zenon DEF IInv, Typed
<1>2. \/ UNCHANGED <<session, counted>>
      \/ onWriteComplete([Written(conn, conn.pending) EXCEPT !.file = FALSE])
  BY Zenon DEF flushOutput
<1>3. CASE UNCHANGED <<session, counted>>
  BY Zenon, <1>3 DEF Exchanged
<1>4. ASSUME NEW c, onWriteComplete(c)
      PROVE  Exchanged
  <2>. DEFINE f == Finished(session)
  <2>1. f \in Sessions /\ ~f.requestPending
    BY Zenon, <1>1 DEF Finished, Sessions
  <2>2. \/ /\ session' = [f EXCEPT !.phase = "closing", !.readDeadline = "none"]
           /\ counted' = Counted(session, "aborted")
        \/ /\ session' = [session EXCEPT !.phase = "closing", !.readDeadline = "none"]
           /\ UNCHANGED counted
        \/ /\ session' = [session EXCEPT !.phase = "reading"] /\ UNCHANGED counted
        \/ /\ \/ session' = [f EXCEPT !.phase = "closing"]
              \/ session' = [f EXCEPT !.phase = "reading", !.requestBytes = FALSE,
                                      !.headersSeen = FALSE]
           /\ counted' = Counted(session, "completed")
    BY Zenon, <1>4 DEF onWriteComplete
  <2>. HIDE DEF f
  <2>3. \/ /\ session' \in Sessions /\ ~session'.requestPending
           /\ \E outcome \in {"completed", "aborted"} : counted' = Counted(session, outcome)
        \/ session'.requestPending = session.requestPending /\ UNCHANGED counted
    <3>1. CASE /\ session' = [f EXCEPT !.phase = "closing", !.readDeadline = "none"]
               /\ counted' = Counted(session, "aborted")
      BY Zenon, <2>1, <3>1 DEF Sessions
    <3>2. CASE /\ \/ session' = [session EXCEPT !.phase = "closing", !.readDeadline = "none"]
                  \/ session' = [session EXCEPT !.phase = "reading"]
               /\ UNCHANGED counted
      BY Zenon, <1>1, <3>2 DEF Sessions
    <3>3. CASE /\ \/ session' = [f EXCEPT !.phase = "closing"]
                  \/ session' = [f EXCEPT !.phase = "reading", !.requestBytes = FALSE,
                                          !.headersSeen = FALSE]
               /\ counted' = Counted(session, "completed")
      BY ZenonT(30), <2>1, <3>3 DEF Sessions
    <3>. QED  BY Zenon, <2>2, <3>1, <3>2, <3>3
  <2>4. CASE session'.requestPending = session.requestPending /\ UNCHANGED counted
    BY Zenon, <2>4 DEF Exchanged
  <2>. QED  BY Zenon, <1>1, <2>3, <2>4, Settles
<1>. QED  BY Zenon, <1>2, <1>3, <1>4

(* Every step begins a request, ends one, or leaves both alone.             *)
LEMMA StepExchanged == IInv /\ [Next]_vars => Exchanged
<1>. SUFFICES ASSUME IInv, [Next]_vars
              PROVE  Exchanged
  OBVIOUS
<1>1. session \in Sessions
  BY Zenon DEF IInv, Typed
<1>2. CASE Destroyed
  <2>1. /\ counted' = Counted(session, "aborted") /\ session' \in Sessions
        /\ ~session'.requestPending
    BY ZenonT(30), <1>1, <1>2 DEF Destroyed, Finished, Sessions
  <2>. QED  BY Zenon, <1>1, <2>1, Settles
<1>3. CASE \E lost \in BOOLEAN : onTaskContinuation(lost)
  <2>. DEFINE h == [session EXCEPT !.job = 0]
  <2>1. \/ \E close \in BOOLEAN : sendFinalResponse([conn EXCEPT !.continuation = 0], h, close)
        \/ UNCHANGED <<session, counted>>
    BY <1>3, Zenon DEF onTaskContinuation
  <2>2. h \in Sessions /\ h.requestPending = session.requestPending
    BY Zenon, <1>1 DEF Sessions
  <2>. HIDE DEF h
  <2>3. CASE UNCHANGED <<session, counted>>
    BY Zenon, <2>3 DEF Exchanged
  <2>. QED  BY Zenon, <2>1, <2>2, <2>3, ResponseSettles
<1>4. CASE UNCHANGED <<session, counted>>
  BY Zenon, <1>4 DEF Exchanged
<1>5. CASE ReadDeadlinePasses \/ JobDeadlinePasses
  <2>1. session'.requestPending = session.requestPending /\ UNCHANGED counted
    BY Zenon, <1>1, <1>5 DEF ReadDeadlinePasses, JobDeadlinePasses, Sessions
  <2>. QED  BY Zenon, <2>1 DEF Exchanged
<1>6. \/ Message \/ Admit \/ ParseNeedMore \/ ParseEnds \/ ParseTask \/ onRequestHeaders
      \/ flushOutput \/ Destroyed \/ (\E lost \in BOOLEAN : onTaskContinuation(lost))
      \/ ReadDeadlinePasses \/ JobDeadlinePasses \/ UNCHANGED <<session, counted>>
  BY Zenon DEF Next, Handling, readMessages, EventEnds, handleConnectionEvent, beginConnectionDrain,
     ClosedFromOutside, ClientSends, ClientShutsDown, JobFinishes, vars
<1>. QED  BY Zenon, <1>2, <1>3, <1>4, <1>5, <1>6, MessageExchanged, OnMessageExchanged, WriteExchanged

(* The requests a connection counts in the metrics follow HttpExchange:     *)
(* each is counted once, one at a time, and only the last is aborted.       *)
THEOREM RequestsCountedOnce == Spec => CountedOnce
<1>1. Init => Exchange!Init
  <2>1. Init => counted = << >>
    BY Zenon DEF Init
  <2>2. Init => session.requestPending = FALSE
    BY SMTT(30) DEF Init
  <2>. QED  BY Zenon, <2>1, <2>2 DEF Exchange!Init
<1>. QED  BY <1>1, BooksKept, StepExchanged, PTL DEF CountedOnce, Exchange!Spec, Exchanged, Spec
=============================================================================
