------------------------- MODULE ConnectionRegistry -------------------------
(***************************************************************************)
(* hp::net::ConnectionRegistry, the part of TcpConnection it manages, and   *)
(* the channel table of its loop: registration, time limits and             *)
(* continuations, closing, recovery, drain, delivery of events.  File       *)
(* descriptors are reused; identities and tokens are not.  Everything runs  *)
(* on one loop, one callback at a time, so a method is an operator from the *)
(* registry's state to its state and a callback is a series of actions.     *)
(***************************************************************************)
EXTENDS Integers, Sequences, FiniteSetsExt, Functions, TLC

CONSTANTS
  Nobody,             \* what is no file descriptor
  Settings            \* the settings under which a registry is constructed

(* A setting has the file descriptors the process may get, the largest      *)
(* identity and the largest token (0 follows each), timeouts_ (0 when       *)
(* switched off), whether EPOLL_CTL_DEL fails, and the bound of the model   *)
(* on the clock.                                                            *)
ASSUME RegistryAssumption ==
  \A s \in Settings :
    /\ Nobody \notin s.fds /\ s.maxIdentity \in Nat \ {0} /\ s.maxToken \in Nat \ {0}
    /\ s.delFails \in BOOLEAN
    /\ s.idle \in Nat /\ s.keepAlive \in Nat /\ s.maxTime \in Nat

VARIABLES
  setting,       \* the setting; it never changes
  reg,           \* the registry: see Init
  nextIdentity,  \* nextIdentity_
  nextToken,     \* nextToken, which all loops share
  events,        \* what the last epoll_wait reported and is not delivered yet
  current,       \* the descriptor whose callback is running, or Nobody
  loop,          \* the owner loop's state
  now

vars == <<reg, nextIdentity, nextToken, events, current, loop, now, setting>>

Fds         == setting.fds
MaxIdentity == setting.maxIdentity
MaxToken    == setting.maxToken
Idle        == setting.idle
KeepAlive   == setting.keepAlive
MaxTime     == setting.maxTime

Unset  == -1

Init ==
  /\ reg = [conns |-> [f \in {} |-> 0],   \* connections_, by descriptor
            closing |-> << >>,            \* the list that starts at closingHead_
            timers |-> {},                \* the timers this registry has in the loop
            metrics |-> 0,                \* open connections in metrics_
            registering |-> 0,            \* registeringIdentity_
            channels |-> [t \in {} |-> 0], \* channels_: whose Channel a token leads to
            fds |-> [f \in {} |-> 0],     \* fds_: the token of a registered descriptor
            kernel |-> [f \in {} |-> 0],  \* what epoll watches: the token and whose socket
            draining |-> FALSE, notified |-> FALSE]
  /\ setting \in Settings
  /\ nextIdentity = 1 /\ nextToken = 1
  /\ events = {} /\ current = Nobody /\ loop = "running" /\ now = 0

NewConnection(id) ==
  [id |-> id, token |-> 0, state |-> "unregistered", draining |-> FALSE, output |-> FALSE, queued |-> FALSE,
   idle |-> FALSE, lastProgress |-> now, waitSince |-> Unset, readDeadline |-> Unset,
   continuation |-> FALSE]

With(s, f, r) == [s EXCEPT !.conns[f] = r]

-----------------------------------------------------------------------------
(* The loop's channel table.                                                *)

(* allocateToken: the next token, or a later one when other loops have      *)
(* taken some meanwhile; 0 when none is left, and the call throws.          *)
LeastFreeToken == {Min((1 .. MaxToken) \ DOMAIN reg.channels)}
allocateToken == {0} \cup (IF nextToken = 0 THEN {} ELSE nextToken .. MaxToken)

TokenAfter(token) == IF token \in {0, MaxToken} THEN 0 ELSE token + 1

(* updateChannel of a channel that is not registered: both maps and then    *)
(* epoll; what fails is undone and thrown on.  The results it can have.     *)
RolledBack(s, f, token) ==
  [s EXCEPT !.fds = Restrict(@, DOMAIN @ \ {f}),
            !.channels = Restrict(@, DOMAIN @ \ {token})]

updateChannel(s, f, token) ==
  LET id    == s.conns[f].id
      first == [s EXCEPT !.channels = (token :> [fd |-> f, id |-> id]) @@ @]
      both  == [first EXCEPT !.fds = (f :> token) @@ @]
      added == [both EXCEPT !.kernel = (f :> [token |-> token, socket |-> id]) @@ @,
                            !.conns[f].token = token]
  IN IF token = 0 \/ f \in DOMAIN s.fds THEN {s}
     ELSE {s, RolledBack(first, f, token), RolledBack(both, f, token), added}

(* removeChannel; when EPOLL_CTL_DEL fails the kernel goes on watching the  *)
(* socket until it is closed.                                               *)
removeChannel(s, f) ==
  LET token == s.conns[f].token
  IN IF token = 0 THEN s
     ELSE [s EXCEPT !.kernel = IF setting.delFails THEN @ ELSE Restrict(@, DOMAIN @ \ {f}),
                    !.channels = Restrict(@, DOMAIN @ \ {token}),
                    !.fds = Restrict(@, DOMAIN @ \ {f}),
                    !.conns[f].token = 0]

-----------------------------------------------------------------------------
(* Methods.                                                                 *)

Others(s, kind, f) == {t \in s.timers : t.kind # kind \/ t.id # s.conns[f].id}

cancelTimeout(s, f) == [s EXCEPT !.timers = Others(s, "timeout", f)]

(* onContinuationActivity after the callback was taken away.                *)
cancelContinuation(s, f) ==
  [s EXCEPT !.conns[f].continuation = FALSE, !.timers = Others(s, "continuation", f)]

(* A closing connection keeps no timer: its channel is gone, and so are its *)
(* continuation, its read deadline and its time limit.                      *)
deactivateConnection(s, f) ==
  LET t == [cancelContinuation(s, f) EXCEPT !.conns[f].state = "closing",
                                            !.conns[f].readDeadline = Unset]
  IN cancelTimeout(removeChannel(t, f), f)

(* onClose puts the connection on the list once.                            *)
onClose(s, f) ==
  IF s.conns[f].queued THEN s
  ELSE [s EXCEPT !.conns[f].queued = TRUE, !.closing = <<f>> \o @]

requestClose(s, f) ==
  IF s.conns[f].state = "closing" THEN s ELSE onClose(deactivateConnection(s, f), f)

(* Connections are destroyed, and with them their sockets.                  *)
Erased(s, gone) ==
  [s EXCEPT !.conns = Restrict(@, DOMAIN @ \ gone), !.kernel = Restrict(@, DOMAIN @ \ gone)]

(* onCleanup erases what is on the list; a draining registry without        *)
(* connections stops its loop, once.                                        *)
Counted(s) == {f \in Range(s.closing) : s.conns[f].id # s.registering}

Recovered(s) ==
  [Erased(s, Range(s.closing)) EXCEPT !.metrics = @ - Cardinality(Counted(s)), !.closing = << >>]

onCleanup(s) ==
  LET r == Recovered(s) IN [r EXCEPT !.notified = @ \/ (r.draining /\ DOMAIN r.conns = {})]

(* The moments at which r has to be closed.                                 *)
LimitsWithoutWait(r) ==
  (IF Idle # 0 THEN {r.lastProgress + Idle} ELSE {})
  \cup (IF r.readDeadline # Unset THEN {r.readDeadline} ELSE {})
Limits(r) ==
  (IF Idle # 0 THEN {r.lastProgress + Idle} ELSE {})
  \cup (IF KeepAlive # 0 /\ r.waitSince # Unset THEN {r.waitSince + KeepAlive} ELSE {})
  \cup (IF r.readDeadline # Unset THEN {r.readDeadline} ELSE {})

(* onTimeoutActivity: the timer is set to the earliest limit.  A loop that  *)
(* is stopping takes no timer, and the connection is closed.                *)
onTimeoutActivity(s, f, progress) ==
  LET r == s.conns[f]
      q == [r EXCEPT !.lastProgress = IF progress THEN now ELSE @,
                     !.waitSince = IF ~r.idle THEN Unset ELSE IF @ = Unset THEN now ELSE @]
      t == With(s, f, q)
  IN CASE s.draining \/ r.draining \/ r.state = "closing" -> cancelTimeout(s, f)
       [] OTHER ->
            IF Limits(q) = {} THEN cancelTimeout(t, f)
            ELSE IF loop # "running" THEN requestClose(t, f)
            ELSE [t EXCEPT !.timers = Others(s, "timeout", f) \cup
                             {[kind |-> "timeout", fd |-> f, id |-> r.id, at |-> Min(Limits(q))]}]

(* TcpConnection::beginConnectionDrain: output that is pending keeps the    *)
(* connection open.                                                         *)
beginConnectionDrain(s, f) ==
  LET r == s.conns[f]
      t == cancelTimeout([cancelContinuation(s, f) EXCEPT
             !.conns[f].draining = TRUE, !.conns[f].readDeadline = Unset, !.conns[f].idle = FALSE], f)
  IN IF r.state = "closing" \/ r.draining THEN s
     ELSE IF r.output THEN t ELSE requestClose(t, f)

(* beginConnectionsDrain walks over the connections, in any order.          *)
Drained(s, force, conns) ==
  LET One(f, t) == IF force THEN requestClose(cancelTimeout(t, f), f)
                   ELSE beginConnectionDrain(cancelTimeout(t, f), f)
  IN FoldSet(One, [s EXCEPT !.draining = TRUE], conns)

(* The last step of beginConnectionDrain is updateInterest, which changes   *)
(* what epoll watches for and throws when that fails.                       *)
DrainThrows(f) ==
  /\ reg.conns[f].state = "active" /\ ~reg.conns[f].draining /\ reg.conns[f].output

(* The loop after a method: the stop callback has been called or not.       *)
Apply(s) ==
  /\ reg' = s
  /\ loop' = IF s.notified /\ ~reg.notified /\ loop = "running" THEN "stopping" ELSE loop

-----------------------------------------------------------------------------
(* What the loop calls between two callbacks.                               *)

Between == current = Nobody /\ loop \in {"running", "stopping"}

(* A hand-off is dropped by a draining registry and refused when identities *)
(* are used up.  The channel or the timer may be refused too; then the      *)
(* registration is undone: after the timer the connection is already on the *)
(* list.  Only what was registered is counted.                              *)
ErasedOnly(s, f) == [Erased(deactivateConnection(s, f), {f}) EXCEPT !.registering = 0]
Undone(s, f) ==
  [Erased(onCleanup(deactivateConnection(s, f)), {f}) EXCEPT !.registering = 0]

NextIdentity == IF nextIdentity = MaxIdentity THEN 0 ELSE nextIdentity + 1

onAccepted(f) ==
  /\ Between /\ f \notin DOMAIN reg.conns
  /\ ~reg.draining
  /\ nextIdentity # 0
  /\ nextIdentity' = NextIdentity
  /\ LET s == [reg EXCEPT !.conns = (f :> NewConnection(nextIdentity)) @@ @,
                          !.registering = nextIdentity]
     IN \E token \in allocateToken : \E u \in updateChannel(s, f, token) :
          LET a == [u EXCEPT !.conns[f].state = "active"]
              t == onTimeoutActivity(a, f, FALSE)
          IN /\ nextToken' = TokenAfter(token)
             /\ \/ u.conns[f].token = 0 /\ Apply(Undone(u, f))
                \/ /\ u.conns[f].token # 0 /\ t.conns[f].state = "active"
                   /\ Apply([t EXCEPT !.metrics = @ + 1, !.registering = 0])
                \/ /\ u.conns[f].token # 0 /\ Limits(a.conns[f]) # {}
                   /\ Apply(Undone(requestClose(a, f), f))
  /\ UNCHANGED <<events, current, now>>

(* The loop's control callback.                                             *)
beginConnectionsDrain(force) ==
  /\ Between
  /\ Apply(onCleanup(Drained(reg, force, DOMAIN reg.conns)))
  /\ UNCHANGED <<nextIdentity, nextToken, events, current, now>>

(* failEventLoop: something threw.  Timers and undelivered events are gone; *)
(* nothing is called any more but the destructor.                           *)
failEventLoop(s) ==
  /\ Between
  /\ reg' = [s EXCEPT !.timers = {}]
  /\ events' = {} /\ loop' = "failed"
  /\ UNCHANGED <<nextIdentity, nextToken, current, now>>

LoopFails == failEventLoop(reg)

(* A drain that throws has come to some of the connections, has not been    *)
(* followed by onCleanup, and ends the loop.                                *)
DrainFails ==
  \E done \in SUBSET DOMAIN reg.conns : \E f \in done :
    DrainThrows(f) /\ failEventLoop(Drained(reg, FALSE, done))

(* epoll_wait reports some of the sockets it watches, each by its token.    *)
Wait ==
  /\ Between /\ events = {}
  /\ \E active \in SUBSET DOMAIN reg.kernel :
       active # {} /\ events' = {[fd |-> f, token |-> reg.kernel[f].token,
                                  socket |-> reg.kernel[f].socket] : f \in active}
  /\ UNCHANGED <<reg, nextIdentity, nextToken, current, loop, now>>

(* An event is delivered by looking its token up; a token that was removed  *)
(* meanwhile is stale, whoever has the descriptor now.                      *)
dispatchChannelEvent(e) ==
  /\ Between /\ e \in events
  /\ events' = events \ {e}
  /\ current' = IF e.token \in DOMAIN reg.channels THEN reg.channels[e.token].fd ELSE Nobody
  /\ UNCHANGED <<reg, nextIdentity, nextToken, loop, now>>

(* Timers run at the end of a round, when its events are delivered.         *)
Due(t) == t \in reg.timers /\ t.at <= now /\ loop = "running" /\ events = {}

(* A time limit is reached: its timer is gone, and the connection that has  *)
(* the same descriptor and identity is closed.                              *)
SameConnection(t) == t.fd \in DOMAIN reg.conns /\ reg.conns[t.fd].id = t.id

expireConnection(t) ==
  /\ Between /\ Due(t) /\ t.kind = "timeout"
  /\ LET s == [reg EXCEPT !.timers = @ \ {t}]
     IN Apply(onCleanup(IF ~reg.draining /\ SameConnection(t) THEN requestClose(s, t.fd) ELSE s))
  /\ UNCHANGED <<nextIdentity, nextToken, events, current, now>>

(* A continuation is delivered: it is forgotten first, then called.         *)
deliverContinuation(t) ==
  /\ Between /\ Due(t) /\ t.kind = "continuation"
  /\ LET s == [reg EXCEPT !.timers = @ \ {t}]
     IN IF SameConnection(t)
        THEN /\ reg' = [s EXCEPT !.conns[t.fd].continuation = FALSE]
             /\ current' = IF ~reg.draining /\ ~reg.conns[t.fd].draining THEN t.fd ELSE Nobody
        ELSE reg' = s /\ UNCHANGED current
  /\ UNCHANGED <<nextIdentity, nextToken, events, loop, now>>

-----------------------------------------------------------------------------
(* What a callback of a connection may call on it, any number of times.     *)

During(s) ==
  /\ current # Nobody
  /\ reg.conns[current].state = "active"
  /\ Apply(s)
  /\ UNCHANGED <<nextIdentity, nextToken, events, current, now>>

(* Bytes were read, or written.                                             *)
Progress(read) ==
  During(onTimeoutActivity(IF read THEN [reg EXCEPT !.conns[current].idle = FALSE] ELSE reg,
                           current, TRUE))

setIdleWait(waiting) ==
  /\ current # Nobody /\ reg.conns[current].idle # waiting
  /\ During(onTimeoutActivity([reg EXCEPT !.conns[current].idle = waiting], current, FALSE))

setReadDeadline(deadline) ==
  /\ current # Nobody /\ ~reg.conns[current].draining
  /\ reg.conns[current].readDeadline # deadline
  /\ During(onTimeoutActivity([reg EXCEPT !.conns[current].readDeadline = deadline], current, FALSE))

(* scheduleContinuation; a loop that is stopping throws, and the session    *)
(* cancels what it has just asked for.                                      *)
scheduleContinuation(deadline) ==
  /\ current # Nobody /\ ~reg.conns[current].draining /\ ~reg.draining
  /\ During(IF loop # "running" THEN cancelContinuation(reg, current)
            ELSE [cancelContinuation(reg, current) EXCEPT
                    !.conns[current].continuation = TRUE,
                    !.timers = @ \cup {[kind |-> "continuation", fd |-> current,
                                        id |-> reg.conns[current].id, at |-> deadline]}])

CancelContinuation == During(cancelContinuation(reg, current))

Send ==
  /\ current # Nobody /\ ~reg.conns[current].draining
  /\ During([reg EXCEPT !.conns[current].output = TRUE])

(* The output is flushed; a draining connection is then closed.             *)
Flush ==
  /\ current # Nobody /\ reg.conns[current].output
  /\ LET s == [reg EXCEPT !.conns[current].output = FALSE]
     IN During(IF reg.conns[current].draining THEN requestClose(s, current) ELSE s)

Close == During(requestClose(reg, current))

(* A callback that knows another connection closes that one.                *)
CloseOther(f) ==
  /\ current # Nobody /\ f # current
  /\ Apply(requestClose(reg, f))
  /\ UNCHANGED <<nextIdentity, nextToken, events, current, now>>

(* The callback returns and the loop's cleanup callback runs.               *)
CallbackReturns ==
  /\ current # Nobody
  /\ Apply(onCleanup(reg))
  /\ current' = Nobody
  /\ UNCHANGED <<nextIdentity, nextToken, events, now>>

-----------------------------------------------------------------------------
(* The loop is asked to stop; at the end of its round it clears its timers. *)
LoopStops ==
  /\ loop = "running"
  /\ loop' = "stopping"
  /\ UNCHANGED <<reg, nextIdentity, nextToken, events, current, now>>

ClearTimers ==
  /\ Between /\ loop = "stopping" /\ events = {}
  /\ reg' = [reg EXCEPT !.timers = {}]
  /\ UNCHANGED <<nextIdentity, nextToken, events, current, loop, now>>

(* ~ConnectionRegistry, after the loop: every connection that is left is    *)
(* deactivated and counted out.                                             *)
Destroy ==
  /\ (Between /\ loop = "stopping" /\ events = {}) \/ loop = "failed"
  /\ LET One(f, t) == deactivateConnection(t, f)
         s == Erased(FoldSet(One, reg, DOMAIN reg.conns), DOMAIN reg.conns)
     IN reg' = [s EXCEPT !.closing = << >>, !.metrics = @ - Cardinality(DOMAIN reg.conns)]
  /\ loop' = "over"
  /\ UNCHANGED <<nextIdentity, nextToken, events, current, now>>

Tick ==
  /\ now < MaxTime
  /\ now' = now + 1
  /\ UNCHANGED <<reg, nextIdentity, nextToken, events, current, loop>>

Deadlines == now .. now + 1

Step ==
  \/ \E f \in Fds : onAccepted(f)
  \/ \E force \in BOOLEAN : beginConnectionsDrain(force)
  \/ DrainFails \/ LoopFails \/ Wait
  \/ \E e \in events : dispatchChannelEvent(e)
  \/ \E t \in reg.timers : expireConnection(t) \/ deliverContinuation(t)
  \/ \E read \in BOOLEAN : Progress(read)
  \/ \E waiting \in BOOLEAN : setIdleWait(waiting)
  \/ \E deadline \in Deadlines \cup {Unset} : setReadDeadline(deadline)
  \/ \E deadline \in Deadlines : scheduleContinuation(deadline)
  \/ CancelContinuation \/ Send \/ Flush \/ Close \/ CallbackReturns
  \/ \E f \in DOMAIN reg.conns : CloseOther(f)
  \/ LoopStops \/ ClearTimers \/ Destroy \/ Tick

Next == (Step /\ UNCHANGED setting) \/ (loop = "over" /\ UNCHANGED vars)

Spec == Init /\ [][Next]_vars

-----------------------------------------------------------------------------
(* What must hold.                                                          *)

Moments == 0 .. MaxTime + 2 + Idle + KeepAlive

TypeOK ==
  /\ setting \in Settings
  /\ DOMAIN reg.conns \subseteq Fds
  /\ \A f \in DOMAIN reg.conns :
       reg.conns[f] \in [id : 1 .. MaxIdentity, token : 0 .. MaxToken, state : {"active", "closing"}, draining : BOOLEAN,
                         output : BOOLEAN, queued : BOOLEAN, idle : BOOLEAN,
                         lastProgress : 0 .. MaxTime, waitSince : {Unset} \cup 0 .. MaxTime,
                         readDeadline : {Unset} \cup Moments, continuation : BOOLEAN]
  /\ reg.closing \in Seq(Fds)
  /\ reg.timers \subseteq [kind : {"timeout", "continuation"}, fd : Fds, id : 1 .. MaxIdentity,
                           at : Moments]
  /\ reg.metrics \in 0 .. Cardinality(Fds)
  /\ reg.registering = 0 /\ reg.draining \in BOOLEAN /\ reg.notified \in BOOLEAN
  /\ nextIdentity \in 0 .. MaxIdentity
  /\ DOMAIN reg.channels \subseteq 1 .. MaxToken /\ nextToken \in 0 .. MaxToken
  /\ DOMAIN reg.fds \cup DOMAIN reg.kernel \subseteq Fds
  /\ events \subseteq [fd : Fds, token : 1 .. MaxToken, socket : 1 .. MaxIdentity]
  /\ current \in Fds \cup {Nobody}
  /\ loop \in {"running", "stopping", "failed", "over"} /\ now \in 0 .. MaxTime

(* The recovery list holds each closing connection once, and only           *)
(* connections that still exist: following the list never meets one that    *)
(* was destroyed, and none is left over once a callback has returned and    *)
(* the loop has not failed.  The gauge of open connections counts exactly   *)
(* the registered ones, through failed registrations, closings of every     *)
(* origin, drains that throw and destruction.  So a draining registry that  *)
(* has no connection left has stopped its loop by the time the callback     *)
(* returns; it never does so with one left.                                 *)
ClosingListed ==
  LET settled == current = Nobody /\ loop # "failed"
  IN /\ TypeOK
     /\ IsInjective(reg.closing)
     /\ Range(reg.closing) = {f \in DOMAIN reg.conns : reg.conns[f].state = "closing"}
     /\ settled => reg.closing = << >>
     /\ reg.metrics = Cardinality(DOMAIN reg.conns)
     /\ settled /\ reg.draining /\ DOMAIN reg.conns = {} => loop # "running"
     /\ reg.notified => reg.draining /\ DOMAIN reg.conns = {}

(* While the loop runs, a connection that can still time out has its timer  *)
(* at the earliest of its limits: neither idle time, keep-alive wait nor    *)
(* read deadline can pass unnoticed, and none fires too early.  Every timer *)
(* belongs to the connection it was set for: descriptors are reused, so a   *)
(* timer that outlived its connection could end another one.                *)
TimeoutArmed ==
  /\ TypeOK
  /\ \A t \in reg.timers : SameConnection(t)
  /\ loop = "running" => \A f \in DOMAIN reg.conns :
       LET r == reg.conns[f]
           armed == {t.at : t \in {u \in reg.timers : u.kind = "timeout" /\ u.fd = f}}
           idleEnds == IF Idle # 0 THEN {r.lastProgress + Idle} ELSE {}
           waitEnds == IF KeepAlive # 0 /\ r.idle THEN {r.waitSince + KeepAlive} ELSE {}
           readEnds == IF r.readDeadline # Unset THEN {r.readDeadline} ELSE {}
           all == idleEnds \cup waitEnds \cup readEnds
       IN r.state = "active" =>
            armed = IF reg.draining \/ all = {} THEN {} ELSE {Min(all)}

(* The loop's two maps, epoll and the connections agree: a token leads to   *)
(* the channel of a connection that exists and is active, each active       *)
(* connection has exactly one, and after a callback epoll watches those     *)
(* sockets and no other, through registrations that fail half-way and even  *)
(* when EPOLL_CTL_DEL fails.  An event that waits for its turn in a batch   *)
(* finds the connection it was reported for as long as that one is active,  *)
(* and nobody afterwards, although its descriptor may have a new owner.     *)
ChannelTableSound ==
  LET registered == {f \in DOMAIN reg.conns : reg.conns[f].state = "active"}
      Owner(f)   == [fd |-> f, id |-> reg.conns[f].id]
  IN /\ \A f \in DOMAIN reg.conns : reg.conns[f].token # 0 <=> f \in registered
     /\ reg.fds = [f \in registered |-> reg.conns[f].token]
     /\ DOMAIN reg.channels = Range(reg.fds)
     /\ \A f \in registered :
          /\ reg.channels[reg.fds[f]] = Owner(f)
          /\ f \in DOMAIN reg.kernel
          /\ reg.kernel[f] = [token |-> reg.fds[f], socket |-> reg.conns[f].id]
     /\ current = Nobody /\ loop # "failed" => DOMAIN reg.kernel = registered
     /\ \A e \in events :
          IF \E f \in registered : reg.conns[f].id = e.socket
          THEN e.token \in DOMAIN reg.channels /\ reg.channels[e.token] = [fd |-> e.fd, id |-> e.socket]
          ELSE e.token \notin DOMAIN reg.channels
=============================================================================
