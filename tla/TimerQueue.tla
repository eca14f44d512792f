----------------------------- MODULE TimerQueue -----------------------------
(***************************************************************************)
(* hp::timer::TimerQueue: the timers of one loop.  records_ holds the       *)
(* timers by id and ordered_ the same timers by deadline; callbacks run in  *)
(* the middle of runDueTimers and may add, re-arm or cancel any timer, run  *)
(* the queue again, clear it, or throw.  Ids come from a counter that all   *)
(* queues of the process share.                                             *)
(***************************************************************************)
EXTENDS Integers, Sequences, FiniteSets, Functions

CONSTANTS
  MaxId,    \* the last id before the counter wraps to zero (UINT64_MAX)
  MaxTime   \* bound of the model on the clock and on deadlines

ASSUME QueueAssumption == MaxId \in Nat \ {0} /\ MaxTime \in Nat

VARIABLES
  nextId,    \* nextId, shared by every queue
  records,   \* records_: id -> deadline
  ordered,   \* ordered_: pairs of deadline and id
  lastId,    \* lastId_
  running, clearing,
  cutoff, dispatchTime,   \* arguments of the run in progress
  due,       \* the ids it collected and has not looked at
  inTask,    \* a callback is on the stack of this run
  call,      \* the call of addTimer or rescheduleTimer that is half done
  now,
  wanted,    \* history: id -> the deadline its owner asked for last
  fired,     \* history: the timers that ran, in order, with what was asked of them
  touched    \* history: the timers added or re-armed since the run began

timerVars == <<nextId, records, ordered, lastId, running, clearing>>
runVars   == <<cutoff, dispatchTime, due, inTask, call>>
vars      == <<timerVars, runVars, now, wanted, fired, touched>>

Ids   == 1 .. MaxId
Times == 0 .. MaxTime

Drop(f, id)   == Restrict(f, DOMAIN f \ {id})
Put(f, id, d) == [i \in DOMAIN f \cup {id} |-> IF i = id THEN d ELSE f[i]]

Empty  == [i \in {} |-> 0]
NoCall == [op |-> "none", id |-> 0, deadline |-> 0]

Init ==
  /\ nextId = 1 /\ records = Empty /\ ordered = {} /\ lastId = 0
  /\ running = FALSE /\ clearing = FALSE
  /\ cutoff = 0 /\ dispatchTime = 0 /\ due = << >> /\ inTask = FALSE
  /\ call = NoCall /\ now = 0
  /\ wanted = Empty /\ fired = << >> /\ touched = {}

-----------------------------------------------------------------------------
(* The owner's calls, from a callback of this queue or from elsewhere.      *)
(* Each of the two calls that may throw after it has changed an index is    *)
(* several steps.                                                           *)

OwnerMayCall == (running => inTask) /\ call = NoCall

callerVars == <<running, clearing, cutoff, dispatchTime, due, inTask, now, fired>>

(* The next value of the counter: after the last id comes 0, for ever.      *)
After(id) == IF id = MaxId THEN 0 ELSE id + 1

(* Another queue takes an id, at any time.                                  *)
allocateId ==
  /\ nextId # 0
  /\ nextId' = After(nextId)
  /\ UNCHANGED <<records, ordered, lastId, running, clearing, runVars, now, wanted, fired, touched>>

(* A timer is added to records_; without an id, or while the queue is       *)
(* cleared, the call throws and nothing has changed.                        *)
addTimer(deadline) ==
  /\ OwnerMayCall
  /\ ~clearing
  /\ nextId # 0
  /\ nextId' = After(nextId)
  /\ records' = Put(records, nextId, deadline)
  /\ touched' = touched \cup {nextId}
  /\ call' = [op |-> "add", id |-> nextId, deadline |-> deadline]
  /\ UNCHANGED <<ordered, lastId, wanted, callerVars>>

(* Then to ordered_.                                                        *)
AddReturns ==
  /\ call.op = "add"
  /\ ordered' = ordered \cup {<<call.deadline, call.id>>}
  /\ lastId' = call.id
  /\ wanted' = Put(wanted, call.id, call.deadline)
  /\ call' = NoCall
  /\ UNCHANGED <<nextId, records, touched, callerVars>>

(* When that fails, the record is taken out again.                          *)
AddThrows ==
  /\ call.op = "add"
  /\ records' = Drop(records, call.id)
  /\ call' = NoCall
  /\ UNCHANGED <<nextId, ordered, lastId, wanted, touched, callerVars>>

(* Re-arming: the timer is looked up; the same deadline is no change.       *)
ErasedFirst(id, deadline) ==
  /\ OwnerMayCall
  /\ id \in DOMAIN records
  /\ records[id] # deadline
  /\ call' = [op |-> "rearm", id |-> id, deadline |-> deadline]
  /\ ordered' = ordered \ {<<records[id], id>>}
  /\ UNCHANGED <<nextId, records, lastId, wanted, touched, callerVars>>
rescheduleTimer(id, deadline) ==
  /\ OwnerMayCall
  /\ id \in DOMAIN records
  /\ records[id] # deadline
  /\ call' = [op |-> "rearm", id |-> id, deadline |-> deadline]
  /\ UNCHANGED <<nextId, records, ordered, lastId, wanted, touched, callerVars>>

(* The new entry goes into ordered_ while the old one is still there.       *)
RearmInserts ==
  /\ call.op = "rearm"
  /\ ordered' = ordered \cup {<<call.deadline, call.id>>}
  /\ call' = [call EXCEPT !.op = "inserted"]
  /\ UNCHANGED <<nextId, records, lastId, wanted, touched, callerVars>>

(* Or the insertion fails, and the exception leaves everything as it is.    *)
RearmThrows ==
  /\ call.op = "rearm"
  /\ call' = NoCall
  /\ UNCHANGED <<nextId, records, ordered, lastId, wanted, touched, callerVars>>

(* The old entry goes and the record gets its deadline; neither can fail.   *)
RearmReturns ==
  /\ call.op = "inserted"
  /\ ordered' = ordered \ {<<records[call.id], call.id>>}
  /\ records' = [records EXCEPT ![call.id] = call.deadline]
  /\ wanted' = [wanted EXCEPT ![call.id] = call.deadline]
  /\ touched' = touched \cup {call.id}
  /\ call' = NoCall
  /\ UNCHANGED <<nextId, lastId, callerVars>>

cancelTimer(id) ==
  /\ OwnerMayCall
  /\ id \in DOMAIN records
  /\ ordered' = ordered \ {<<records[id], id>>}
  /\ records' = Drop(records, id)
  /\ wanted' = Drop(wanted, id)
  /\ UNCHANGED <<nextId, lastId, running, clearing, runVars, now, fired, touched>>

(* clearTimers empties both indexes before it destroys what the callbacks   *)
(* captured; those destructors run with clearing_ set.                      *)
clearTimers ==
  /\ OwnerMayCall
  /\ ~clearing
  /\ clearing' = TRUE
  /\ records' = Empty /\ ordered' = {}
  /\ wanted' = Empty
  /\ UNCHANGED <<nextId, lastId, running, runVars, now, fired, touched>>

ClearReturns ==
  /\ clearing
  /\ clearing' = FALSE
  /\ UNCHANGED <<nextId, records, ordered, lastId, running, runVars, now, wanted, fired, touched>>

-----------------------------------------------------------------------------
(* runDueTimers.                                                            *)

(* s lists the members of S in the order of ordered_.                       *)
Lists(s, S) ==
  /\ Len(s) = Cardinality(S)
  /\ {s[i] : i \in 1 .. Len(s)} = S
  /\ \A i, j \in 1 .. Len(s) :
       i < j => \/ records[s[i]] < records[s[j]]
                \/ records[s[i]] = records[s[j]] /\ s[i] < s[j]

(* The ids this run may look at.                                            *)
Due(last) == {e[2] : e \in {o \in ordered : o[1] <= now /\ o[2] <= last}}

(* A run begins, with the cutoff its caller read at some time before.  (A   *)
(* callback that starts another run gets an exception: TaskThrows.)         *)
runDueTimers(last) ==
  /\ ~running /\ ~clearing /\ call = NoCall
  /\ running' = TRUE
  /\ cutoff' = last /\ dispatchTime' = now
  /\ \E s \in [1 .. Cardinality(Due(last)) -> Due(last)] : Lists(s, Due(last)) /\ due' = s
  /\ touched' = {}
  /\ UNCHANGED <<nextId, records, ordered, lastId, clearing, inTask, call, now, wanted, fired>>

(* A collected timer is looked at again: it may be gone or re-armed later.  *)
StillThere(id) == id \in DOMAIN records
StillDue(id)   == id \in DOMAIN records /\ records[id] <= dispatchTime

SkipTimer ==
  /\ running /\ ~inTask /\ due # << >>
  /\ ~StillDue(Head(due))
  /\ due' = Tail(due)
  /\ UNCHANGED <<timerVars, cutoff, dispatchTime, inTask, call, now, wanted, fired, touched>>

(* It leaves both indexes, then its callback starts.                        *)
FireTimer ==
  /\ running /\ ~inTask /\ due # << >>
  /\ LET id == Head(due) IN
       /\ StillDue(id)
       /\ ordered' = ordered \ {<<records[id], id>>}
       /\ records' = Drop(records, id)
       /\ fired' = Append(fired, [id |-> id, asked |-> id \in DOMAIN wanted,
                                  late |-> id \in DOMAIN wanted /\ wanted[id] <= now,
                                  old |-> id <= cutoff])
       /\ wanted' = Drop(wanted, id)
  /\ due' = Tail(due)
  /\ inTask' = TRUE
  /\ UNCHANGED <<nextId, lastId, running, clearing, cutoff, dispatchTime, call, now, touched>>

TaskReturns ==
  /\ inTask /\ ~clearing /\ call = NoCall
  /\ inTask' = FALSE
  /\ UNCHANGED <<timerVars, cutoff, dispatchTime, due, call, now, wanted, fired, touched>>

(* What a run leaves behind: running_ is reset on both ways out.            *)
LeaveRun == running' = FALSE /\ due' = << >> /\ cutoff' = 0 /\ dispatchTime' = 0 /\ touched' = {}

TaskThrows ==
  /\ inTask /\ ~clearing /\ call = NoCall
  /\ inTask' = FALSE
  /\ LeaveRun
  /\ UNCHANGED <<nextId, records, ordered, lastId, clearing, call, now, wanted, fired>>

RunReturns ==
  /\ running /\ ~inTask /\ due = << >>
  /\ LeaveRun
  /\ UNCHANGED <<nextId, records, ordered, lastId, clearing, inTask, call, now, wanted, fired>>

Tick ==
  /\ now < MaxTime
  /\ now' = now + 1
  /\ UNCHANGED <<timerVars, runVars, wanted, fired, touched>>

Next ==
  \/ allocateId
  \/ \E deadline \in Times :
       \/ addTimer(deadline)
       \/ \E id \in Ids : rescheduleTimer(id, deadline)
  \/ AddReturns \/ AddThrows \/ RearmInserts \/ RearmThrows \/ RearmReturns
  \/ \E id \in Ids : cancelTimer(id)
  \/ clearTimers \/ ClearReturns
  \/ \E last \in 0 .. lastId : runDueTimers(last)
  \/ SkipTimer \/ FireTimer \/ TaskReturns \/ TaskThrows \/ RunReturns
  \/ Tick

Spec == Init /\ [][Next]_vars

-----------------------------------------------------------------------------
(* What must hold.                                                          *)

TypeOK ==
  /\ nextId \in 0 .. MaxId
  /\ DOMAIN records \subseteq Ids /\ \A id \in DOMAIN records : records[id] \in Times
  /\ ordered \subseteq Times \X Ids
  /\ lastId \in 0 .. MaxId
  /\ running \in BOOLEAN /\ clearing \in BOOLEAN /\ inTask \in BOOLEAN
  /\ cutoff \in 0 .. MaxId /\ dispatchTime \in Times /\ now \in Times
  /\ due \in Seq(Ids)
  /\ call \in [op : {"none", "add", "rearm", "inserted"}, id : 0 .. MaxId, deadline : Times]
  /\ DOMAIN wanted \subseteq Ids
  /\ touched \subseteq Ids

(* The two indexes hold the same timers with the same deadlines after every *)
(* call, one that threw in the middle included, and between any two         *)
(* callbacks of a run: nextDeadline, which only looks at ordered_, is then  *)
(* the earliest deadline of any timer.  Inside a call they differ by the    *)
(* entry it is about: a timer that is being re-armed has an entry at every  *)
(* moment, first its old one, then both.                                    *)
IndexesAgree ==
  LET entries == {<<records[id], id>> : id \in DOMAIN records}
      mine    == {<<call.deadline, call.id>>}
  IN /\ TypeOK
     /\ call.op \in {"none", "rearm"} => ordered = entries
     /\ call.op = "add" => ordered = entries \ mine
     /\ call.op = "inserted" => ordered = entries \cup mine

(* A callback runs only for a timer that its owner still wants, not before  *)
(* the deadline it asked for last, at most once, and never in a round whose *)
(* cutoff was taken before the timer was added; whatever earlier callbacks  *)
(* of the same run cancelled or re-armed.  And none is passed over: a timer *)
(* that was due when a run began is still in the run's list, unless it      *)
(* fired, was cancelled, or was touched by a callback of the run.           *)
FiredAsAsked ==
  /\ \A i \in 1 .. Len(fired) : fired[i].asked /\ fired[i].late /\ fired[i].old
  /\ \A i, j \in 1 .. Len(fired) : fired[i].id = fired[j].id => i = j
  /\ running => \A id \in DOMAIN records :
                  /\ id <= cutoff /\ records[id] <= dispatchTime /\ id \notin touched
                  => \E i \in 1 .. Len(due) : due[i] = id
=============================================================================
