--------------------------- MODULE ResourceBudget ---------------------------
(***************************************************************************)
(* hp::base::ResourceBudget: one ledger, shared by every thread, of the     *)
(* connections, input bytes and output bytes that are in use, and the       *)
(* ResourceLease objects that hold shares of it.                            *)
(*                                                                          *)
(* The ledger is guarded by a mutex and a lease object belongs to one       *)
(* thread, so every member function is one action.  A lease that has no     *)
(* budget state behind it is not bound.  Amounts are size_t: SizeRange      *)
(* stands for 2^64.                                                         *)
(***************************************************************************)
EXTENDS Integers, FiniteSets

CONSTANTS
  Leases,          \* the lease objects
  Limits,          \* ResourceLimits, one limit per kind
  TransportInput,  \* kTransportInputBytes
  SizeRange,       \* number of values of size_t
  MaxRejected      \* bound of the model on the rejection counters

Kinds == {"connections", "inputBytes", "outputBytes"}

ASSUME BudgetAssumption ==
  /\ IsFiniteSet(Leases)
  /\ SizeRange \in Nat /\ SizeRange > 1
  /\ Limits \in [Kinds -> 0 .. SizeRange - 1]
  /\ TransportInput \in 0 .. SizeRange - 1
  /\ MaxRejected \in Nat

VARIABLES
  current, peak, rejected,  \* ResourceSnapshot
  bound,                    \* the lease has a state_
  held                      \* connections_, inputBytes_, outputBytes_ of the lease

usage == <<current, peak, rejected>>
vars  == <<usage, bound, held>>

Sizes   == 0 .. SizeRange - 1
Nothing == [k \in Kinds |-> 0]

(* Unsigned subtraction and addition.                                       *)
Minus(a, b) == IF a >= b THEN a - b ELSE a - b + SizeRange
Plus(a, b)  == IF a + b < SizeRange THEN a + b ELSE a + b - SizeRange

Init ==
  /\ current = Nothing
  /\ peak = Nothing
  /\ rejected = Nothing
  /\ bound = [l \in Leases |-> FALSE]
  /\ held = [l \in Leases |-> Nothing]

-----------------------------------------------------------------------------
(* Admission.                                                               *)

Exceeds(k, amount) == amount[k] > Minus(Limits[k], current[k])

(* The resource the chain of tests names: the first that has no room.       *)
Rejects(k, amount) ==
  /\ Exceeds(k, amount)
  /\ k = "inputBytes" => ~Exceeds("connections", amount)
  /\ k = "outputBytes" => ~Exceeds("connections", amount) /\ ~Exceeds("inputBytes", amount)

Reject(amount) ==
  \E k \in Kinds :
    /\ Rejects(k, amount)
    /\ rejected[k] < MaxRejected
    /\ rejected' = [rejected EXCEPT ![k] = @ + 1]
    /\ UNCHANGED <<current, peak, bound, held>>

(* Mutated: a sum that overflows passes for one that fits.                  *)
TestedBySum(l, amount) ==
  /\ \A k \in Kinds : Plus(current[k], amount[k]) <= Limits[k]
  /\ current' = [k \in Kinds |-> Plus(current[k], amount[k])]
  /\ peak' = [k \in Kinds |-> IF current'[k] > peak[k] THEN current'[k] ELSE peak[k]]
  /\ bound' = [bound EXCEPT ![l] = TRUE]
  /\ held' = [held EXCEPT ![l] = amount]
  /\ UNCHANGED rejected

(* Mutated: the grant is not tested against the limits.                     *)
GrantedUntested(l, amount) ==
  /\ current' = [k \in Kinds |-> Plus(current[k], amount[k])]
  /\ peak' = [k \in Kinds |-> IF current'[k] > peak[k] THEN current'[k] ELSE peak[k]]
  /\ bound' = [bound EXCEPT ![l] = TRUE]
  /\ held' = [held EXCEPT ![l] = amount]
  /\ UNCHANGED rejected

(* The result is returned in a fresh lease object.                          *)
Grant(l, amount) ==
  /\ \A k \in Kinds : ~Exceeds(k, amount)
  /\ current' = [k \in Kinds |-> Plus(current[k], amount[k])]
  /\ peak' = [k \in Kinds |-> IF current'[k] > peak[k] THEN current'[k] ELSE peak[k]]
  /\ bound' = [bound EXCEPT ![l] = TRUE]
  /\ held' = [held EXCEPT ![l] = amount]
  /\ UNCHANGED rejected

tryAcquire(l, amount) == Grant(l, amount) \/ Reject(amount)

Fresh(l) == ~bound[l] /\ held[l] = Nothing

tryAcquireConnection(l) ==
  /\ Fresh(l)
  /\ tryAcquire(l, [Nothing EXCEPT !["connections"] = 1, !["inputBytes"] = TransportInput])

tryAcquireInput(l, bytes) ==
  /\ Fresh(l)
  /\ tryAcquire(l, [Nothing EXCEPT !["inputBytes"] = bytes])

tryAcquireOutput(l, bytes) ==
  /\ Fresh(l)
  /\ tryAcquire(l, [Nothing EXCEPT !["outputBytes"] = bytes])

-----------------------------------------------------------------------------
(* Operations on leases.                                                    *)

(* The ledger after the lease gave back its share.                          *)
Returned(l) == [k \in Kinds |-> Minus(current[k], held[l][k])]

reset(l) ==
  /\ bound[l]
  /\ current' = Returned(l)
  /\ bound' = [bound EXCEPT ![l] = FALSE]
  /\ held' = [held EXCEPT ![l] = Nothing]
  /\ UNCHANGED <<peak, rejected>>

(* l = std::move(other): what l held goes back first.                       *)
MoveAssign(l, other) ==
  /\ l # other
  /\ current' = IF bound[l] THEN Returned(l) ELSE current
  /\ bound' = [bound EXCEPT ![l] = bound[other], ![other] = FALSE]
  /\ held' = [held EXCEPT ![l] = held[other], ![other] = Nothing]
  /\ UNCHANGED <<peak, rejected>>

(* The caller owns that many output bytes (the assertion of the code).      *)
releaseOutput(l, bytes) ==
  /\ bytes \in 1 .. held[l]["outputBytes"]
  /\ held' = [held EXCEPT ![l]["outputBytes"] = @ - bytes]
  /\ current' = [current EXCEPT !["outputBytes"] = Minus(@, bytes)]
  /\ UNCHANGED <<peak, rejected, bound>>

absorb(l, other) ==
  /\ l # other /\ bound[other]
  /\ bound' = [bound EXCEPT ![l] = TRUE, ![other] = FALSE]
  /\ held' = [held EXCEPT ![l] = [k \in Kinds |-> Plus(held[l][k], held[other][k])],
                          ![other] = Nothing]
  /\ UNCHANGED usage

Next ==
  \E l \in Leases :
    \/ tryAcquireConnection(l)
    \/ \E bytes \in Sizes : tryAcquireInput(l, bytes)
    \/ \E bytes \in Sizes : tryAcquireOutput(l, bytes)
    \/ reset(l)
    \/ \E bytes \in Sizes : releaseOutput(l, bytes)
    \/ \E other \in Leases : MoveAssign(l, other) \/ absorb(l, other)

Spec == Init /\ [][Next]_vars

-----------------------------------------------------------------------------
(* What must hold.                                                          *)

(* Every amount stays in the range of its integer type.                     *)
TypeOK ==
  /\ current \in [Kinds -> Sizes]
  /\ peak \in [Kinds -> Sizes]
  /\ rejected \in [Kinds -> 0 .. MaxRejected]
  /\ bound \in [Leases -> BOOLEAN]
  /\ held \in [Leases -> [Kinds -> Sizes]]

(* The units of a resource that leases hold, each counted once.             *)
HeldUnits(k) == UNION {{l} \X (1 .. held[l][k]) : l \in Leases}

(* The ledger says exactly what the leases hold together: moving, merging,  *)
(* partly releasing and destroying leases neither leaks nor returns twice,  *)
(* and a refused request leaves nothing behind.                             *)
UsageIsHeld == \A k \in Kinds : current[k] = Cardinality(HeldUnits(k))

(* No resource is ever used beyond its limit, and the recorded peak is at   *)
(* least the present use.  The unsigned test "amount > limit - current"     *)
(* means this only while current <= limit.                                  *)
PeakWithinLimits == \A k \in Kinds : current[k] <= peak[k] /\ peak[k] <= Limits[k]

(* A lease that has no budget behind it holds nothing: its destructor, which *)
(* returns early, then loses nothing, and releaseOutput never dereferences  *)
(* a null state_.                                                           *)
UnboundHoldsNothing == \A l \in Leases : ~bound[l] => held[l] = Nothing

(* A refusal is charged to exactly one resource, the one that was short,    *)
(* and moves no share of any resource.                                      *)
RefusalTakesNothing ==
  [][rejected' # rejected =>
       /\ \E k \in Kinds : rejected' = [rejected EXCEPT ![k] = @ + 1]
       /\ UNCHANGED <<current, peak, bound, held>>]_vars
=============================================================================
