------------------------ MODULE ResourceBudgetProofs ------------------------
(***************************************************************************)
(* Proofs, for every set of leases, every limit and every width of size_t,  *)
(* that the ledger equals what the leases hold and stays within the limits. *)
(***************************************************************************)
EXTENDS ResourceBudget, FiniteSetTheorems, TLAPS

IInv ==
  /\ TypeOK
  /\ UsageIsHeld
  /\ PeakWithinLimits
  /\ UnboundHoldsNothing

(* The units that shares h[l] amount to: HeldUnits of one resource.         *)
Units(h) == UNION {{l} \X (1 .. h[l]) : l \in Leases}

(* The shares of one resource.                                              *)
Shares(k) == [l \in Leases |-> held[l][k]]

-----------------------------------------------------------------------------
(* n units of one lease are n elements.                                     *)
LEMMA UnitsOfOne ==
  ASSUME NEW l, NEW n \in Nat
  PROVE  IsFiniteSet({l} \X (1 .. n)) /\ Cardinality({l} \X (1 .. n)) = n
<1>1. IsFiniteSet(1 .. n) /\ Cardinality(1 .. n) = n
  BY FS_Interval
<1>2. IsFiniteSet({l}) /\ Cardinality({l}) = 1
  BY FS_Singleton
<1>3. IsFiniteSet({l} \X (1 .. n)) /\ Cardinality({l} \X (1 .. n)) = 1 * n
  BY ZenonT(60), <1>1, <1>2, FS_Product
<1>. QED  BY <1>3

LEMMA NothingTyped == Nothing \in [Kinds -> Sizes]
<1>1. 0 \in Sizes
  BY BudgetAssumption DEF Sizes, Kinds
<1>. QED  BY <1>1 DEF Nothing

LEMMA UnitsFinite ==
  ASSUME NEW h \in [Leases -> Sizes]
  PROVE  IsFiniteSet(Units(h)) /\ Cardinality(Units(h)) \in Nat
<1>. DEFINE box == Leases \X (1 .. SizeRange)
<1>1. IsFiniteSet(1 .. SizeRange)
  BY FS_Interval, BudgetAssumption
<1>2. IsFiniteSet(box)
  BY <1>1, FS_Product, BudgetAssumption
<1>3. \A l \in Leases : 1 .. h[l] \subseteq 1 .. SizeRange
  BY BudgetAssumption DEF Sizes
<1>4. Units(h) \in SUBSET box
  BY <1>3 DEF Units
<1>. QED  BY <1>2, <1>4, FS_Subset, FS_CardinalityType

(* Changing the share of one lease changes the number of units by as much.  *)
LEMMA ChangeOne ==
  ASSUME NEW h \in [Leases -> Sizes], NEW g \in [Leases -> Sizes], NEW l \in Leases,
         \A m \in Leases \ {l} : g[m] = h[m]
  PROVE  /\ h[l] <= Cardinality(Units(h))
         /\ Cardinality(Units(g)) = Cardinality(Units(h)) - h[l] + g[l]
<1>. DEFINE H == {l} \X (1 .. h[l])
            G == {l} \X (1 .. g[l])
<1>1. h[l] \in Nat /\ g[l] \in Nat
  BY BudgetAssumption DEF Sizes
<1>2. IsFiniteSet(H) /\ Cardinality(H) = h[l] /\ IsFiniteSet(G) /\ Cardinality(G) = g[l]
  BY <1>1, UnitsOfOne
<1>3. Units(h) \cap H = H /\ Units(g) \cap G = G
  BY DEF Units
<1>4. Units(h) \ H = Units(g) \ G
  BY DEF Units
<1>5. /\ IsFiniteSet(Units(h)) /\ Cardinality(Units(h)) \in Nat
      /\ IsFiniteSet(Units(g)) /\ Cardinality(Units(g)) \in Nat
  BY UnitsFinite
<1>. HIDE DEF H, G
<1>6. /\ Cardinality(Units(h) \ H) = Cardinality(Units(h)) - h[l]
      /\ Cardinality(Units(g) \ G) = Cardinality(Units(g)) - g[l]
  <2>1. Cardinality(Units(h) \ H) = Cardinality(Units(h)) - Cardinality(Units(h) \cap H)
    BY <1>5, FS_Difference
  <2>2. Cardinality(Units(g) \ G) = Cardinality(Units(g)) - Cardinality(Units(g) \cap G)
    BY Zenon, <1>5, FS_Difference
  <2>. QED  BY ONLY Zenon, <1>2, <1>3, <2>1, <2>2
<1>7. IsFiniteSet(Units(h) \ H) /\ Cardinality(Units(h) \ H) \in Nat
  BY Zenon, <1>5, FS_Difference, FS_CardinalityType
<1>8. Cardinality(Units(h)) - h[l] = Cardinality(Units(g)) - g[l]
  BY ONLY <1>4, <1>6
<1>. QED  BY ONLY <1>1, <1>5, <1>6, <1>7, <1>8

LEMMA HeldIsUnits ==
  ASSUME NEW k \in Kinds
  PROVE  HeldUnits(k) = Units(Shares(k)) /\ HeldUnits(k)' = Units(Shares(k)')
BY DEF HeldUnits, Units, Shares

(* What one lease holds, and what two hold together, is within the ledger.  *)
LEMMA SharesFit ==
  ASSUME IInv, NEW l \in Leases, NEW k \in Kinds
  PROVE  /\ Shares(k) \in [Leases -> Sizes] /\ Shares(k)[l] = held[l][k]
         /\ held[l][k] \in Nat /\ current[k] \in Nat /\ Limits[k] \in Nat
         /\ held[l][k] <= current[k] /\ current[k] <= Limits[k] /\ Limits[k] < SizeRange
         /\ SizeRange \in Nat
         /\ current[k] = Cardinality(Units(Shares(k)))
         /\ \A m \in Leases \ {l} : held[m][k] + held[l][k] <= current[k]
<1>1. Shares(k) \in [Leases -> Sizes] /\ Shares(k)[l] = held[l][k]
  BY DEF IInv, TypeOK, Shares
<1>2. /\ held[l][k] \in Nat /\ current[k] \in Nat /\ Limits[k] \in Nat
      /\ Limits[k] < SizeRange /\ SizeRange \in Nat
  BY BudgetAssumption DEF IInv, TypeOK, Sizes
<1>3. current[k] = Cardinality(Units(Shares(k)))
  BY HeldIsUnits DEF IInv, UsageIsHeld
<1>4. held[l][k] <= current[k]
  BY <1>1, <1>3, ChangeOne
<1>5. current[k] <= Limits[k]
  <2>1. current[k] \in Nat /\ peak[k] \in Nat /\ Limits[k] \in Nat
    BY <1>2, BudgetAssumption DEF IInv, TypeOK, Sizes
  <2>. QED  BY <2>1 DEF IInv, PeakWithinLimits
<1>6. ASSUME NEW m \in Leases \ {l}
      PROVE  held[m][k] + held[l][k] <= current[k]
  <2>. DEFINE g == [Shares(k) EXCEPT ![m] = 0]
  <2>1. g \in [Leases -> Sizes] /\ g[m] = 0 /\ g[l] = held[l][k] /\ held[m][k] \in Nat
    BY <1>1, BudgetAssumption DEF Shares, Sizes, IInv, TypeOK
  <2>2. Cardinality(Units(g)) = current[k] - held[m][k] + 0
    <3>1. \A x \in Leases \ {m} : g[x] = Shares(k)[x]
      BY <1>1
    <3>2. Shares(k)[m] = held[m][k]
      BY DEF Shares
    <3>. HIDE DEF g
    <3>. QED  BY <1>1, <1>3, <2>1, <3>1, <3>2, ChangeOne
  <2>3. g[l] <= Cardinality(Units(g))
    <3>. HIDE DEF g
    <3>. QED  BY <2>1, ChangeOne
  <2>. HIDE DEF g
  <2>. QED  BY <1>2, <2>1, <2>2, <2>3
<1>. QED  BY <1>1, <1>2, <1>3, <1>4, <1>5, <1>6

-----------------------------------------------------------------------------
(* One lemma per way of changing the ledger.                                *)

(* The ledger follows the change of a single lease's share.                 *)
LEMMA OneLeaseStep ==
  ASSUME IInv, NEW l \in Leases, NEW k \in Kinds,
         held' \in [Leases -> [Kinds -> Sizes]],
         \A m \in Leases \ {l} : held'[m][k] = held[m][k]
  PROVE  Cardinality(HeldUnits(k)') = current[k] - held[l][k] + held'[l][k]
<1>1. Shares(k)' \in [Leases -> Sizes] /\ Shares(k)'[l] = held'[l][k]
  BY DEF Shares
<1>2. \A m \in Leases \ {l} : Shares(k)'[m] = Shares(k)[m]
  BY DEF Shares
<1>3. /\ Shares(k) \in [Leases -> Sizes] /\ Shares(k)[l] = held[l][k]
      /\ current[k] = Cardinality(Units(Shares(k)))
  BY SharesFit
<1>. QED  BY <1>1, <1>2, <1>3, ChangeOne, HeldIsUnits

(* ... and that of two leases' shares.                                      *)
LEMMA TwoLeaseStep ==
  ASSUME IInv, NEW l \in Leases, NEW other \in Leases \ {l}, NEW k \in Kinds,
         held' \in [Leases -> [Kinds -> Sizes]],
         \A m \in Leases \ {l, other} : held'[m][k] = held[m][k]
  PROVE  Cardinality(HeldUnits(k)')
           = current[k] - held[l][k] - held[other][k] + held'[l][k] + held'[other][k]
<1>. DEFINE g == [Shares(k) EXCEPT ![l] = held'[l][k]]
<1>1. /\ Shares(k) \in [Leases -> Sizes] /\ Shares(k)[l] = held[l][k]
      /\ Shares(k)[other] = held[other][k]
      /\ current[k] = Cardinality(Units(Shares(k)))
  BY SharesFit
<1>2. g \in [Leases -> Sizes] /\ g[l] = held'[l][k] /\ g[other] = held[other][k]
  BY <1>1
<1>3. \A m \in Leases \ {l} : g[m] = Shares(k)[m]
  BY <1>1
<1>4. Shares(k)' \in [Leases -> Sizes] /\ Shares(k)'[other] = held'[other][k]
  BY DEF Shares
<1>5. \A m \in Leases \ {other} : Shares(k)'[m] = g[m]
  BY DEF Shares
<1>. HIDE DEF g
<1>6. Cardinality(Units(g)) = current[k] - held[l][k] + held'[l][k]
  BY <1>1, <1>2, <1>3, ChangeOne
<1>7. Cardinality(Units(Shares(k)')) = Cardinality(Units(g)) - held[other][k] + held'[other][k]
  BY <1>2, <1>4, <1>5, ChangeOne
<1>8. /\ current[k] \in Int /\ held[l][k] \in Int /\ held'[l][k] \in Int
      /\ held[other][k] \in Int /\ held'[other][k] \in Int
  BY BudgetAssumption DEF IInv, TypeOK, Sizes
<1>. QED  BY <1>6, <1>7, <1>8, HeldIsUnits

(* A grant adds the amount to the ledger without wrapping.                  *)
LEMMA GrantStep ==
  ASSUME IInv, NEW l \in Leases, Fresh(l), NEW amount \in [Kinds -> Sizes], Grant(l, amount)
  PROVE  IInv'
<1>1. /\ held' = [held EXCEPT ![l] = amount] /\ held \in [Leases -> [Kinds -> Sizes]]
      /\ bound' = [bound EXCEPT ![l] = TRUE] /\ bound \in [Leases -> BOOLEAN]
      /\ rejected' = rejected /\ rejected \in [Kinds -> 0 .. MaxRejected]
  BY DEF IInv, TypeOK, Grant
<1>2. held' \in [Leases -> [Kinds -> Sizes]] /\ held'[l] = amount
      /\ \A m \in Leases \ {l} : held'[m] = held[m]
  BY <1>1
<1>3. ASSUME NEW k \in Kinds
      PROVE  /\ current'[k] = current[k] + amount[k]
             /\ current'[k] \in Sizes /\ current'[k] <= Limits[k]
             /\ peak'[k] \in Sizes /\ current'[k] <= peak'[k] /\ peak'[k] <= Limits[k]
  <2>1. /\ current[k] \in Nat /\ Limits[k] \in Nat /\ current[k] <= Limits[k]
        /\ Limits[k] < SizeRange /\ SizeRange \in Nat
    BY SharesFit
  <2>2. amount[k] \in Nat /\ peak[k] \in Nat /\ peak[k] <= Limits[k]
    BY BudgetAssumption DEF IInv, TypeOK, Sizes, PeakWithinLimits
  <2>3. ~(amount[k] > Minus(Limits[k], current[k]))
    BY DEF Grant, Exceeds
  <2>4. current[k] + amount[k] <= Limits[k]
    BY ONLY <2>1, <2>2, <2>3 DEF Minus
  <2>5. current'[k] = Plus(current[k], amount[k])
        /\ peak'[k] = IF current'[k] > peak[k] THEN current'[k] ELSE peak[k]
    BY DEF Grant
  <2>6. current'[k] = current[k] + amount[k]
    BY ONLY <2>1, <2>2, <2>4, <2>5 DEF Plus
  <2>. QED  BY <2>1, <2>2, <2>4, <2>5, <2>6 DEF Sizes
<1>4. TypeOK'
  <2>1. current' \in [Kinds -> Sizes] /\ peak' \in [Kinds -> Sizes]
    BY <1>3 DEF Grant
  <2>. QED  BY <1>1, <1>2, <2>1 DEF TypeOK
<1>5. UsageIsHeld'
  <2>1. ASSUME NEW k \in Kinds
        PROVE  current'[k] = Cardinality(HeldUnits(k)')
    <3>1. held[l][k] = 0
      BY DEF Fresh, Nothing
    <3>2. Cardinality(HeldUnits(k)') = current[k] - held[l][k] + held'[l][k]
      BY <1>2, OneLeaseStep
    <3>3. current[k] \in Nat /\ amount[k] \in Nat
      BY SharesFit, BudgetAssumption DEF Sizes
    <3>. QED  BY <1>2, <1>3, <3>1, <3>2, <3>3
  <2>. QED  BY <2>1 DEF UsageIsHeld
<1>6. PeakWithinLimits'
  BY <1>3 DEF PeakWithinLimits
<1>7. UnboundHoldsNothing'
  BY <1>1, <1>2 DEF IInv, UnboundHoldsNothing
<1>. QED  BY <1>4, <1>5, <1>6, <1>7 DEF IInv

(* A refusal only counts.                                                   *)
LEMMA RejectStep ==
  ASSUME IInv, NEW amount, Reject(amount)
  PROVE  IInv'
<1>1. PICK k \in Kinds : /\ rejected[k] < MaxRejected
                         /\ rejected' = [rejected EXCEPT ![k] = @ + 1]
                         /\ UNCHANGED <<current, peak, bound, held>>
  BY Zenon DEF Reject
<1>2. rejected' \in [Kinds -> 0 .. MaxRejected]
  BY <1>1, BudgetAssumption DEF IInv, TypeOK
<1>. QED
  BY <1>1, <1>2 DEF IInv, TypeOK, UsageIsHeld, HeldUnits, PeakWithinLimits, UnboundHoldsNothing

(* A step that only gives back leaves the peaks right.                      *)
LEMMA ShrinkStep ==
  ASSUME IInv, UNCHANGED <<peak, rejected>>,
         current' \in [Kinds -> Sizes], \A k \in Kinds : current'[k] <= current[k]
  PROVE  PeakWithinLimits'
<1>1. ASSUME NEW k \in Kinds
      PROVE  current'[k] <= peak'[k] /\ peak'[k] <= Limits[k]
  <2>1. current'[k] \in Nat /\ current[k] \in Nat /\ peak[k] \in Nat
    BY BudgetAssumption DEF IInv, TypeOK, Sizes
  <2>. QED  BY <2>1 DEF IInv, PeakWithinLimits
<1>. QED  BY <1>1 DEF PeakWithinLimits

(* The ledger after a lease returned its share does not wrap.               *)
LEMMA ReturnedFits ==
  ASSUME IInv, NEW l \in Leases
  PROVE  /\ Returned(l) \in [Kinds -> Sizes]
         /\ \A k \in Kinds : Returned(l)[k] = current[k] - held[l][k] /\ Returned(l)[k] <= current[k]
<1>1. ASSUME NEW k \in Kinds
      PROVE  /\ Minus(current[k], held[l][k]) = current[k] - held[l][k]
             /\ current[k] - held[l][k] \in Sizes
             /\ current[k] - held[l][k] <= current[k]
  <2>1. /\ held[l][k] \in Nat /\ current[k] \in Nat /\ Limits[k] \in Nat /\ SizeRange \in Nat
        /\ held[l][k] <= current[k] /\ current[k] <= Limits[k] /\ Limits[k] < SizeRange
    BY SharesFit
  <2>. QED  BY ONLY <2>1 DEF Minus, Sizes
<1>. QED  BY <1>1 DEF Returned

LEMMA ResetStep ==
  ASSUME IInv, NEW l \in Leases, reset(l)
  PROVE  IInv'
<1>1. /\ held' = [held EXCEPT ![l] = Nothing] /\ held \in [Leases -> [Kinds -> Sizes]]
      /\ bound' = [bound EXCEPT ![l] = FALSE] /\ bound \in [Leases -> BOOLEAN]
      /\ current' = Returned(l) /\ UNCHANGED <<peak, rejected>>
  BY DEF IInv, TypeOK, reset
<1>2. Nothing \in [Kinds -> Sizes]
  BY NothingTyped
<1>3. held' \in [Leases -> [Kinds -> Sizes]] /\ held'[l] = Nothing
      /\ \A m \in Leases \ {l} : held'[m] = held[m]
  BY <1>1, <1>2
<1>4. /\ current' \in [Kinds -> Sizes]
      /\ \A k \in Kinds : current'[k] = current[k] - held[l][k] /\ current'[k] <= current[k]
  BY <1>1, ReturnedFits
<1>5. TypeOK'
  BY <1>1, <1>3, <1>4 DEF IInv, TypeOK
<1>6. UsageIsHeld'
  <2>1. ASSUME NEW k \in Kinds
        PROVE  current'[k] = Cardinality(HeldUnits(k)')
    <3>1. Cardinality(HeldUnits(k)') = current[k] - held[l][k] + held'[l][k]
      BY <1>3, OneLeaseStep
    <3>2. held'[l][k] = 0 /\ current[k] \in Nat /\ held[l][k] \in Nat
      BY <1>3, SharesFit DEF Nothing
    <3>. QED  BY <1>4, <3>1, <3>2
  <2>. QED  BY <2>1 DEF UsageIsHeld
<1>7. PeakWithinLimits'
  BY <1>1, <1>4, ShrinkStep
<1>8. UnboundHoldsNothing'
  BY <1>1, <1>3 DEF IInv, UnboundHoldsNothing
<1>. QED  BY <1>5, <1>6, <1>7, <1>8 DEF IInv

(* A move assignment returns the old share and carries the other one over.  *)
LEMMA MoveStep ==
  ASSUME IInv, NEW l \in Leases, NEW other \in Leases, MoveAssign(l, other)
  PROVE  IInv'
<1>1. /\ held' = [held EXCEPT ![l] = held[other], ![other] = Nothing]
      /\ held \in [Leases -> [Kinds -> Sizes]]
      /\ bound' = [bound EXCEPT ![l] = bound[other], ![other] = FALSE]
      /\ bound \in [Leases -> BOOLEAN]
      /\ other \in Leases \ {l} /\ UNCHANGED <<peak, rejected>>
  BY DEF IInv, TypeOK, MoveAssign
<1>2. /\ held' \in [Leases -> [Kinds -> Sizes]] /\ held'[l] = held[other]
      /\ held'[other] = Nothing /\ \A m \in Leases \ {l, other} : held'[m] = held[m]
  BY <1>1, NothingTyped
<1>3. /\ current' \in [Kinds -> Sizes]
      /\ \A k \in Kinds : current'[k] = current[k] - held[l][k] /\ current'[k] <= current[k]
  <2>1. CASE bound[l]
    BY <2>1, ReturnedFits DEF MoveAssign
  <2>2. CASE ~bound[l]
    <3>1. current' = current /\ current \in [Kinds -> Sizes]
      BY <2>2 DEF MoveAssign, IInv, TypeOK
    <3>2. \A k \in Kinds : held[l][k] = 0
      BY <2>2 DEF IInv, UnboundHoldsNothing, Nothing
    <3>3. \A k \in Kinds : current[k] \in Nat
      BY SharesFit
    <3>. QED  BY <3>1, <3>2, <3>3
  <2>. QED  BY <2>1, <2>2
<1>4. TypeOK'
  BY Zenon, <1>1, <1>2, <1>3 DEF IInv, TypeOK
<1>5. UsageIsHeld'
  <2>1. ASSUME NEW k \in Kinds
        PROVE  current'[k] = Cardinality(HeldUnits(k)')
    <3>1. Cardinality(HeldUnits(k)')
            = current[k] - held[l][k] - held[other][k] + held'[l][k] + held'[other][k]
      BY ZenonT(60), <1>1, <1>2, TwoLeaseStep
    <3>2. held'[other][k] = 0 /\ held'[l][k] = held[other][k]
      BY <1>2 DEF Nothing
    <3>3. current[k] \in Nat /\ held[l][k] \in Nat /\ held[other][k] \in Nat
      BY SharesFit
    <3>. QED  BY <1>3, <3>1, <3>2, <3>3
  <2>. QED  BY <2>1 DEF UsageIsHeld
<1>6. PeakWithinLimits'
  BY <1>1, <1>3, ShrinkStep
<1>7. UnboundHoldsNothing'
  <2>1. ASSUME NEW m \in Leases, ~bound'[m]
        PROVE  held'[m] = Nothing
    BY <1>1, <1>2, <2>1 DEF IInv, UnboundHoldsNothing
  <2>. QED  BY <2>1 DEF UnboundHoldsNothing
<1>. QED  BY <1>4, <1>5, <1>6, <1>7 DEF IInv

LEMMA ReleaseStep ==
  ASSUME IInv, NEW l \in Leases, NEW bytes \in Sizes, releaseOutput(l, bytes)
  PROVE  IInv'
<1>. DEFINE o == "outputBytes"
<1>1. /\ bytes \in 1 .. held[l][o]
      /\ held' = [held EXCEPT ![l] = [held[l] EXCEPT ![o] = held[l][o] - bytes]]
      /\ current' = [current EXCEPT ![o] = Minus(current[o], bytes)]
      /\ UNCHANGED <<peak, rejected, bound>>
      /\ held \in [Leases -> [Kinds -> Sizes]] /\ current \in [Kinds -> Sizes]
      /\ bound \in [Leases -> BOOLEAN] /\ o \in Kinds
  BY DEF IInv, TypeOK, releaseOutput, Kinds
<1>2. /\ held[l][o] \in Nat /\ current[o] \in Nat /\ held[l][o] <= current[o]
      /\ current[o] < SizeRange /\ SizeRange \in Nat
  <2>1. /\ held[l][o] \in Nat /\ current[o] \in Nat /\ Limits[o] \in Nat /\ SizeRange \in Nat
        /\ held[l][o] <= current[o] /\ current[o] <= Limits[o] /\ Limits[o] < SizeRange
    BY <1>1, SharesFit
  <2>. QED  BY ONLY <2>1
<1>3. /\ held[l][o] - bytes \in Sizes /\ Minus(current[o], bytes) = current[o] - bytes
      /\ current[o] - bytes \in Sizes /\ bytes \in Nat
  BY ONLY <1>1, <1>2 DEF Minus, Sizes
<1>4. /\ held' \in [Leases -> [Kinds -> Sizes]] /\ \A m \in Leases \ {l} : held'[m] = held[m]
      /\ held'[l][o] = held[l][o] - bytes /\ \A k \in Kinds \ {o} : held'[l][k] = held[l][k]
  BY <1>1, <1>3
<1>5. /\ current' \in [Kinds -> Sizes] /\ current'[o] = current[o] - bytes
      /\ \A k \in Kinds \ {o} : current'[k] = current[k]
  BY <1>1, <1>3
<1>6. TypeOK'
  BY <1>1, <1>4, <1>5 DEF IInv, TypeOK
<1>7. UsageIsHeld'
  <2>1. ASSUME NEW k \in Kinds
        PROVE  current'[k] = Cardinality(HeldUnits(k)')
    <3>1. Cardinality(HeldUnits(k)') = current[k] - held[l][k] + held'[l][k]
      BY <1>4, OneLeaseStep
    <3>2. current[k] \in Nat /\ held[l][k] \in Nat
      BY SharesFit
    <3>3. CASE k = o
      BY <1>3, <1>4, <1>5, <3>1, <3>2, <3>3
    <3>4. CASE k # o
      BY <1>4, <1>5, <3>1, <3>2, <3>4
    <3>. QED  BY <3>3, <3>4
  <2>. QED  BY <2>1 DEF UsageIsHeld
<1>8. PeakWithinLimits'
  <2>1. ASSUME NEW k \in Kinds
        PROVE  current'[k] <= current[k]
    <3>1. current[k] \in Nat
      BY SharesFit
    <3>. QED  BY <1>2, <1>3, <1>5, <3>1
  <2>. QED  BY <1>1, <1>5, <2>1, ShrinkStep
<1>9. UnboundHoldsNothing'
  <2>1. ASSUME NEW m \in Leases, ~bound'[m]
        PROVE  held'[m] = Nothing
    <3>1. held[m] = Nothing
      BY <1>1, <2>1 DEF IInv, UnboundHoldsNothing
    <3>2. m # l
      BY <1>1, <1>2, <3>1 DEF Nothing
    <3>. QED  BY <1>4, <3>1, <3>2
  <2>. QED  BY <2>1 DEF UnboundHoldsNothing
<1>. QED  BY <1>6, <1>7, <1>8, <1>9 DEF IInv

(* Merging moves a share without touching the ledger, and does not wrap.    *)
LEMMA AbsorbStep ==
  ASSUME IInv, NEW l \in Leases, NEW other \in Leases, absorb(l, other)
  PROVE  IInv'
<1>. DEFINE sum == [k \in Kinds |-> Plus(held[l][k], held[other][k])]
<1>1. /\ held' = [held EXCEPT ![l] = sum, ![other] = Nothing]
      /\ held \in [Leases -> [Kinds -> Sizes]]
      /\ bound' = [bound EXCEPT ![l] = TRUE, ![other] = FALSE]
      /\ bound \in [Leases -> BOOLEAN]
      /\ other \in Leases \ {l} /\ UNCHANGED <<current, peak, rejected>>
  BY DEF IInv, TypeOK, absorb, usage
<1>2. ASSUME NEW k \in Kinds
      PROVE  /\ sum[k] = held[l][k] + held[other][k] /\ sum[k] \in Sizes
             /\ held[l][k] \in Nat /\ held[other][k] \in Nat /\ current[k] \in Nat
  <2>1. /\ held[l][k] \in Nat /\ held[other][k] \in Nat /\ current[k] \in Nat
        /\ held[other][k] + held[l][k] <= current[k]
        /\ current[k] <= Limits[k] /\ Limits[k] < SizeRange /\ SizeRange \in Nat
        /\ Limits[k] \in Nat
    BY <1>1, SharesFit
  <2>2. sum[k] = Plus(held[l][k], held[other][k])
    OBVIOUS
  <2>. QED  BY ONLY <2>1, <2>2 DEF Plus, Sizes
<1>3. sum \in [Kinds -> Sizes]
  BY <1>2
<1>4. ASSUME NEW k \in Kinds
      PROVE  sum[k] = held[l][k] + held[other][k]
  BY <1>2
<1>. HIDE DEF sum
<1>5. /\ held' \in [Leases -> [Kinds -> Sizes]] /\ held'[l] = sum
      /\ held'[other] = Nothing /\ \A m \in Leases \ {l, other} : held'[m] = held[m]
  BY <1>1, <1>3, NothingTyped
<1>6. TypeOK'
  BY Zenon, <1>1, <1>5 DEF IInv, TypeOK
<1>7. UsageIsHeld'
  <2>1. ASSUME NEW k \in Kinds
        PROVE  current'[k] = Cardinality(HeldUnits(k)')
    <3>1. Cardinality(HeldUnits(k)')
            = current[k] - held[l][k] - held[other][k] + held'[l][k] + held'[other][k]
      BY <1>1, <1>5, TwoLeaseStep
    <3>2. held'[other][k] = 0 /\ held'[l][k] = held[l][k] + held[other][k]
      BY <1>4, <1>5 DEF Nothing
    <3>3. current[k] \in Nat /\ held[l][k] \in Nat /\ held[other][k] \in Nat
      BY <1>2
    <3>. QED  BY <1>1, <3>1, <3>2, <3>3
  <2>. QED  BY <2>1 DEF UsageIsHeld
<1>8. PeakWithinLimits'
  BY <1>1 DEF IInv, PeakWithinLimits
<1>9. UnboundHoldsNothing'
  <2>1. ASSUME NEW m \in Leases, ~bound'[m]
        PROVE  held'[m] = Nothing
    BY <1>1, <1>5, <2>1 DEF IInv, UnboundHoldsNothing
  <2>. QED  BY <2>1 DEF UnboundHoldsNothing
<1>. QED  BY <1>6, <1>7, <1>8, <1>9 DEF IInv

-----------------------------------------------------------------------------
LEMMA InitIInv == Init => IInv
<1>. SUFFICES ASSUME Init PROVE IInv
  OBVIOUS
<1>1. TypeOK
  BY NothingTyped, BudgetAssumption DEF Init, TypeOK, Nothing
<1>2. UsageIsHeld
  <2>1. ASSUME NEW k \in Kinds
        PROVE  current[k] = Cardinality(HeldUnits(k))
    <3>1. \A l \in Leases : 1 .. held[l][k] = {}
      BY DEF Init, Nothing
    <3>2. HeldUnits(k) = {}
      BY <3>1 DEF HeldUnits
    <3>3. current[k] = 0
      BY DEF Init, Nothing
    <3>. QED  BY <3>2, <3>3, FS_EmptySet
  <2>. QED  BY <2>1 DEF UsageIsHeld
<1>3. PeakWithinLimits
  BY BudgetAssumption DEF Init, Nothing, PeakWithinLimits
<1>4. UnboundHoldsNothing
  BY DEF Init, UnboundHoldsNothing
<1>. QED  BY <1>1, <1>2, <1>3, <1>4 DEF IInv

(* An acquisition is a grant or a refusal of an amount of the right type.   *)
LEMMA AcquireStep ==
  ASSUME IInv, NEW l \in Leases, Fresh(l), NEW amount \in [Kinds -> Sizes], tryAcquire(l, amount)
  PROVE  IInv'
BY GrantStep, RejectStep DEF tryAcquire

LEMMA NextIInv == IInv /\ [Next]_vars => IInv'
<1>. SUFFICES ASSUME IInv, [Next]_vars PROVE IInv'
  OBVIOUS
<1>1. CASE UNCHANGED vars
  BY <1>1 DEF vars, usage, IInv, TypeOK, UsageIsHeld, HeldUnits, PeakWithinLimits,
              UnboundHoldsNothing
<1>2. CASE Next
  <2>1. PICK l \in Leases :
          \/ tryAcquireConnection(l)
          \/ \E bytes \in Sizes : tryAcquireInput(l, bytes)
          \/ \E bytes \in Sizes : tryAcquireOutput(l, bytes)
          \/ reset(l)
          \/ \E bytes \in Sizes : releaseOutput(l, bytes)
          \/ \E other \in Leases : MoveAssign(l, other) \/ absorb(l, other)
    BY <1>2 DEF Next
  <2>2. CASE tryAcquireConnection(l)
    <3>1. 1 \in Sizes /\ TransportInput \in Sizes
      BY BudgetAssumption DEF Sizes
    <3>2. [Nothing EXCEPT !["connections"] = 1, !["inputBytes"] = TransportInput]
            \in [Kinds -> Sizes]
      BY Zenon, <3>1, NothingTyped
    <3>. QED  BY Zenon, <2>2, <3>2, AcquireStep DEF tryAcquireConnection
  <2>3. ASSUME NEW bytes \in Sizes, tryAcquireInput(l, bytes) PROVE IInv'
    <3>1. [Nothing EXCEPT !["inputBytes"] = bytes] \in [Kinds -> Sizes]
      BY Zenon, NothingTyped
    <3>. QED  BY Zenon, <2>3, <3>1, AcquireStep DEF tryAcquireInput
  <2>4. ASSUME NEW bytes \in Sizes, tryAcquireOutput(l, bytes) PROVE IInv'
    <3>1. [Nothing EXCEPT !["outputBytes"] = bytes] \in [Kinds -> Sizes]
      BY Zenon, NothingTyped
    <3>. QED  BY Zenon, <2>4, <3>1, AcquireStep DEF tryAcquireOutput
  <2>. QED  BY <2>1, <2>2, <2>3, <2>4, ResetStep, ReleaseStep, MoveStep, AbsorbStep
<1>. QED  BY <1>1, <1>2

(* The ledger invariant holds in every reachable state.                     *)
THEOREM BudgetInvariant == Spec => []IInv
BY InitIInv, NextIInv, PTL DEF Spec

(* Amounts never leave the range of size_t: no subtraction of the ledger    *)
(* wraps.                                                                   *)
THEOREM BudgetTypes == Spec => []TypeOK
<1>1. IInv => TypeOK
  BY DEF IInv
<1>. QED  BY <1>1, BudgetInvariant, PTL

(* The ledger equals what all leases hold together.                         *)
THEOREM BudgetLedger == Spec => []UsageIsHeld
<1>1. IInv => UsageIsHeld
  BY DEF IInv
<1>. QED  BY <1>1, BudgetInvariant, PTL

(* Use never exceeds the configured limits.                                 *)
THEOREM BudgetWithinLimits == Spec => []PeakWithinLimits
<1>1. IInv => PeakWithinLimits
  BY DEF IInv
<1>. QED  BY <1>1, BudgetInvariant, PTL

(* A lease without a budget holds nothing.                                  *)
THEOREM BudgetUnbound == Spec => []UnboundHoldsNothing
<1>1. IInv => UnboundHoldsNothing
  BY DEF IInv
<1>. QED  BY <1>1, BudgetInvariant, PTL

(* Only a refusal counts as one, and it takes nothing.                      *)
THEOREM BudgetRefusals == Spec => RefusalTakesNothing
<1>. DEFINE Step == rejected' # rejected =>
                      /\ \E k \in Kinds : rejected' = [rejected EXCEPT ![k] = @ + 1]
                      /\ UNCHANGED <<current, peak, bound, held>>
<1>1. [Next]_vars => [Step]_vars
  <2>. SUFFICES ASSUME Next, rejected' # rejected PROVE Step
    OBVIOUS
  <2>1. \E amount : Reject(amount)
    BY Zenon DEF Next, tryAcquireConnection, tryAcquireInput, tryAcquireOutput, tryAcquire, Grant,
           reset, MoveAssign, releaseOutput, absorb, usage
  <2>. QED  BY Zenon, <2>1 DEF Reject
<1>. QED  BY <1>1, PTL DEF Spec, RefusalTakesNothing

=============================================================================
