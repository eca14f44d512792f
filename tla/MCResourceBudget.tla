-------------------------- MODULE MCResourceBudget --------------------------
(* A small instance of ResourceBudget: three interchangeable leases, limits *)
(* that are exhausted, and a size_t of a few values so that sums can wrap.   *)
EXTENDS ResourceBudget, TLC

CONSTANTS Connections, Input, Output

MCLimits == [k \in Kinds |-> CASE k = "connections" -> Connections
                               [] k = "inputBytes"  -> Input
                               [] OTHER             -> Output]

LeaseSymmetry == Permutations(Leases)
=============================================================================
