---------------------------- MODULE HttpExchange ----------------------------
(***************************************************************************)
(* What a connection promises about the requests it counts: one at a time,  *)
(* each ends once, and a request that is aborted is the last one.           *)
(***************************************************************************)
EXTENDS Naturals, Sequences

VARIABLES open, outcomes

Init == open = FALSE /\ outcomes = << >>

Begin ==
  /\ ~open
  /\ \A i \in 1 .. Len(outcomes) : outcomes[i] = "completed"
  /\ open' = TRUE /\ UNCHANGED outcomes

Finish(outcome) ==
  /\ open
  /\ open' = FALSE /\ outcomes' = Append(outcomes, outcome)

Next == Begin \/ Finish("completed") \/ Finish("aborted")

Spec == Init /\ [][Next]_<<open, outcomes>>
=============================================================================
