------------------------------ MODULE LogQueue ------------------------------
(***************************************************************************)
(* What the asynchronous logger promises: the lines that were accepted      *)
(* reach the sink in the order of acceptance, up to the first failure of    *)
(* the sink; a line is refused, never overwritten.                          *)
(***************************************************************************)
EXTENDS Naturals, Sequences

CONSTANTS Capacity, Line

VARIABLES queue, sink, broken

Init == queue = << >> /\ sink = << >> /\ broken = FALSE

Accept(line) ==
  /\ queue' = Append(queue, line)
  /\ UNCHANGED <<sink, broken>>

Write(n) ==
  /\ n <= Len(queue) /\ ~broken
  /\ sink' = sink \o SubSeq(queue, 1, n)
  /\ queue' = SubSeq(queue, n + 1, Len(queue))
  /\ UNCHANGED broken

Lose(n) ==
  /\ n <= Len(queue)
  /\ broken' = TRUE
  /\ queue' = SubSeq(queue, n + 1, Len(queue))
  /\ UNCHANGED sink

Next ==
  \/ \E line \in Line : Accept(line)
  \/ \E n \in 1 .. Capacity : Write(n) \/ Lose(n)

Spec == Init /\ [][Next]_<<queue, sink, broken>>
=============================================================================
