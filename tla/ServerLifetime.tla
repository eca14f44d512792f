--------------------------- MODULE ServerLifetime ---------------------------
(***************************************************************************)
(* What the server process promises to whoever starts it: it loads its      *)
(* options, starts, announces its ports, serves, leaves and exits.  Wrong   *)
(* options give exit code 2, and 0 is given only to those who asked for the *)
(* end.  A port is announced only by a server that is about to serve.       *)
(* ManagementServer implements it, and the scripts rely on it.              *)
(***************************************************************************)

VARIABLE child  \* the process: options, signals, life, exit code, stdout

Launched(config, admin, metrics) ==
  [config |-> config, admin |-> admin, metrics |-> metrics, term |-> FALSE, killed |-> FALSE,
   life |-> "loading", code |-> 0, said |-> {}]

Init ==
  \E config \in {"good", "bad", "denied"}, admin, metrics \in BOOLEAN :
    child = Launched(config, admin, metrics)

Running == child.life \notin {"none", "ended"}

Becomes(life) == child' = [child EXCEPT !.life = life]
Ends(code)    == child' = [child EXCEPT !.life = "ended", !.code = code]

(* Until the mask is installed SIGTERM has its default effect.              *)
Load ==
  /\ child.life = "loading"
  /\ IF child.term THEN Ends(15) ELSE IF child.config = "bad" THEN Ends(2) ELSE Becomes("starting")

StartFails == child.life = "starting" /\ Becomes("leaving")

Announce ==
  /\ child.life = "starting" /\ child.config = "good"
  /\ child' = [child EXCEPT !.life = IF child.admin THEN "announced" ELSE "serving",
                            !.said = @ \cup {"listening"}]

AnnounceAdmin ==
  /\ child.life = "announced"
  /\ child' = [child EXCEPT !.life = "serving", !.said = @ \cup {"admin"}]

(* A signal or a failure ends the service.                                  *)
ServiceEnds == child.life = "serving" /\ Becomes("leaving")

(* The metrics come last.  A signal nobody read shows only when the mask is *)
(* restored, whatever the exit code was to be.                              *)
PrintMetrics ==
  /\ child.life = "leaving" /\ child.metrics
  /\ child' = [child EXCEPT !.said = @ \cup {"metrics"}]

ProcessExits ==
  /\ child.life = "leaving"
  /\ \E code \in {1} \cup (IF child.term THEN {0, 15} ELSE {}) :
       /\ code = 0 /\ child.metrics => "metrics" \in child.said
       /\ Ends(code)

Dies == Running /\ child.killed /\ Ends(9)

Step ==
  \/ Load \/ StartFails \/ Announce \/ AnnounceAdmin \/ ServiceEnds \/ PrintMetrics \/ ProcessExits
  \/ Dies

SendTerm == Running /\ ~child.term /\ child' = [child EXCEPT !.term = TRUE]
SendKill == Running /\ ~child.killed /\ child' = [child EXCEPT !.killed = TRUE]

Spec == Init /\ [][Step \/ SendTerm \/ SendKill]_child
=============================================================================
