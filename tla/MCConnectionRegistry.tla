------------------------ MODULE MCConnectionRegistry ------------------------
(* Small instances of ConnectionRegistry: two descriptors and three         *)
(* identities at one moment, and one descriptor used by two connections in  *)
(* turn over four moments, with all three time limits.                      *)
EXTENDS ConnectionRegistry

CONSTANTS f1, f2

MCSettings ==
  {[fds |-> {f1, f2}, maxIdentity |-> 3, maxToken |-> 3, delFails |-> TRUE,
    idle |-> 1, keepAlive |-> 0, maxTime |-> 0],
   [fds |-> {f1}, maxIdentity |-> 2, maxToken |-> 2, delFails |-> FALSE,
    idle |-> 2, keepAlive |-> 1, maxTime |-> 3]}
=============================================================================
