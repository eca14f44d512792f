----------------------------- MODULE MCScripts ------------------------------
(***************************************************************************)
(* Two identifiers in binary digits, so that they run out and one that is   *)
(* too large has as many digits as one that is not.                         *)
(***************************************************************************)
EXTENDS Scripts

MCInputs == {"foreign", "ephemeral", "synthetic", "replaced", "survivor"}
=============================================================================
