------------------------- MODULE MCManagementServer -------------------------
(* The application's two threads for TLC.                                   *)
EXTENDS ManagementServer
=============================================================================
