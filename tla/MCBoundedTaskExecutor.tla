----------------------- MODULE MCBoundedTaskExecutor ------------------------
(* The instance of BoundedTaskExecutor for TLC.                             *)
EXTENDS BoundedTaskExecutor
=============================================================================
