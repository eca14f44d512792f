----------------------- MODULE MCEventLoopThreadPool ------------------------
(* The instance of EventLoopThreadPool for TLC.                             *)
EXTENDS EventLoopThreadPool
=============================================================================
