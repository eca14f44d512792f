--------------------------- MODULE MCAsyncLogger ----------------------------
(* The instance of AsyncLogger for TLC.                                     *)
EXTENDS AsyncLogger
=============================================================================
