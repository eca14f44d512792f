--------------------------- MODULE MCRequestParser ---------------------------
(* The instance of RequestParser, and of its reference, for TLC.            *)
EXTENDS RequestFraming
=============================================================================
