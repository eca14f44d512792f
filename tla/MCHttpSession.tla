---------------------------- MODULE MCHttpSession ----------------------------
(* Small instances of HttpSession.                                          *)
EXTENDS HttpSession
=============================================================================
