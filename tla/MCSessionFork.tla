--------------------------- MODULE MCSessionFork ----------------------------
(***************************************************************************)
(* Model checking of SessionFork.                                          *)
(***************************************************************************)
EXTENDS SessionFork
=============================================================================
