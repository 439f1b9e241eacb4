-------------------------- MODULE MCSessionRuntime --------------------------
(***************************************************************************)
(* Model checking of SessionRuntime.                                       *)
(***************************************************************************)
EXTENDS SessionRuntime
=============================================================================
