------------------------- MODULE MCPiRpcConnection -------------------------
(***************************************************************************)
(* Model checking of PiRpcConnection on one connection object.             *)
(***************************************************************************)
EXTENDS PiRpcConnection
=============================================================================
