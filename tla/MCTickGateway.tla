----------------------------- MODULE MCTickGateway -----------------------------
(* One agent.                                                                 *)
EXTENDS TickGateway

CONSTANT h1
=============================================================================
