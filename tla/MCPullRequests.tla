---------------------------- MODULE MCPullRequests ----------------------------
(* Instances of PullRequests small enough for TLC. *)
EXTENDS PullRequests

CONSTANTS p1, r1, r2, t1, t2, h1, h2
=============================================================================
