---------------------------- MODULE MCAgentSession ----------------------------
(* One agent whose budget pays for one post and a little more before the     *)
(* reserve: a post costs 2, end_session 1, searching nothing.                *)
EXTENDS AgentSession, TLC

CONSTANTS c1, c2

MCWorkTool == {"post", "search"}
MCToolCost ==
  [tool \in WorkTool \cup {"end_session"} |->
     CASE tool = "post" -> 2 [] tool = "search" -> 0 [] OTHER -> 1]
\* Where the budget makes no difference to the question.
NoCost == [tool \in WorkTool \cup {"end_session"} |-> 0]

Callers == Permutations(Call)
=============================================================================
