--------------------------- MODULE MCThreadCreation ---------------------------
(* Instances of ThreadCreation small enough for TLC. *)
EXTENDS ThreadCreation, TLC

CONSTANTS owner, member, i1, h1, h2

Handlers == Permutations({h1, h2})
=============================================================================
