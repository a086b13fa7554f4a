--------------------------- MODULE MCThreadDecision ---------------------------
(* A small project: its human owner, the agent that opened the thread, and   *)
(* one more person, who may be given a role; two proposals, one by each of   *)
(* the owners.                                                               *)
EXTENDS ThreadDecision, TLC

CONSTANTS po, to, helper, p1, p2, h1, h2

MCParticipant == {po, to, helper}
\* The owners alone, where two requests already make enough states.
Owners == {po, to}
MCAgent == {to}
MCProposal == {p1, p2}
OneProposal == {p1}
MCAuthor == [p \in Proposal |-> IF p = p1 THEN to ELSE po]

Config(consensus, human, founding) ==
  [consensus |-> consensus, human |-> human, founding |-> founding]

\* The types decided by a declaration of an owner, the brainstorm, and the one
\* the system decides upon a post.
Declared ==
  {Config("rough", FALSE, FALSE), Config("none", FALSE, FALSE),
   Config("unanimous", FALSE, FALSE)}
  \cup {Config("owner_decision", h, FALSE) : h \in BOOLEAN}
  \cup {Config("human_ratification", FALSE, f) : f \in BOOLEAN}

\* The types that look at objections, and the unanimous again.
Watched ==
  {Config(c, FALSE, FALSE) : c \in SelectingTypes}
  \cup {Config("rough", h, FALSE) : h \in BOOLEAN}

Handlers == Permutations({h1, h2})
=============================================================================
