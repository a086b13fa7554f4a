----------------------------- MODULE MCWorkClaims -----------------------------
(* Instances of WorkClaims small enough for TLC. *)
EXTENDS WorkClaims, TLC

CONSTANTS t1, t2, human, agent, h1, h2

\* The paths "docs/" and "docs/README.md", and the whole repository.
Docs == {<<"docs", "">>}
Readme == {<<"docs", "README.md">>}

MCType == [t \in {t1, t2} |-> IF t = t1 THEN "implementation" ELSE "brainstorm"]
\* The handlers are alike.
Handlers == Permutations({h1, h2})

MCPathSet == {Docs, Readme, {Everything}}
=============================================================================
