---------------------------- MODULE MCAgentAdapter ----------------------------
(* One agent, by the kind of its engine: any that waits for the answers to its  *)
(* calls, the console of two pages, or nothing but the forms that its calls are *)
(* made with.                                                                   *)
EXTENDS FakeConsole, ToolForms

CONSTANTS c1, p1, p2

VARIABLE engine  \* the kind of engine: "any", "console" or "forms"

mcVars == <<consoleVars, form, engine>>

MCInit ==
  /\ engine \in {"any", "console", "forms"}
  /\ Init /\ ConsoleInit /\ FormsInit

\* Bound: a session at the console has budget enough.
MCNext ==
  /\ engine' = engine
  /\ \/ engine = "any" /\ Next /\ UNCHANGED <<console, form>>
     \/ engine = "console" /\ ConsoleNext /\ low' = {} /\ UNCHANGED form
     \/ engine = "forms" /\ FormsNext /\ UNCHANGED consoleVars

-----------------------------------------------------------------------------
(* Fairness.  The steps of one call, and those of the loop, follow one another, *)
(* so that one condition is enough for all of them.                             *)

ByAny(A) == engine = "any" /\ A /\ UNCHANGED <<console, form, engine>>
ByConsole(A) == engine = "console" /\ A /\ UNCHANGED <<form, engine>>

\* The loop goes on, and its report of tokens is answered.
LoopGoesOn ==
  /\ engine # "forms"
  /\ Ask \/ Report \/ Judge \/ Serve(Reporter)
  /\ UNCHANGED <<console, form, engine>>

\* What the board was asked for by a tool is answered.
CallIsAnswered ==
  \/ \E c \in Call : ByAny(Serve(c))
  \/ ByConsole(Served \/ ((Look(Caller) \/ Send(Caller)) /\ UNCHANGED console))

\* Pages refresh.
PageRefreshes == ByConsole(\E p \in Page : Refresh(p))

\* A run comes to an end: the engine's, or by who sits at the console; nobody is
\* obliged to end a session.
RunIsEnded == ByAny(RunEnds) \/ ByConsole(\E p \in Page : PressDone(p))

MCFairness ==
  WF_mcVars(LoopGoesOn) /\ WF_mcVars(CallIsAnswered) /\ WF_mcVars(PageRefreshes)
  /\ SF_mcVars(RunIsEnded)

MCSpec == MCInit /\ [][MCNext]_mcVars /\ MCFairness

MCTypeOK == TypeOK /\ ConsoleTypeOK

\* Once a loop has brought its own session, for which no warning was issued
\* before, to the reserve it asks for no more work, whether a tool or the report
\* of its tokens spent the last of it: by the budget in the log or, where the log
\* cannot tell, by a warning that arrives before the report is answered.  Not so
\* with the console: a run can be ended there on one page while the answer to a
\* call of the other, and with it the budget, is still to come.
WorkStopsAtReserve ==
  [][/\ engine = "any" /\ spent /\ open /\ Running = count
     /\ loop.step = "ask" /\ loop'.step = "run"
     => loop.mode = "wind-down" \/ faults > 0]_mcVars

\* A page that has called a tool can be used again in the end, whatever run is
\* ended meanwhile, on whichever page, and whichever call is lost (invokeChain).
\* Pages are alike: one stands for all.
PagesAreAnswered == pages[p1].busy ~> ~pages[p1].busy
=============================================================================
