------------------------------ MODULE FakeConsole ------------------------------
(***************************************************************************)
(* The engine that a person drives from pages of a browser                 *)
(* (packages/agent/src/plugins: fake-console.ts, fake-console-page.ts,     *)
(* interactive-fake.ts), in the place of the engine of AgentAdapter: a run *)
(* lasts until somebody ends it on a page, or end_session succeeds in it,  *)
(* whether or not the calls made in it have been answered.                 *)
(***************************************************************************)
EXTENDS AgentAdapter

CONSTANTS
  Page,   \* pages that are open, in as many tabs
  Called  \* bound: the tools that are called from them

ASSUME ConsoleConstants == Called \subseteq Tools /\ Call # {}

VARIABLES
  pages,  \* what each page shows, and whether it waits for an answer
  queue,  \* invokeChain: the pages that called, the call of the first being served
  stage,  \* how far that first one is: "wait", "call", or "answer"
  held    \* the run it was begun in is still the current one

console == <<pages, queue, stage, held>>
consoleVars == <<vars, console>>

Caller == CHOOSE c \in Call : TRUE

ConsoleInit ==
  /\ pages = [p \in Page |-> [running |-> FALSE, busy |-> FALSE]]
  /\ queue = <<>> /\ stage = "wait" /\ held = FALSE

\* requireRun.
HasRun == At("run")

-----------------------------------------------------------------------------
(* The pages. *)

\* refresh, twice a second: the state as snapshot tells it.
Refresh(p) ==
  /\ pages[p].running # HasRun
  /\ pages' = [pages EXCEPT ![p].running = HasRun]
  /\ UNCHANGED <<vars, queue, stage, held>>

\* A page lets itself be used while it shows a run and waits for nothing.
Usable(p) == pages[p].running /\ ~pages[p].busy

\* The button that calls: handleTool puts the call behind those before it.  Which
\* tool it is for is left open until it is served.
PressCall(p) ==
  /\ Usable(p)
  /\ queue' = Append(queue, p)
  /\ pages' = [pages EXCEPT ![p].busy = TRUE]
  /\ UNCHANGED <<vars, stage, held>>

\* The button that ends the run: done and finish.  The call that is under way goes
\* on; what it brings comes too late for the log of its run.
PressDone(p) ==
  /\ Usable(p)
  /\ Return(log)
  /\ held' = FALSE
  /\ UNCHANGED <<calls, pages, queue, stage>>

\* The answer to the first of the queue: the page is free again, having looked
\* at the state once more.
Reply(running) ==
  /\ queue' = Tail(queue)
  /\ stage' = "wait" /\ held' = FALSE
  /\ pages' = [pages EXCEPT ![Head(queue)] = [running |-> running, busy |-> FALSE]]

-----------------------------------------------------------------------------
(* invokeTool. *)

\* Without a run the call is refused, with one it is passed on to the board.
Invoke ==
  /\ queue # <<>> /\ stage = "wait"
  /\ IF HasRun
     THEN stage' = "call" /\ held' = TRUE /\ UNCHANGED <<pages, queue>>
     ELSE Reply(FALSE)
  /\ UNCHANGED vars

\* The board refuses the call, as it does every call for a session beyond the
\* bound, or does what is asked.
Reach ==
  /\ stage = "call"
  /\ \/ Refuse /\ Reply(HasRun)
     \/ (open \/ count = MaxSessions) /\ UNCHANGED vars /\ Reply(HasRun)
     \/ (\E tool \in Called : Succeed(Caller, tool)) /\ stage' = "answer"
        /\ UNCHANGED <<pages, queue, held>>

\* Mutated form: a call that throws leaves the chain broken.
LoseChain ==
  /\ stage = "call"
  /\ CanFail
  /\ faults' = faults + 1
  /\ stage' = "broken"
  /\ pages' = [pages EXCEPT ![Head(queue)].busy = FALSE]
  /\ UNCHANGED <<board, warnings, calls, line, adapter, queue, held>>

\* callTool throws: the page is told, and the calls behind this one go on.
LoseCall ==
  /\ stage = "call"
  /\ CanFail
  /\ faults' = faults + 1
  /\ Reply(HasRun)
  /\ UNCHANGED <<board, warnings, calls, line, adapter>>

\* The answer is noted in the log of the run that the call was begun in, which
\* nobody reads any more if it is over; end_session ends that run.
Finish ==
  /\ stage = "answer" /\ calls[Caller].step = "answer"
  /\ calls' = [calls EXCEPT ![Caller] = NoCall]
  /\ \E entries \in IF held THEN LogsWith(calls[Caller]) ELSE {log} :
       IF held /\ calls[Caller].tool = "end_session"
       THEN Return(entries) /\ Reply(FALSE)
       ELSE /\ log' = entries /\ Reply(HasRun)
            /\ UNCHANGED <<board, warnings, line, chain, active, requested, loop, spent, faults>>

-----------------------------------------------------------------------------
(* The loop and the board go on as with any engine. *)

Others ==
  /\ \/ Start
     \/ queue = <<>> /\ Interrupt
     \/ Ask \/ Report \/ Judge
     \/ \E c \in Slots : Look(c) \/ Send(c)
     \/ Answer(Reporter)
  /\ UNCHANGED console

Served == Invoke \/ Reach \/ LoseCall \/ Finish

ConsoleNext ==
  \/ \E p \in Page : Refresh(p) \/ PressCall(p) \/ PressDone(p)
  \/ Served
  \/ Others

-----------------------------------------------------------------------------
\* Every variable of the console has its type.
ConsoleTypeOK ==
  /\ pages \in [Page -> [running : BOOLEAN, busy : BOOLEAN]]
  /\ queue \in Seq(Page)
  /\ stage \in {"wait", "call", "answer"}
  /\ held \in BOOLEAN
=============================================================================
