------------------------------ MODULE AgentAdapter ------------------------------
(***************************************************************************)
(* How the adapter drives an engine through a session: runs in a row, a    *)
(* judgment after each, a few more runs to wind down in; and how the board *)
(* warns it that the budget is at the reserve (packages/agent/src:         *)
(* session-loop.ts, continue-judgment.ts, idle-detection.ts,               *)
(* commands/connect.ts; packages/board/src: gateway/health.ts,             *)
(* gateway/send-tick.ts, http/app.ts).                                     *)
(*                                                                         *)
(* A call is a tool that the engine uses, or the report of its tokens: what*)
(* it does to the session, then the steps by which the board may send a    *)
(* warning before it answers.  Which tools are used is the engine's affair.*)
(* The log of a session is kept as what the judgment asks of it.           *)
(***************************************************************************)
EXTENDS Naturals, SequencesExt

CONSTANTS
  Call,              \* calls that can be in progress at once
  MaxRuns,           \* GATEWAY.maxRuns
  IdleRunLimit,      \* GATEWAY.idleRunLimit
  WindDownRunLimit,  \* GATEWAY.windDownRunLimit
  MaxSessions,       \* bound: no further session is opened
  MaxFaults          \* bound: broken lines, lost answers and failing engines

Sessions == 1..MaxSessions

\* Beside the calls of the engine, the adapter's report of its tokens.
Reporter == "reporter"
Slots == Call \cup {Reporter}

ASSUME AdapterConstants ==
  /\ MaxRuns \in Nat \ {0} /\ IdleRunLimit \in Nat \ {0} /\ WindDownRunLimit \in Nat \ {0}
  /\ MaxSessions \in Nat /\ MaxFaults \in Nat

VARIABLES
  count,      \* sessions opened so far; only the latest can be open
  open,       \* the latest session has not ended
  low,        \* sessions with no more budget than their reserve
  warned,     \* sessions that an end_warning was issued for
  queued,     \* end_warnings that wait for the line: their sessions, 0 for none
  calls,      \* what is in progress
  line,       \* the tunnel is up
  chain,      \* session loops to run, the first one running
  active,     \* activeSessionId, 0 for none
  requested,  \* windDownRequestedRef
  loop,       \* the variables of runSessionLoop
  log,        \* entries: what the judgment reads of them
  spent,      \* this loop has brought its session, not warned before, to the reserve
  faults      \* how many faults there have been

board == <<count, open, low>>
warnings == <<warned, queued>>
adapter == <<chain, active, requested, loop, log, spent>>
vars == <<board, warnings, calls, line, adapter, faults>>

-----------------------------------------------------------------------------
Tools == {"work", "set_goals", "complete_goal", "end_session"}

NoCall == [step |-> "idle", tool |-> "none", low |-> FALSE]
Calls ==
  [step : {"idle", "look", "send", "answer"},
   tool : Tools \cup {"none", "tokens"}, low : BOOLEAN]

\* runSessionLoop as it begins, and the log it begins with; asked counts the
\* prompts to wind down.
Fresh == [step |-> "ask", mode |-> "work", runs |-> 0, extra |-> 0, asked |-> 0]
Loops ==
  [step : {"ask", "run", "report", "wait", "judge"}, mode : {"work", "wind-down"},
   runs : 0..(MaxRuns + WindDownRunLimit), extra : 0..WindDownRunLimit,
   asked : 0..WindDownRunLimit]

Empty == [goals |-> "unset", low |-> FALSE, busy |-> FALSE, idle |-> 0, ended |-> FALSE]
Logs ==
  [goals : {"unset", "open", "done"}, low : BOOLEAN, busy : BOOLEAN,
   idle : 0..(MaxRuns + WindDownRunLimit), ended : BOOLEAN]

Running == IF chain = <<>> THEN 0 ELSE Head(chain)
At(step) == chain # <<>> /\ loop.step = step
Step(c, step) == calls' = [calls EXCEPT ![c].step = step]
Quiet == \A c \in Slots : calls[c] = NoCall
CanFail == faults < MaxFaults

Init ==
  /\ count = 0 /\ open = FALSE /\ low = {}
  /\ warned = {} /\ queued = <<>>
  /\ calls = [c \in Slots |-> NoCall]
  /\ line = TRUE
  /\ chain = <<>> /\ active = 0 /\ requested = FALSE /\ loop = Fresh /\ log = Empty
  /\ spent = FALSE
  /\ faults = 0

\* The open session, or a new one (existingOrInsertOpenSession).
EnsureOpen ==
  IF open THEN UNCHANGED count ELSE count < MaxSessions /\ count' = count + 1

\* What is charged to session s leaves it at its reserve, or not.
Charge(s, all) ==
  /\ low' = IF all THEN low \cup {s} ELSE low
  /\ spent' = (spent \/ (all /\ s = Running /\ s \notin low \cup warned))

-----------------------------------------------------------------------------
(* Ticks. *)

\* onTick, of a warning: heeded if it is for the session whose loop runs, or
\* for none in particular.
Warns(s) == chain # <<>> /\ s \in {0, Running}

\* onTick, of a start: that of the active session is ignored, the loop of any
\* other is chained, and begins if there is none.
Begin(s) ==
  IF s = active
  THEN UNCHANGED adapter
  ELSE /\ active' = s
       /\ chain' = Append(chain, s)
       /\ IF chain = <<>>
          THEN requested' = FALSE /\ loop' = Fresh /\ log' = Empty /\ spent' = FALSE
          ELSE UNCHANGED <<requested, loop, log, spent>>

\* sendTick of a session.start, over a line that holds.
Start ==
  /\ line
  /\ EnsureOpen
  /\ open' = TRUE
  /\ Begin(count')
  /\ UNCHANGED <<low, warnings, calls, line, faults>>

\* interruptStaleSessions, after an hour in which nothing was asked for.
Interrupt ==
  /\ open /\ Quiet
  /\ open' = FALSE
  /\ UNCHANGED <<count, low, warnings, calls, line, adapter, faults>>

Break ==
  /\ line /\ CanFail
  /\ line' = FALSE
  /\ faults' = faults + 1
  /\ UNCHANGED <<board, warnings, calls, adapter>>

\* flushMailbox after a reconnection: the warning of a session that has ended
\* is discarded, every other one is delivered.
Reconnect ==
  LET kept == {s \in ToSet(queued) : s = 0 \/ (s = count /\ open)} IN
  /\ ~line
  /\ line' = TRUE
  /\ queued' = <<>>
  /\ requested' = (requested \/ \E s \in kept : Warns(s))
  /\ UNCHANGED <<board, warned, calls, chain, active, loop, log, spent, faults>>

-----------------------------------------------------------------------------
(* A call, and the warning that may come of it. *)

\* A tool that is called succeeds.  What end_session takes of the reserve
\* concerns nobody any more.
Succeed(c, tool) ==
  /\ calls[c] = NoCall
  /\ EnsureOpen
  /\ \E all \in BOOLEAN :
       /\ all => tool # "end_session"
       /\ open' = (tool # "end_session")
       /\ Charge(count', all)
       /\ calls' = [calls EXCEPT ![c] =
            [step |-> "look", tool |-> tool, low |-> count' \in low']]
  /\ UNCHANGED <<warnings, line, chain, active, requested, loop, log, faults>>

\* The engine uses a tool.
Use(c) == At("run") /\ \E tool \in Tools : Succeed(c, tool)

\* A tool that the board refuses may have opened a session.
Refuse ==
  /\ ~open /\ EnsureOpen
  /\ open' = TRUE
  /\ UNCHANGED <<low, warnings, calls, line, adapter, faults>>

UseInVain == At("run") /\ Refuse

\* What a warning would be about: the session that was reported on or, after a
\* tool, the one that is open.
Concerned(c) ==
  IF calls[c].tool = "tokens" THEN Running ELSE IF open THEN count ELSE 0

\* Mutated form: the report of tokens does not look at what remains.
LookAfterTools(c) ==
  LET s == Concerned(c) IN
  /\ calls[c].step = "look"
  /\ Step(c, IF calls[c].tool # "tokens" /\ s \in low /\ line /\ s \notin warned
             THEN "send" ELSE "answer")
  /\ UNCHANGED <<board, warnings, line, adapter, faults>>

\* maybeSendEndWarning: the budget, the connection, an earlier warning.
Look(c) ==
  LET s == Concerned(c) IN
  /\ calls[c].step = "look"
  /\ Step(c, IF s \in low /\ line /\ s \notin warned THEN "send" ELSE "answer")
  /\ UNCHANGED <<board, warnings, line, adapter, faults>>

\* sendTick: for the session that is open by now, if any.
Send(c) ==
  LET s == IF open THEN count ELSE 0 IN
  /\ calls[c].step = "send"
  /\ warned' = warned \cup ({s} \ {0})
  /\ IF line
     THEN requested' = (requested \/ Warns(s)) /\ UNCHANGED queued
     ELSE queued' = Append(queued, s) /\ UNCHANGED requested
  /\ Step(c, "answer")
  /\ UNCHANGED <<board, line, chain, active, loop, log, spent, faults>>

\* The warning fails, and the tool that has succeeded is answered with an error.
SendFails(c) ==
  LET s == IF open THEN count ELSE 0 IN
  /\ calls[c].step = "send"
  /\ line /\ CanFail
  /\ faults' = faults + 1
  /\ warned' = warned \cup ({s} \ {0})
  /\ queued' = Append(queued, s)
  /\ calls' = [calls EXCEPT ![c] = NoCall]
  /\ loop' = IF calls[c].tool = "tokens" THEN [loop EXCEPT !.step = "judge"] ELSE loop
  /\ UNCHANGED <<board, line, chain, active, requested, log, spent>>

\* The log with the entry of a call.  Whether the judgment can read the goals and
\* what remains of the budget in it depends on how the engine passes results on.
GoalsWith(tool) ==
  {log.goals} \cup
    (CASE tool = "set_goals" -> {"open"}
       [] tool = "complete_goal" /\ log.goals = "open" -> {"done"}
       [] OTHER -> {})

LogWith(tool, goals, none) ==
  [log EXCEPT !.goals = goals, !.low = none, !.busy = TRUE, !.ended = @ \/ tool = "end_session"]

LogsWith(call) ==
  {LogWith(call.tool, goals, none) :
     goals \in GoalsWith(call.tool), none \in {log.low, call.low}}

\* The answer.
Answer(c) ==
  LET tool == calls[c].tool IN
  /\ calls[c].step = "answer"
  /\ calls' = [calls EXCEPT ![c] = NoCall]
  /\ CASE tool = "tokens" -> loop' = [loop EXCEPT !.step = "judge"] /\ UNCHANGED log
       [] tool = "none" -> UNCHANGED <<loop, log>>
       [] OTHER -> log' \in LogsWith(calls[c]) /\ UNCHANGED loop
  /\ UNCHANGED <<board, warnings, line, chain, active, requested, spent, faults>>

-----------------------------------------------------------------------------
(* runSessionLoop. *)

\* The session is over; the next of the chain begins, with a log of its own.
LoopOver ==
  /\ chain' = Tail(chain)
  /\ active' = IF active = Running THEN 0 ELSE active
  /\ requested' = FALSE
  /\ loop' = Fresh /\ log' = Empty /\ spent' = FALSE

\* The head of the loop: a run is asked for, with the prompt of its mode.
Ask ==
  /\ At("ask")
  /\ loop.runs < MaxRuns \/ loop.mode = "wind-down"
  /\ loop' = [loop EXCEPT !.step = "run", !.runs = @ + 1,
                       !.asked = IF loop.mode = "wind-down" THEN @ + 1 ELSE @]
  /\ log' = [log EXCEPT !.busy = FALSE]
  /\ UNCHANGED <<board, warnings, calls, line, chain, active, requested, spent, faults>>

\* plugin.run returns with a log.  A run that did nothing, or kept reading the
\* same thread, was idle.
Return(entries) ==
  /\ At("run")
  /\ \E idle \in BOOLEAN :
       /\ ~entries.busy => idle
       /\ log' = [entries EXCEPT !.idle = IF idle THEN @ + 1 ELSE 0]
  /\ loop' = [loop EXCEPT !.step = "report"]
  /\ UNCHANGED <<board, warnings, line, chain, active, requested, spent, faults>>

\* The run of an engine that waits for the answers to its calls.
RunEnds == Quiet /\ Return(log) /\ UNCHANGED calls

\* Mutated form: a report that is refused is repeated.
ReportUntilAccepted ==
  /\ At("report") /\ calls[Reporter] = NoCall
  /\ log.ended \/ (open /\ Running = count)
  /\ loop' = [loop EXCEPT !.step = "judge"]
  /\ UNCHANGED <<board, warnings, calls, line, chain, active, requested, log, spent, faults>>

\* The tokens are charged to the session of the loop, unless it has ended.
Report ==
  LET s == Running IN
  /\ At("report") /\ calls[Reporter] = NoCall
  /\ IF log.ended \/ ~open \/ s # count
     THEN /\ loop' = [loop EXCEPT !.step = "judge"]
          /\ UNCHANGED <<low, spent, calls>>
     ELSE /\ \E all \in BOOLEAN : Charge(s, all)
          /\ calls' = [calls EXCEPT ![Reporter] =
               [NoCall EXCEPT !.step = "look", !.tool = "tokens"]]
          /\ loop' = [loop EXCEPT !.step = "wait"]
  /\ UNCHANGED <<count, open, warnings, line, chain, active, requested, log, faults>>

\* judgeContinue, in the mode of work: the reasons to wind down.
WindsDown ==
  \/ requested
  \/ log.idle >= IdleRunLimit
  \/ log.goals = "done"
  \/ log.low
  \/ loop.runs >= MaxRuns

\* Mutated form: the run after which the mode changed counts as one of the
\* runs to wind down in.
JudgeHastily ==
  /\ At("judge")
  /\ LET extra == loop.extra + 1
         winding == loop.mode = "wind-down" \/ WindsDown IN
     IF log.ended \/ (winding /\ extra >= WindDownRunLimit)
     THEN LoopOver
     ELSE /\ loop' = [loop EXCEPT !.step = "ask",
                                  !.extra = IF winding THEN extra ELSE @,
                                  !.mode = IF winding THEN "wind-down" ELSE "work"]
          /\ UNCHANGED <<chain, active, requested, log, spent>>
  /\ UNCHANGED <<board, warnings, calls, line, faults>>

\* The end of an iteration.
Judge ==
  /\ At("judge")
  /\ LET extra == loop.extra + 1 IN
     IF log.ended \/ (loop.mode = "wind-down" /\ extra >= WindDownRunLimit)
     THEN LoopOver
     ELSE /\ loop' = [loop EXCEPT !.step = "ask",
                                  !.extra = IF loop.mode = "wind-down" THEN extra ELSE @,
                                  !.mode = IF @ = "wind-down" \/ WindsDown THEN "wind-down"
                                                                           ELSE "work"]
          /\ UNCHANGED <<chain, active, requested, log, spent>>
  /\ UNCHANGED <<board, warnings, calls, line, faults>>

\* The engine cannot be started, or its run throws: the loop is over; the
\* board still serves what it was asked for.
EngineFails ==
  /\ At("ask") \/ At("run")
  /\ CanFail
  /\ faults' = faults + 1
  /\ LoopOver
  /\ calls' = [c \in Slots |->
       IF calls[c] = NoCall THEN NoCall ELSE [calls[c] EXCEPT !.tool = "none"]]
  /\ UNCHANGED <<board, warnings, line>>

-----------------------------------------------------------------------------
Serve(c) == Look(c) \/ Send(c) \/ Answer(c)

Next ==
  \/ Start \/ Interrupt \/ Break \/ Reconnect
  \/ UseInVain \/ Ask \/ RunEnds \/ Report \/ Judge \/ EngineFails
  \/ \E c \in Call : Use(c)
  \/ \E c \in Slots : Serve(c) \/ SendFails(c)

Spec == Init /\ [][Next]_vars

-----------------------------------------------------------------------------
(* Properties. *)

\* Every variable has its type.
TypeOK ==
  /\ count \in 0..MaxSessions /\ open \in BOOLEAN
  /\ low \subseteq Sessions /\ spent \in BOOLEAN
  /\ warned \subseteq Sessions /\ queued \in Seq(0..MaxSessions)
  /\ calls \in [Slots -> Calls]
  /\ line \in BOOLEAN /\ requested \in BOOLEAN
  /\ chain \in Seq(Sessions) /\ active \in 0..MaxSessions
  /\ loop \in Loops /\ log \in Logs
  /\ faults \in 0..MaxFaults

\* A loop in which nothing was thrown is over only when the session was ended,
\* or the engine has been asked to wind down as often as it may be: no limit on
\* runs cuts an agent off before it could hand over (the extra runs of
\* windDownRunLimit).
NotCutOff ==
  [][Len(chain') < Len(chain) /\ faults' = faults =>
       log.ended \/ loop.asked = WindDownRunLimit]_vars

\* Every session loop comes to an end, and with it the next of the chain to its
\* turn, if the engine's runs do.
LoopEnds == loop # Fresh ~> loop = Fresh

\* A warning is issued only for a session whose budget is at the reserve
\* (docs/design/02-agent-connection.md, session.end_warning).
WarnedIsSpent == warned \subseteq low
=============================================================================
