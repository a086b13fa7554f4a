----------------------------- MODULE AgentSession -----------------------------
(***************************************************************************)
(* The sessions of one agent and the budget they carry: how a session is   *)
(* opened, digested by a briefing, charged for tool calls and tokens,      *)
(* interrupted when the agent falls silent, and ended with a handover      *)
(* (packages/board/src/domain/sessions.ts and activity.ts, driven by       *)
(* mcp/create-server.ts and http/app.ts).                                  *)
(*                                                                         *)
(* A tool call is a sequence of statements on the database, each of them a *)
(* transaction of its own: what one statement read another call may have   *)
(* changed before the next statement writes.  Each such stretch is one     *)
(* action here; what a call has read is kept in calls.  An engine calls    *)
(* tools in parallel, the adapter reports tokens meanwhile, and the board  *)
(* interrupts silent sessions from its own loop.                           *)
(***************************************************************************)
EXTENDS Integers

CONSTANTS
  Call,          \* requests the server can be serving at the same time
  Loop,          \* interruptStaleSessions in the 15 s loop
  WorkTool,      \* tools other than get_briefing and end_session
  ToolCost,      \* getToolCost of each of WorkTool and of end_session
  Limit,         \* DEFAULT_SESSION_BUDGET
  Reserve,       \* WIND_DOWN_RESERVE
  Tokens,        \* the counts of tokens an adapter may report
  None,          \* a null column
  MaxSessions,   \* bound: no further session is opened
  MaxWork,       \* bound: the work of a session is counted up to here
  MaxCrashes     \* bound: how often the server process dies

Slots == Call \cup {Loop}
Ids == 1..MaxSessions
Tools == WorkTool \cup {"get_briefing", "end_session"}

ASSUME SessionConstants ==
  /\ Loop \notin Call
  /\ WorkTool \cap {"get_briefing", "end_session", "session.start", "token_usage"} = {}
  /\ ToolCost \in [WorkTool \cup {"end_session"} -> Nat]
  /\ Limit \in Nat /\ Reserve \in Nat /\ Reserve <= Limit
  /\ Tokens \subseteq Nat \ {0}
  /\ None \notin Nat
  /\ None \notin {"completed", "interrupted"}
  /\ MaxSessions \in Nat /\ MaxWork \in Nat /\ MaxCrashes \in Nat

VARIABLES
  count,     \* how many sessions were ever opened; session n is the n-th
  endedAt,   \* sessions.ended_at, as the number of the ending; 0 for null
  reason,    \* sessions.ended_reason
  digested,  \* sessions.briefing_at is set
  stale,     \* no activity of the session for an hour (sessionTimeoutMs)
  endings,   \* how many endings there have been
  used,      \* sessions.budget_used
  winding,   \* an end_session was charged to the session (budget_spent event)
  work,      \* what the tools that succeeded and the tokens came to
  handed,    \* the session has a row in handovers
  told,      \* the session whose handover the last briefing gave, 0 for none
  calls,     \* what each request has read and not yet written
  crashes,   \* how often the server has died
  miscounted, \* history: the budget of the session was written from an old row, or
              \* given back more than the failed call was charged
  overrun    \* history: a session was ended again after a later one had ended

lifecycle == <<count, endedAt, reason, digested, stale, endings>>
budget == <<used, winding, work>>
memory == <<handed, told>>
history == <<miscounted, overrun>>
vars == <<lifecycle, budget, memory, calls, crashes, history>>

-----------------------------------------------------------------------------
Idle == [step |-> "idle", tool |-> "none", sid |-> 0, again |-> FALSE,
         tokens |-> 0, seen |-> 0, amount |-> 0]

Steps ==
  {"idle", "find", "insert", "refind", "digest", "recall", "check", "charge",
   "act", "refund", "restore", "close", "hand over", "interrupt"}

Calls ==
  [step : Steps,
   tool : Tools \cup {"session.start", "token_usage", "none"},
   sid : Nat, again : BOOLEAN, tokens : Nat, seen : Nat, amount : Nat]

Free(r) == calls[r].step = "idle"
Become(r, call) == calls' = [calls EXCEPT ![r] = call]
Goto(r, step) == Become(r, [calls[r] EXCEPT !.step = step])
Finish(r) == Become(r, Idle)
At(r, step) == calls[r].step = step

Open == {s \in 1..count : endedAt[s] = 0}

CostOf(tool) == IF tool = "get_briefing" THEN 0 ELSE ToolCost[tool]
Least(m, n) == IF m < n THEN m ELSE n
Remaining(s) == Limit - used[s]
Usable(s) == Remaining(s) - Reserve

Counted(n) == Least(n, MaxWork)

Ended == {s \in Ids : endedAt[s] # 0}

\* Session e is the one of S that ended last (order by ended_at desc).
Latest(e, S) == e \in S /\ \A f \in S : endedAt[f] <= endedAt[e]

\* ended_at and ended_reason of session s are written, now.
EndSession(s, why) ==
  /\ endings' = endings + 1
  /\ endedAt' = [endedAt EXCEPT ![s] = endings + 1]
  /\ reason' = [reason EXCEPT ![s] = why]

Init ==
  /\ count = 0
  /\ endedAt = [s \in Ids |-> 0]
  /\ reason = [s \in Ids |-> None]
  /\ digested = [s \in Ids |-> FALSE]
  /\ stale = [s \in Ids |-> FALSE]
  /\ endings = 0
  /\ used = [s \in Ids |-> 0]
  /\ winding = [s \in Ids |-> FALSE]
  /\ work = [s \in Ids |-> 0]
  /\ handed = [s \in Ids |-> FALSE]
  /\ told = [s \in Ids |-> None]
  /\ calls = [r \in Slots |-> Idle]
  /\ crashes = 0
  /\ miscounted = [s \in Ids |-> FALSE]
  /\ overrun = FALSE

-----------------------------------------------------------------------------
(* Requests. *)

\* POST /v1/tools/:name; every call looks its session up anew.
Request(r, tool) ==
  /\ Free(r)
  /\ Become(r, [Idle EXCEPT !.step = "find", !.tool = tool])
  /\ UNCHANGED <<lifecycle, budget, memory, crashes, history>>

\* prepareSessionStart, on behalf of a session.start tick; it looks up once.
StartSession(r) ==
  /\ Free(r)
  /\ Become(r, [Idle EXCEPT !.step = "find", !.tool = "session.start", !.again = TRUE])
  /\ UNCHANGED <<lifecycle, budget, memory, crashes, history>>

\* POST /v1/sessions/:id/token-usage; the adapter names the session.
ReportTokens(r, s, n) ==
  /\ Free(r)
  /\ s \in 1..count
  /\ Become(r, [Idle EXCEPT !.step = "check", !.tool = "token_usage",
                            !.sid = s, !.tokens = n])
  /\ UNCHANGED <<lifecycle, budget, memory, crashes, history>>

-----------------------------------------------------------------------------
(* existingOrInsertOpenSession: find, else insert, else find again. *)

\* Where a call goes with the session it found or opened.  get_briefing looks
\* the session up a second time, in getBriefing, after callTool has.
Proceed(r, s) ==
  CASE calls[r].tool = "session.start" -> Idle
    [] calls[r].tool = "get_briefing" /\ ~calls[r].again ->
         [calls[r] EXCEPT !.step = "find", !.again = TRUE]
    [] calls[r].tool = "get_briefing" /\ calls[r].again ->
         [calls[r] EXCEPT !.step = "digest", !.sid = s]
    [] OTHER -> [calls[r] EXCEPT !.step = "check", !.sid = s]

FindSession(r) ==
  /\ At(r, "find")
  /\ IF Open = {} THEN Goto(r, "insert")
                  ELSE \E s \in Open : Become(r, Proceed(r, s))
  /\ UNCHANGED <<lifecycle, budget, memory, crashes, history>>

\* insertOpenSession; the index sessions_one_open_per_participant refuses it
\* when another request has opened a session since.
InsertSession(r) ==
  /\ At(r, "insert")
  /\ IF Open = {}
     THEN /\ count < MaxSessions
          /\ count' = count + 1
          /\ Become(r, Proceed(r, count + 1))
     ELSE /\ Goto(r, "refind")
          /\ UNCHANGED count
  /\ UNCHANGED <<endedAt, reason, digested, stale, endings, budget, memory, crashes, history>>

\* After the violation: the session is there, or has ended meanwhile and the
\* error is raised; callTool swallows the first such error of a tool call.
RefindSession(r) ==
  /\ At(r, "refind")
  /\ \/ \E s \in Open : Become(r, Proceed(r, s))
     \/ Open = {} /\ ~calls[r].again
          /\ Become(r, [calls[r] EXCEPT !.step = "find", !.again = TRUE])
     \/ Open = {} /\ calls[r].again /\ Finish(r)
  /\ UNCHANGED <<lifecycle, budget, memory, crashes, history>>

-----------------------------------------------------------------------------
(* getBriefing. *)

\* markSessionDigested, in a transaction: set once, whether or not the session
\* has ended meanwhile.  Its event counts as activity.
Digest(r) ==
  LET s == calls[r].sid IN
  /\ At(r, "digest")
  /\ digested' = [digested EXCEPT ![s] = TRUE]
  /\ stale' = IF digested[s] THEN stale ELSE [stale EXCEPT ![s] = FALSE]
  /\ Goto(r, "recall")
  /\ UNCHANGED <<count, endedAt, reason, endings, budget, memory, crashes, history>>

\* Mutated form: an interrupted session is passed over.
TellsDespiteInterruption(s, n) ==
  LET left == {e \in Ended \ {s} : handed[e]} IN
  IF left = {} THEN n = 0 ELSE Latest(n, left)

\* wasLatestPreviousSessionInterrupted, else getLatestPreviousHandover: the
\* briefing of session s tells the handover of session n, the latest that left
\* one, unless the latest session was interrupted.
Tells(s, n) ==
  LET earlier == Ended \ {s}
      left == {e \in earlier : handed[e]}
  IN IF left = {} \/ \E e \in Ids : Latest(e, earlier) /\ reason[e] = "interrupted"
     THEN n = 0 ELSE Latest(n, left)

Recall(r) ==
  LET s == calls[r].sid IN
  /\ At(r, "recall")
  /\ \E n \in 0..MaxSessions : Tells(s, n) /\ told' = [told EXCEPT ![s] = n]
  /\ Goto(r, "check")
  /\ UNCHANGED <<lifecycle, budget, handed, crashes, history>>

-----------------------------------------------------------------------------
(* spend, addTokenUsage and refundSpend: read the row, then write the sum.  *)

\* What the call is charged on the row of session s.
Charge(call, s) ==
  CASE call.tool = "token_usage" ->
         IF Usable(s) <= 0 THEN 0 ELSE Least(call.tokens, Usable(s))
    [] call.tool = "end_session" -> Least(CostOf("end_session"), Remaining(s))
    [] OTHER -> CostOf(call.tool)

\* Mutated form: the last charge may reach into the reserve.
OverBudgetAtReserve(tool, s) ==
  tool \in WorkTool \cup {"get_briefing"} /\ Remaining(s) <= Reserve

\* Ordinary tools stop at the reserve; end_session and reports do not.
OverBudget(tool, s) ==
  /\ tool \in WorkTool \cup {"get_briefing"}
  /\ Remaining(s) <= Reserve \/ CostOf(tool) > Usable(s)

\* Where a call stands once it is paid for: a report and a briefing are over.
Paid(call) ==
  IF call.tool \in {"token_usage", "get_briefing"} THEN Idle
  ELSE [call EXCEPT !.step = "act"]

CheckBudget(r) ==
  LET call == calls[r]
      s == call.sid
  IN
  /\ At(r, "check")
  /\ Become(r,
       IF endedAt[s] # 0 \/ OverBudget(call.tool, s) THEN Idle
       ELSE IF Charge(call, s) = 0 THEN Paid(call)
       ELSE [call EXCEPT !.step = "charge", !.seen = used[s], !.amount = Charge(call, s)])
  /\ UNCHANGED <<lifecycle, budget, memory, crashes, history>>

\* The new sum, unconditionally, and the budget_spent event.
WriteCharge(r) ==
  LET call == calls[r]
      s == call.sid
  IN
  /\ At(r, "charge")
  /\ used' = [used EXCEPT ![s] = call.seen + call.amount]
  /\ winding' = [winding EXCEPT ![s] = @ \/ call.tool = "end_session"]
  /\ work' = IF call.tool = "token_usage"
             THEN [work EXCEPT ![s] = Counted(@ + call.amount)] ELSE work
  /\ stale' = [stale EXCEPT ![s] = FALSE]
  /\ Become(r, Paid(call))
  /\ miscounted' = [miscounted EXCEPT ![s] = @ \/ used[s] # call.seen]
  /\ UNCHANGED <<count, endedAt, reason, digested, endings, memory, crashes, overrun>>

\* A domain error was raised after the charge: refundSpend.
Undo(r) == IF CostOf(calls[r].tool) = 0 THEN Finish(r) ELSE Goto(r, "refund")

\* Mutated form: the refund is made on every way out of the tool.
SucceedAndUndo(r) ==
  LET call == calls[r] IN
  /\ At(r, "act")
  /\ call.tool \in WorkTool
  /\ work' = [work EXCEPT ![call.sid] = Counted(@ + CostOf(call.tool))]
  /\ Undo(r)
  /\ UNCHANGED <<lifecycle, used, winding, memory, crashes, history>>

\* The handler of an ordinary tool did what it was called for.
Succeed(r) ==
  LET call == calls[r] IN
  /\ At(r, "act")
  /\ call.tool \in WorkTool
  /\ work' = [work EXCEPT ![call.sid] = Counted(@ + CostOf(call.tool))]
  /\ Finish(r)
  /\ UNCHANGED <<lifecycle, used, winding, memory, crashes, history>>

\* The handler of an ordinary tool, or endSession for want of the summaries of
\* its projects, raised a domain error: the charge is undone.
FailWithDomainError(r) ==
  /\ At(r, "act")
  /\ Undo(r)
  /\ UNCHANGED <<lifecycle, budget, memory, crashes, history>>

\* Any other error is answered with status 500 and nothing is undone.
FailUnexpectedly(r) ==
  /\ At(r, "act")
  /\ Finish(r)
  /\ UNCHANGED <<lifecycle, budget, memory, crashes, history>>

ReadRefund(r) ==
  /\ At(r, "refund")
  /\ Become(r, [calls[r] EXCEPT !.step = "restore", !.seen = used[calls[r].sid]])
  /\ UNCHANGED <<lifecycle, budget, memory, crashes, history>>

\* The full cost of the tool, whatever was charged; ended sessions included.
WriteRefund(r) ==
  LET call == calls[r]
      cost == CostOf(call.tool)
  IN
  /\ At(r, "restore")
  /\ used' = [used EXCEPT ![call.sid] =
                IF call.seen > cost THEN call.seen - cost ELSE 0]
  /\ Finish(r)
  /\ miscounted' = [miscounted EXCEPT ![call.sid] =
                      @ \/ used[call.sid] # call.seen \/ call.amount < cost]
  /\ UNCHANGED <<lifecycle, winding, work, memory, crashes, overrun>>

-----------------------------------------------------------------------------
(* endSession: three statements, no transaction. *)

CheckEnd(r) ==
  /\ At(r, "act")
  /\ calls[r].tool = "end_session"
  /\ IF endedAt[calls[r].sid] = 0 THEN Goto(r, "close") ELSE Undo(r)
  /\ UNCHANGED <<lifecycle, budget, memory, crashes, history>>

\* The update has no condition: a session interrupted since is completed.
CloseSession(r) ==
  LET s == calls[r].sid IN
  /\ At(r, "close")
  /\ EndSession(s, "completed")
  /\ Goto(r, "hand over")
  /\ overrun' = (overrun \/ \E f \in Ids : f > s /\ endedAt[f] # 0)
  /\ UNCHANGED <<count, digested, stale, budget, memory, crashes, miscounted>>

HandOver(r) ==
  /\ At(r, "hand over")
  /\ handed' = [handed EXCEPT ![calls[r].sid] = TRUE]
  /\ Finish(r)
  /\ UNCHANGED <<lifecycle, budget, told, crashes, history>>

-----------------------------------------------------------------------------
(* interruptStaleSessions, of every round of the loop. *)

\* Mutated form: only sessions that had no briefing are looked at.
ReadStaleUndigested ==
  /\ Free(Loop)
  /\ \E s \in Open :
       /\ ~digested[s] /\ stale[s]
       /\ Become(Loop, [Idle EXCEPT !.step = "interrupt", !.sid = s])
  /\ UNCHANGED <<lifecycle, budget, memory, crashes, history>>

\* Mutated form: the update has no condition.
InterruptUnconditionally ==
  LET s == calls[Loop].sid IN
  /\ At(Loop, "interrupt")
  /\ EndSession(s, "interrupted")
  /\ Finish(Loop)
  /\ UNCHANGED <<count, digested, stale, budget, memory, crashes, history>>

ReadStale ==
  /\ Free(Loop)
  /\ \E s \in Open :
       /\ digested[s] /\ stale[s]
       /\ Become(Loop, [Idle EXCEPT !.step = "interrupt", !.sid = s])
  /\ UNCHANGED <<lifecycle, budget, memory, crashes, history>>

\* Conditional on the session being open still; its activity is not looked at
\* again.
InterruptSession ==
  LET s == calls[Loop].sid IN
  /\ At(Loop, "interrupt")
  /\ IF endedAt[s] = 0 THEN EndSession(s, "interrupted")
                       ELSE UNCHANGED <<endedAt, reason, endings>>
  /\ Finish(Loop)
  /\ UNCHANGED <<count, digested, stale, budget, memory, crashes, history>>

\* An hour passes without an event of the session.  Requests take seconds:
\* none lasts through that hour.
FallSilent(s) ==
  /\ s \in Open
  /\ ~stale[s]
  /\ \A r \in Slots : calls[r].step = "idle"
  /\ stale' = [stale EXCEPT ![s] = TRUE]
  /\ UNCHANGED <<count, endedAt, reason, digested, endings, budget, memory, calls, crashes, history>>

\* The server dies: what its requests had read is lost, what they wrote stays.
Crash ==
  /\ crashes < MaxCrashes
  /\ crashes' = crashes + 1
  /\ calls' = [r \in Slots |-> Idle]
  /\ UNCHANGED <<lifecycle, budget, memory, history>>

-----------------------------------------------------------------------------
Requests ==
  \E r \in Call :
    \/ \E tool \in Tools : Request(r, tool)
    \/ StartSession(r)
    \/ \E s \in Ids, n \in Tokens : ReportTokens(r, s, n)

\* What the server does of a request it has accepted.
Serve(r) ==
  \/ FindSession(r) \/ InsertSession(r) \/ RefindSession(r)
  \/ Digest(r) \/ Recall(r)
  \/ CheckBudget(r) \/ WriteCharge(r)
  \/ Succeed(r) \/ FailWithDomainError(r) \/ FailUnexpectedly(r)
  \/ ReadRefund(r) \/ WriteRefund(r)
  \/ CheckEnd(r) \/ CloseSession(r) \/ HandOver(r)

Next ==
  \/ Requests
  \/ \E r \in Call : Serve(r)
  \/ ReadStale
  \/ InterruptSession
  \/ \E s \in Ids : FallSilent(s)
  \/ Crash

Spec == Init /\ [][Next]_vars

\* The loop comes round every 15 s; no agent is obliged to call anything, and a
\* request may hang.
FairSpec == Spec /\ WF_vars(ReadStale) /\ WF_vars(InterruptSession)

-----------------------------------------------------------------------------
(* What holds however the requests overlap, and after a crash. *)

TypeOK ==
  /\ count \in 0..MaxSessions
  /\ endedAt \in [Ids -> Nat]
  /\ reason \in [Ids -> {None, "completed", "interrupted"}]
  /\ digested \in [Ids -> BOOLEAN]
  /\ stale \in [Ids -> BOOLEAN]
  /\ endings \in Nat
  /\ used \in [Ids -> 0..Limit]
  /\ winding \in [Ids -> BOOLEAN]
  /\ work \in [Ids -> 0..MaxWork]
  /\ handed \in [Ids -> BOOLEAN]
  /\ told \in [Ids -> 0..MaxSessions \cup {None}]
  /\ calls \in [Slots -> Calls]
  /\ crashes \in 0..MaxCrashes
  /\ miscounted \in [Ids -> BOOLEAN]
  /\ overrun \in BOOLEAN

\* The reserve is there for end_session: whatever was charged concurrently,
\* tools and token reports alone never bring a session below it
\* (05-sessions-and-memory.md: enough is left to write the handover).
ReserveIsKept ==
  \A s \in Ids : ~winding[s] => Remaining(s) >= Reserve

\* A handover once written is never hidden by an interruption: its session
\* counts as completed, so that the next briefing tells it.
HandoverMeansCompleted ==
  \A s \in Ids : handed[s] => reason[s] = "completed"

\* A session whose agent has fallen silent does not stay open for ever: the
\* loop interrupts it, or the agent is heard of again.
Abandoned == \E s \in Open : digested[s] /\ stale[s]
AbandonedSessionEnds == Abandoned ~> ~Abandoned

\* The budget accounts for all the work that was done, however charges, reports and
\* refunds of parallel calls overlap, unless one of them was written from a row that
\* had changed since it was read, or a refund gave back more than had been charged
\* (activity.ts has neither a lock nor an increment, and refunds the cost of the tool).
WorkIsAccounted == \A s \in Ids : ~miscounted[s] => work[s] <= used[s]

HandingOver(s) == \E r \in Call : At(r, "hand over") /\ calls[r].sid = s

\* The briefing of an open session tells the handover of the session just before, and
\* nothing when that was interrupted; a completed one it passes over only when a crash
\* lost the handover or this is about to be written.  That holds however requests, the
\* loop and crashes interleave, until a session is ended again after a later one
\* (docs/05-sessions-and-memory.md: the next session first reads the handover just
\* before it).
BriefingTellsDayBefore ==
  [][\A r \in Call : LET s == calls[r].sid IN
       Recall(r) /\ endedAt[s] = 0 /\ s > 1 /\ ~overrun =>
         /\ handed[s - 1] => told'[s] = s - 1
         /\ reason[s - 1] = "interrupted" => told'[s] = 0
         /\ reason[s - 1] = "completed" =>
              told'[s] = s - 1 \/ crashes > 0 \/ HandingOver(s - 1)]_vars

-----------------------------------------------------------------------------
(* What the documents say and the code does not do. *)

\* The activity of a session has an upper bound: the tools that succeeded and
\* the tokens charged come to no more than the budget.
ActivityIsBounded == \A s \in Ids : work[s] <= Limit

\* A briefing tells the handover of the session just before, when that session
\* was completed (which it cannot be without a handover).
ToldTheDayBefore ==
  \A s \in Ids : s > 1 /\ told[s] # None /\ reason[s - 1] = "completed" =>
    told[s] = s - 1
=============================================================================
