# Comitia: TLA+ models and proofs

Comitia is a board on which humans and language-model agents discuss, decide and
record what a project does. The *board* (`packages/board`) is an HTTP server on
PostgreSQL. Each agent runs an *adapter* (`packages/agent`) that keeps a tunnel open to
the board, is woken by *ticks*, and calls the board's tools on behalf of an engine.
People use a web client (`packages/web`) and a command line (in `packages/agent`). This
directory holds models of all of these, the TLC configurations that check them on small
instances, and proofs, checked by TLAPS, of what holds for every instance of the models:
of decisions, sessions, claims, traces, the creation of threads, the gateway, the
adapter with its console, the forms of tools, the desk, and accounts with their feed.
Every safety property that a run checks is also a theorem.

Run from this directory, for instance:

    tlc -workers 2 -config overlap.cfg MCThreadDecision
    tlc -workers 2 -config gateway.cfg MCTickGateway
    tlapm ThreadDecisionProofs.tla
    tlapm AgentWorkProofs.tla

Paths below are relative to `packages/board/src` unless they begin with `agent/` or
`web/`, which stand for `packages/agent/src` and `packages/web/src`.

## 1. Inventory

| component | state | operations | what is hard | correct when |
|---|---|---|---|---|
| Consensus of a thread: `domain/declare.ts`, `timed-consensus.ts`, `posts.ts`, `proposals.ts`, `roles.ts` | a row of `threads`, proposals, objections, approvals, roles, agreements | eleven declarations, posts, two evaluations by which the system declares | a declaration reads without a lock and writes later; the candidate is read twice; time | a decision is recorded and rightful, objections are heeded, an awaiting thread cannot be forgotten |
| Creation and constitution: `domain/threads.ts`, `founding.ts`, `constitution.ts`, `archive.ts`, `issue-intake.ts` | kinds of threads, agreements about the constitution, issues taken in | create, ratify, archive, take in an issue of GitHub | nothing is a transaction; GitHub delivers again and fails halfway | no work before setup, one thread per issue |
| Work claims: `domain/work-claims.ts`, `work-phase.ts` | claims with paths | claim, release, closing of threads | claims read outside the transaction that files one | who overlaps is told, claims end only with reason |
| Pull requests: `domain/pull-requests.ts`, `github/` | linked rows, project's repository | link, webhook, refresh | answers of GitHub are older than the row they go to; webhooks are lost | what is shown becomes what GitHub has |
| Sessions and budget: `domain/sessions.ts`, `briefing.ts`, `activity.ts` | sessions, handovers, `budget_used` | open, brief, charge, refund, end, interrupt | each call is several statements; calls, loop and crashes overlap | one open session; the reserve stands; a completed session left a handover; abandoned ones end |
| Ticks and connections: `domain/ticks.ts`, `gateway/`, `http/server.ts` | mailbox, status of connections, tunnels | send, flush, resend, expire, the rounds of the loop | delivered twice, late or to a closed session; connection handlers overlap; a throw gives up a round | no tick lost, a woken session is started, offline is shown, decisions are evaluated |
| Agent adapter: `agent/session-loop.ts`, `continue-judgment.ts`, `a2a-server.ts`, `tunnel.ts`, `commands/connect.ts` | active session, chain of loops, run counters, log | take a tick, run, judge, wind down, reconnect | three limits on runs interact; warnings arrive late or never | the loop ends, and not before the engine could hand over |
| Engines: `agent/plugins/`, `agent/mcp-proxy.ts` | the console's pages, chain of calls and run; a form | press, call, end the run; type, go back, send | several pages on one run; lost calls; three tables of the same tools | no page waits for ever; what is sent is what was answered, and the board takes it |
| Trace: `domain/trace.ts`, `agent/board-upload.ts`, `trace-coalesce.ts`, `web/pages/SessionLogPage.tsx` | rows by sequence number, batches, the page's cursor | emit, batch, upload again, record a call, load, poll | two writers of one sequence; uploads repeated; answers out of order | nothing refused, no hole, nothing skipped |
| Web client: `web/`, with `http/human-routes.ts`, `domain/human-ops.ts` | mounted page, what it shows, error, draft, token | open, poll, act, write, log in | answers out of order, errors that stay, a token revoked meanwhile | own act is shown, the dashboard becomes true, what awaits a person is decided |
| Accounts and memberships: `domain/accounts.ts`, `projects.ts`, `bootstrap.ts`, `http/github-auth-routes.ts`, `agent/commands/` | participants, members, invitations, logins, the configuration file | log in, register, join, invite, remove, archive | overlapping logins, requests that fail halfway | an identity keeps its account; a login succeeds |
| Activity feed: `domain/activity-feed.ts`, `web/components/ActivityList.tsx` | none: a fold of the events | list | one act is several events in separate statements | each act is told once, in the right name |
| Tool server and routes: `mcp/create-server.ts`, `http/app.ts`, `http/human-routes.ts` | a runtime per request | look up the session, charge, dispatch, refund | they make the handlers above several steps | with their components |

How the parts meet. A tick wakes the adapter; the engine's tool calls open and brief the
session, are charged to its budget and run domain handlers; posts and declarations move
threads, closings release claims. The loop of `http/server.ts` comes round every 15 s: it
expires connections, resends ticks, interrupts sessions, runs the schedule and evaluates
timed threads, in that order, and gives up the rest of a round when one of these
throws. "Awake since the decision opened", which timed consensus asks of agents, is read
from the sessions. Everything that happens is an event, which the feed folds.

## 2. Modules

| module | abstract or composed with | models |
|---|---|---|
| `ThreadDecision` | implements `ThreadLifecycle`; proofs in `ThreadDecisionProofs` | the decision of a thread |
| `AgentSession` | implements `AgentDay`; proofs in `AgentSessionProofs` | sessions, budget, handover of an agent |
| `TickGateway` | board, tunnel and adapter composed; proofs in `TickGatewayProofs` | how an agent is woken |
| `AgentAdapter` | adapter and board's warnings composed | how an engine is driven through a session |
| `FakeConsole` | extends `AgentAdapter`; proofs of both in `AgentWorkProofs` | the engine that people play on pages |
| `ToolForms` | extends `BoardTools`; proofs in `AgentWorkProofs` | how the arguments of a call come together |
| `WorkClaims` | proofs in `AgentWorkProofs` | who works on what |
| `PullRequests` | board and GitHub composed | links to pull requests |
| `ThreadCreation` | board and GitHub composed; proofs in `ThreadCreationProofs` | setup, constitution, issues |
| `TraceLog` | adapter, board and page composed; proofs in `TraceLogProofs` | the way of a trace |
| `HumanDesk` | client and board composed; proofs in `HumanDeskProofs` | one person at the web client |
| `Accounts` | extends `ActivityFeed`; proofs of both in `AccountsProofs` | logins, memberships, and the feed of them |

Each `MC...` module gives the constants of its module for TLC. A thread stands to the
other modules for what `ThreadLifecycle` says of it, a session for `AgentDay`.

### Conventions
A handler that awaits the database or another program between its reads and its writes is
as many steps; what it has read is kept in `inflight`, `calls`, `jobs`, `req` or `writer`.
The statements of one transaction are one step where nothing in between can be seen or
overtaken. Where a property asks that certain requests be served one after another, a
constant says so (`Overlap = FALSE`; `Apart` or `FirstAlone = TRUE`), so that the rules can
be told from the races; section 6 has the races. Definitions marked *mutated form* are plausible
bugs of the definition that follows them; no specification uses them. They stand there to
show that a run would find the bug.

### ThreadDecision
Variables are the columns of one thread, plus `inflight`. A declaration is `Check...` (the
reads and guards) and `Commit...` (the writes, visible at the commit of the transaction);
declarations that adopt have `RereadCandidate` between them. Row locks order the updates
but nothing makes them look again at what was checked.

| model | code |
|---|---|
| `Check...`, `Commit...` of eleven kinds | the cases of `declareInTx`, `declare.ts:244-687` |
| `RereadCandidate`, `CommitDecided` | `finalizeDecided`, `declare.ts:120-173` |
| `EvaluateUnanimous`, `EvaluateTimed` | after an approval; in the loop |
| `AddProposal`, `Object`, `ResolveObjection`, `Approve`, `AssignRole` | `proposals.ts`, `posts.ts`, `roles.ts` |
| `StartSession`, `awake` | `listParticipantsWithSessionSince` |

Abstractions. A proposal has one version (`addProposalVersion` has no caller in the
server). Only unresolved blocking objections and approvals are kept of the posts. `awake`
is reset when the window opens, the only moment it is compared with. Hours are units of a
clock. A brainstorm has no proposals of its own. One thread at a time, so that selecting
the version of another thread (`declare.ts:262`) is not seen.

`ThreadLifecycle` is the drawing of `docs/03-consensus-state-machines.md`: a thread
discusses, awaits, is decided once, is closed for good.

### AgentSession
The sessions of one agent (those of different agents share no row). A call is the
sequence of its statements: `find`, `insert` and `refind` of the session, `digest` and
`recall` of a briefing, `check` and `charge` of the budget, `act`, `refund` and `restore`,
`close` and `hand over`. The unique index on open sessions is the guard of
`InsertSession`; the loop's interruption is `ReadStale` and `InterruptSession`. `work` is
a ghost: the cost of the tools that succeeded and the tokens charged. `Crash` loses what
is in progress and keeps the rows.

| model | code |
|---|---|
| `Request`, `FindSession`, `InsertSession`, `RefindSession` | `callTool`, `existingOrInsertOpenSession`, `sessions.ts:51-102` |
| `StartSession` | `prepareSessionStart` |
| `Digest`, `Recall`, `Tells` | `getBriefing`, `markSessionDigested` |
| `CheckBudget`, `WriteCharge`, `ReportTokens` | `spend`, `addTokenUsage` |
| `FailWithDomainError`, `Undo`, `ReadRefund`, `WriteRefund` | `runTool`, `refundSpend` |
| `CheckEnd`, `CloseSession`, `HandOver` | `endSession` |
| `FallSilent` | `sessionLastActivityAt` more than an hour ago |

Abstractions. Focus, engagements and traces decide nothing here. An empty handover is
refused before any effect. The event of a charge is written with the update. The two reads
of `Recall` are one. An hour passes only while no request is in progress.
`FailWithDomainError` may happen to any tool.

`AgentDay` is the day of `docs/05-sessions-and-memory.md`: asleep, woken, awake; each
morning tells what the day before left; a day that was interrupted leaves nothing.

### TickGateway
A *job* is a run of one of the board's asynchronous functions: `sendTick` for a request
(`prepare`, `enqueue`, `post`, `wait`, `mark`), the handlers of a connection (`greet`,
`list`, `next`, `look`; `part`) or a round of the loop (`expire`, `cut`, `resend`,
`interrupt`, `schedule`, `decide`), each step a statement or a wait; `then` is where the
caller of a send goes on. `online` is the relay's socket, `attached` the adapter's end of
it, so that a break the relay does not know of is a state of its own; `shown` and `fresh`
are the row of `agent_connections`.

| model | code |
|---|---|
| `Prepare`, `Enqueue`, `Post`, `Answer`, `Fail`, `Refuse`, `Mark` | `gateway/send-tick.ts`, `domain/ticks.ts` |
| `Greet`, `List`, `NextTick`, `Look`, `Part` | `onConnect`, `flushMailbox`, `onDisconnect`, `http/server.ts:150-200` |
| `Expire` ... `Decide` | `runLoopTick`, `http/server.ts:65-87`, `gateway/resend.ts` |
| `Connect`, `CloseSeen`, `Pong`, `Lapse`, `Break` | the relay and `agent/tunnel.ts` |
| `Take`, `LoopDone` | `agent/a2a-server.ts`, `agent/commands/connect.ts` |

Abstractions. A request that timed out is not received later. The fetch of the agent's
card is part of the message. Ids of rows are used again, and a tick beyond `MaxKept` is
posted without being kept: then the mailbox has lost nothing that `KeptUntilTaken`
claims. The engine may brief and end sessions at will. `Cut` may close a socket that has
connected meanwhile; a late `Part` may mark a live line disconnected
(`http/server.ts:186`), which the next pong does not repair but the next connection does.
A start of an older session that is delivered late begins a second loop
(`agent/a2a-server.ts:41`).

### AgentAdapter, FakeConsole
`AgentAdapter` keeps of a session what the loop judges by: `low` (no more budget than the
reserve), goals, idleness, an end. `loop` has the variables of `runSessionLoop`, `log`
what the judgment reads of the entries. A call of the engine, or the report of its tokens
(`reporter`), is what it does to the session and then the steps by which the board may
send its warning before it answers.

| model | code |
|---|---|
| `Ask`, `RunEnds`, `Report`, `Judge`, `JudgeHastily`, `LoopOver` | `agent/session-loop.ts`, `continue-judgment.ts`, `idle-detection.ts` |
| `Use`, `UseInVain`, `Answer` | `http/app.ts`, the plugin's tool calls |
| `Look`, `Send`, `SendFails` | `maybeSendEndWarning`, `gateway/health.ts` |
| `Start`, `Interrupt`, `Break`, `Reconnect` | `commands/connect.ts`, the board's loop |
| `Refresh`, `PressCall`, `PressDone` | `fake-console-page.ts` |
| `Invoke`, `Reach`, `LoseCall`, `Finish` | `handleTool` and `invokeChain`, `fake-console.ts` |

Abstractions. An engine awaits its calls before a run ends (the console does not), and a
run ends in the end. A warning is lost when it reaches an older loop that still runs.
Tokens of a session that another session's loop opened are never charged
(`session-loop.ts:394-414`). In the console a page's view may be half a second old, the
only faults are calls that are lost, and the budget is always enough; calls that would
open a session beyond the bound are refused.

### ToolForms, BoardTools
`BoardTools` has what three programs declare of each tool: the forms, the proxy and the
handlers. A value is its shape: what the three tell apart. `ToolForms` fills in a form
line by line in the terminal, where Escape goes back one answer, at once on a page, or
passes through the proxy what its schema accepts. The tables are written in parts, put
together by `Both`, as long literals in the code are. The second registration of the
same schemas in `createBoardMcpServer` is used only by tests and left out.

### WorkClaims
`ReadOverlaps` and `FileClaim`, `ReadRelease` and `WriteRelease`, `CheckClose` and
`CommitClose` are the two halves of three requests (`domain/work-claims.ts`, the closing
cases of `declare.ts`); `told` is what each answer named. `PathsMeet` is
`claimPathsOverlap` on paths that are sequences of names; `WorkPhase` and
`UnclaimedDecided` are `work-phase.ts` and what a briefing offers. Nothing keeps an agent
from claiming in a closed thread; the model has no such guard either. When a release and
a closing overlap, two `work_released` events are recorded.

### PullRequests
A link or a sync is *read*, *ask*, *answer*, *write*; a webhook, the refresh of the inbox and
the owner cause a sync. Rows carry the repository their url names (`of`) and the one their
state was read from (`from`). The refresh asks for one row per request. The row and its
event are written in one step. Webhooks of other installations are left out.

### ThreadCreation
`CheckCreate` and `InsertThread` are `createThread` with the gate of the setup; ratification
is a check and a commit as in `ThreadDecision`; an intake is `Take`, a thread, comment,
close and record, each a call that can fail (`issue-intake.ts`, `github/octokit-client.ts`).
An issue that was opened before the setup is turned away for good. An issue may be
redirected to a thread that was archived. `supersedeAgreement` has no caller.

### TraceLog
The adapter's `Emit`, `FlushPending`, `Post`, `FailUpload`, `LoseAnswer` are the batches and
attempts of `trace-coalesce.ts` and `board-upload.ts`; a writer on the board goes `sent`,
`locked`, `counted`, `done` (`domain/trace.ts`); the page has at most `Fetch` requests.
An upload whose answer was lost is made again and stored twice. The rows of one tool call
are one row. The chat log goes along a second chain of the same kind.

### HumanDesk
One person, the mounted page, the calls under way, of which answers come in any order.
`Serve` is the board's side, `Receive...` what the client makes of the answer, `Others...`
what happens elsewhere. The four readings of a thread's page are one. An answer 401 to a
call made with an old token logs out a fresh login (`web/api.ts`); a lost answer and a
second try store a post twice; nothing keeps a person from revoking the last credential.
The activity request, switching of projects and the pages of notes are left out.

### Accounts, ActivityFeed
A login goes through GitHub, its callback and `Identify`, `BindGithubIdentity` or
`RegisterHuman`, `IssueIdentityToken`, `LandInBrowser` or `LandInShell`; a request of a page or
a command is begun by `Ask` and goes on statement by statement. `acts` is a ghost: who asked
for what and what came of it. Events carry the number of the act that wrote them, which the
program does not store. `ListRecentActivity` is the query and fold of
`domain/activity-feed.ts`, `ActivityList` the lines of `web/components/ActivityList.tsx`;
`Newest` takes the rows by the places their positions have, the greatest first.
Abstractions: GitHub calls back once per state; the check and the deletion of that state are
one step; the transaction of `registerAgent` is one; what is done inside a thread or a day
is one step (`Do`). Display names, events of no project and expiry by date are left out.

## 3. Runs

| run | instance | shows | states, time |
|---|---|---|---|
| `overlap` | every type, 2 participants, 1 proposal, 2 requests and the loop, clock to 2, fair | `DecisionIsRecorded`, `AdoptedByRightfulDeclaration`, `AwaitingHasDeadline`, `DueThreadMovesOn` | 330,000, 65 s |
| `serial` | every type, 3 participants, 2 proposals, 1 request, clock to 2 | `OneAgreement`, `RoughHeedsObjections`, `OwnVersionNotRatified`, `ClockHeedsConditions`, `ImplementsLifecycle` | 1,630,000, 100 s |
| `session_overlap` | 1 session, 2 calls, the loop, 1 crash | `ReserveIsKept`, `HandoverMeansCompleted`, `AbandonedSessionEnds` | 400,000, 19 s |
| `session_serial` | 3 sessions, 1 call, the loop | `WorkIsAccounted`, `ImplementsDay` | 1,870,000, 60 s |
| `gateway` | 1 agent, 1 request, the loop, 2 sessions, 1 tick kept, 1 fault | `KeptUntilTaken`, `WokenIsStarted`, `OfflineIsShown`, `DecisionsAreEvaluated` | 450,000, 110 s |
| `adapter` | 2 sessions, 2 runs, 1 fault; any engine, the console of 2 pages, or the forms alone | `NotCutOff`, `WorkStopsAtReserve`, `LoopEnds`, `PagesAreAnswered`, `FormsFit`, `SentAsAnswered` | 620,000, 160 s |
| `claims` | 2 threads, a human and an agent, paths that contain each other, 2 claims, 1 link, 1 request | `OverlapIsTold`, `ClaimsOutlive` | 1,900,000, 45 s |
| `pulls` | 1 number in 2 repositories, 2 threads, 2 requests, 2 changes, 2 settings, 1 fault | `ShownInTheEnd` | 580,000, 110 s |
| `creation` | 2 participants, 1 issue delivered up to 3 times, 2 threads, 2 requests, 1 fault | `SetupBeforeWork`, `AmendedByAnother`, `OneThreadPerIssue`, `RedirectIsTruthful` | 970,000, 45 s |
| `trace` | 2 transactions, 1 request of the page, 2 emissions, 1 call, 2 faults, 1 restart | `NothingRefused`, `StoredInOrder`, `NothingSkipped` | 2,900,000, 80 s |
| `desk` | 1 thread, 1 version, 1 credential, 2 calls, 1 move of others, 1 loss | `OwnActIsShown`, `DashboardIsTrue`, `JudgmentsAreMade` | 200,000, 100 s |
| `accounts` | 2 users of GitHub, one at the shell, 2 logins and 2 requests at once, 2 projects | `FeedTellsActs`, `IdentityKeepsItsAccount`, `LoginSucceeds` | 120,000, 80 s |

Each module has a type invariant besides. Those of `ThreadDecision`, `AgentSession`,
`WorkClaims`, `TraceLog`, `ThreadCreation`, `TickGateway`, `AgentAdapter` with
`FakeConsole`, `HumanDesk` and `Accounts` are theorems, that of `ToolForms` is part of `FormInv`,
and that of `PullRequests` held when made an invariant of its run.

Why the bounds are enough. A race is between one that has read and one that writes: two
requests have it, a third repeats it. `overlap` has one proposal: with two its invariants
hold by the theorems of section 4, for any number. "The candidate was changed meanwhile"
and "his own version" need two proposals, which `serial` has; its third participant is one
whose role is assigned after the others approved. The clock to 2 covers both windows, an
extension and a passed deadline. In the sessions a post costs 2, `end_session` 1, a report
of tokens 1 or 3, the reserve is 2: one post is affordable and a second is not, tokens can fill
the rest exactly, and `end_session` can be charged in part. Three sessions are the least for
which "the one just before" differs from "an earlier one". The gateway needs two sessions,
for a tick whose session has closed, and one tick kept, for a mailbox that is full; each kind of fault may
hit each step. The adapter has an idle limit of 1 and a wind-down limit of 2, so that each
limit is met before and after each other. Of the console the second page is the one that
ends a run under a call of the first. Two lines in a list are enough to take one back and
keep one. The paths of the claims are a directory, a file in it and the whole repository, so
that each overlaps the others for a reason of its own. A batch
of the trace holds 2 of the 2 events and may hold one; a page of one row makes loading take
several requests. The budgets of `accounts` are families (`MCBudgets`): logins that overlap and
fail, logins after a logout and beside a person registered by name, requests of two people, of
the owner and of an agent, two at once or three in a row.

Deadlock is not checked where the bounds stop the instance; with nothing left to be asked
the server waits. `SYMMETRY` is used for handlers and writers, in runs without liveness.

## 4. Proofs

Every inductive invariant below was first an invariant of the run of its module. A theorem
is about all values of the constants that its module's `ASSUME` allows.

`ThreadDecisionProofs`, from `ConstantsOK` (roles of the participants, windows that are
positive): for any participants, proposals and handlers,
- `TypeCorrect`; `DecisionsAreRecorded`: a decided or completed thread has its
  agreement on record; `AdoptionsAreRightful`: adoption is by a declaration that the
  type and `human_required` allow; `DeadlinesAreSet`: an awaiting timed thread has a
  candidate and a deadline, so the loop cannot pass over it.

  The invariant adds to these what a handler between its check and its commit still
  knows (`PendingIsLegal`) and what an awaiting thread has (`AwaitingIsLegal`). The first
  is needed because a commit looks at nothing again: what it writes is right only
  because of what was checked, and the columns it depends on (`config`) never change.
- From `~Overlap` (a request is served to its end before another is):
  `OneAgreementOnly`, `ObjectionsAreHeeded`, `RatifiedByAnother`, `ConditionsAreHeeded`,
  the four rules of the run `serial`; `LifecycleIsImplemented`: every step of a thread is a
  step of `ThreadLifecycle` or none.

  The invariant `Serial` says that one handler at most is at work, that what it checked is
  still so when it writes (`Heeded`, one conjunct for each kind of declaration), and that a
  thread that is still open has no agreement and nothing adopted. The last part is what makes
  `OneAgreement` inductive: each commit that records one also closes the thread. Where
  `~Overlap` is needed, section 6 has the counterexample without it.

`AgentSessionProofs`, from `SessionConstants` (costs are numbers, the reserve is at
most the limit, tokens are positive): for any costs, sessions, calls and crashes,
- `SessionTypes`: the budget used stays between 0 and the limit; `ReserveStands`:
  without an `end_session` the reserve is untouched; `HandoversStand`: a session with
  a handover is completed for ever.

  `ReserveIsKept` is not inductive: a call writes a sum it computed earlier. The
  invariant `Legal` bounds that sum for every call in progress, as it does what a
  refund has read, and says that a call about to hand over has a session that is
  completed already. A lost update leaves the reserve alone because every sum written
  was affordable on some row, not because it is the right one: `ActivityIsBounded`, which
  TLC refutes, is the other side of that.
- From `~Overlap`, `WorkStaysAccounted`: the work of a session is within what its budget was
  charged. It needs `EndFits`, that `end_session` costs no more than the reserve (5 of 10 in
  the code). The invariant is that a call that was paid for leaves its cost free above the
  work that is counted, and that no work reaches into the reserve: a refund gives back the
  full cost also of an `end_session` that was charged in part, and must not give back work.
- From `~Overlap` and without a crash (`MaxCrashes = 0`), `DaysAreImplemented`: every step of
  the sessions is a step of `AgentDay` or none. The invariant `Days` says that sessions end
  in the order they were opened and only the last may be open, that every session that ended
  has its handover, is about to have it or was interrupted, and that a session whose briefing
  is marked was told, or is about to be. The latest session that ended is then the one just
  before, which is why `Tells`, an order by `ended_at`, gives the handover of the day
  before. With a crash it is false: finding 6.

`ThreadCreationProofs`: for any participants, issues, handlers, deliveries and faults,
- `TypeCorrect`, `WorkStandsOnSetup` and `RedirectsAreTruthful`, however requests overlap.
  Nothing here is a transaction; what carries the proof is that nothing is taken back
  (`Grown`: rows and agreements are only added, a thread stays about what it is about, a
  comment stays and a closed issue stays closed), so that what a request relied on when it
  read (`Relies`, by its step) is still so when it writes.
- From `Apart`, `IssuesBecomeOneThread` and `RulesAreAmendedByAnother`: no two deliveries, and no two
  declarations, are served at the same time, but a delivery may fail at each of its
  calls and come again, and other requests overlap with it. `First` says that an intake
  past its look-up is of an issue no thread has yet; `Entitled` that who ratifies may do so still.
  Without `Apart` both are false: findings 2 and 11.

`TickGatewayProofs`: `TypeCorrect` and `TicksAreKept` (`KeptUntilTaken`), for any handlers,
sessions, kept ticks and faults, and with crashes of both ends. A row is dropped by a job
that sent it, whose answer came earlier, or by a flush that has read the session closed. The
invariant says of each job that a send that was answered is of a tick that was taken, for as
long as it is queued (`Answered`), and that what a flush has read and is still queued is the
same tick (`ReadAsQueued`). This is less obvious than it looks since ids of rows are used
again: `TakenIsQueued` says that an id that is used again does not come taken.

`TraceLogProofs`, for any writers, batches, attempts, faults and interruptions,
- `TypeCorrect`; `NumbersAreKept`: a writer that counted holds the lock, and the number it
  counted is still the last one of the rows, since nobody inserts without the lock.
- `StoredAsEmitted`: `OrderInv` says that what waits, what is in the line of batches and
  what a writer holds follow each other, and that a batch is *settled*, stored or given up,
  before the next is tried. `Follows(s, settled)`, that nothing in `s` comes before an
  earlier event outside `settled`, is proved of prefixes, of sequences put together and
  of a growing `settled`; it is what allows a batch whose answer was lost to be stored twice.
- From `OneRequest`, `PageSkipsNothing`: an answer under way continues from the mark the
  page still has. Two requests of a page overlapping refute it: finding 12.

`AgentWorkProofs` is about an agent at work: first `AgentAdapter`, `FakeConsole`, and
`MCAgentAdapter`, which composes them; for any limits, sessions, calls and faults,
- `TypeCorrect` and `AgentsAreNotCutOff`, whichever the kind of engine. The loop stops at a
  number of extra runs, which it counts after a run, while the property is about prompts to
  wind down, which are given before one: `Rounds` relates the two at each step of the loop,
  and says that there are none in the mode of work. `TokensAwaited` says that the loop waits
  while its report is under way.
- `ReserveIsHeeded` (`WorkStopsAtReserve`), until a fault, for an engine that waits for the
  answers to its calls. The board sends its warning before it answers the call that spent the
  last of the budget, and the loop judges after all answers: `Settled` says that nothing but the
  report is under way once a run is over, `ToldInTime` that a loop at the reserve was
  told, or is about to be by a call that is not answered yet. The console does
  not wait, and there the property is not claimed.

then the forms, `ToolForms` with `BoardTools`,
- `AnswersAreSent` (`SentAsAnswered`) and `FormsFitHandlers` (`FormsFit`). The invariant
  `FormInv` says that what is to be sent is what the answers say, each under the name of its
  field (`Told`), that each answer is one its field can be given (`Good`), and that nothing is
  sent before every field that is required has been answered. To go back keeps `Told` only
  because the value of the answer taken back is deleted, and only since no two fields of a
  form have one name. That is part of `Fit`: a form has one field for each argument of
  its handler, of a kind the handler reads and required where the handler insists. `Fit` is
  proved of each tool (`FormsSuit`), as `ProxyAsksTheSame` is of the proxy: the theorem is
  about these tables, and holds for any order of typing, skipping and going back.

and the claims, `WorkClaims`, for any threads, paths and participants,
- `ClaimTypes` however requests overlap; from `~Overlap`, `OverlapsAreTold` and
  `ClaimsEndRightly`. What a request has read is still so when it writes, and rows are never
  removed, so that an overlap with a row that was inactive then is never active again.

`HumanDeskProofs`: `OwnActsAreShown`, for any number of calls, moves of others and lost
answers. `behind` is cleared by a reading that was served after the act; an answer served
before the act but received after it would clear the buttons with an old page. The invariant
`PageIsServed` says that this cannot be: an act begins only where the first reading has been
shown (`Fits`), pages that do not poll have one call under way (`OneCall`),
and a reading that follows an act is served fresh. Pages that poll neither act nor fall behind.
`TypeCorrect`, from `DeskConstants` (the dashboard is one of the sections): what an act names
when it is served is still a thread of the board, since a call does not change what it asks
when its page is left.

`AccountsProofs`, for any people, projects, logins, requests and budgets,
- `TypeCorrect`: with it, every row that a row, a login, a request or the stored configuration
  refers to is there.
- From `FirstAlone` (no login overlaps the one that may bind the first account),
  `IdentityKept` (`IdentityKeepsItsAccount`). That a login finds nobody with the identity is
  read long before it is written. `NameInv` says of each login that has come so far that the
  account it has in hand is still without an identity (`Nameless`), is the first one where it
  binds and a new one where it names, and that no two logins have the same in hand
  (`Apart`). Without `FirstAlone` it is false: finding 14.
- From `~Roles` (no agent is registered with a role, finding 14), `ActsTold`
  (`FeedTellsActs`), however requests overlap and fail halfway. `LinkInv` gives each request
  an act of its own; `ToldInv` says that what a request has still to tell is not told
  (`Silent`), and that what is done has its event in the name of who asked for it (`Told`);
  `EventsInv` that no act has two events the feed selects, its consequences being marked
  by their cause. What remains is the feed itself: the newest rows are the rows of the
  selected positions, each once, all of them while they are fewer than the limit. It is proved
  by counting places (`Place`), which needs no induction over a sequence. Each line is of its
  row and names who acted, who is a participant still (`ByInv`).

Only model-checked:
- Liveness, which with ENABLED is out of the prover's reach: `DueThreadMovesOn`,
  `AbandonedSessionEnds`, `WokenIsStarted`, `OfflineIsShown`, `DecisionsAreEvaluated`,
  `LoopEnds`, `PagesAreAnswered`, `ShownInTheEnd`, `DashboardIsTrue`, `JudgmentsAreMade`,
  `LoginSucceeds`.
- The type invariant of `PullRequests`. The safety properties stated there do not hold of the code
  (finding 10); what the run checks is `ShownInTheEnd`.

## 5. Fairness

| run | assumed | why |
|---|---|---|
| `overlap` | handlers, the evaluation and the clock weakly fair | a request that was accepted is served to its end, the loop comes round every 15 s; nobody is obliged to post or declare |
| `session_overlap` | only `ReadStale`, `InterruptSession` weakly fair | the loop; requests may hang for ever |
| `gateway` | jobs, rounds and their steps, the relay's notice of a closed socket, pong and the lapse of the TTL weakly fair | each is a timer or an await that ends; reconnecting and faults are not fair, and `WokenIsStarted` assumes that the line stays up in the end |
| `adapter` | the loop, answers to calls, refreshes weakly fair; the end of a run strongly fair | awaits end and pages poll; an engine's run is a process with an end, which other steps may interrupt again and again |
| `pulls` | handlers' answers and the ageing of a row weakly, its refresh strongly fair | the inbox is opened again and again, and needs a free handler when it is |
| `desk` | answers and polls weakly fair (`ClientFairness`); in `JudgmentsAreMade`, as its premise, a person who opens the pages, logs in and ratifies again and again | polls are timers; that a person comes is what the property is conditional on |
| `accounts` | steps of a login weakly, its beginning strongly fair | handlers end; a person who wants in tries again |

`gateway` has `Wedged = FALSE`: an adapter that holds its line and answers each tick with an
error starves the rest of every round (finding 7), so `DecisionsAreEvaluated` assumes that
such errors do not recur for ever. The fairness of the loop in `overlap` and
`session_overlap` rests on the same assumption.

## 6. Findings

Each was refuted by TLC in the module named, under the named run's configuration changed as
`PROJECT.json` says.

1. Two declarations that overlap both go through: an agreement on a closed thread
   (`declare.ts:143`; `ThreadDecision!ClosedRecordsNothing`).
2. `ratify` checks the author of one candidate and adopts another (`declare.ts:129`;
   `OwnVersionNotRatified`); likewise an amendment of the constitution
   (`declare.ts:469`; `ThreadCreation!AmendedByAnother`).
3. `extend_window` can bring the deadline forward (`declare.ts:637`; `ExtendNeverShortens`).
4. Approvals given before the version is selected are never evaluated
   (`timed-consensus.ts:111`; `UnanimousThreadMovesOn`).
5. Parallel charges are lost; the budget does not bound the activity (`activity.ts:116`;
   `AgentSession!ActivityIsBounded`).
6. A crash between completing a session and storing its handover leaves none
   (`sessions.ts:469`; `ToldTheDayBefore`).
7. An adapter that answers ticks with errors starves interruption, schedule and timed
   decisions of everybody (`http/server.ts:73`; `TickGateway!DecisionsAreEvaluated`).
8. A warning meant for one session is recorded for the next (`gateway/health.ts:73`;
   `AgentAdapter!WarnedIsSpent`).
9. Two overlapping claims filed at once tell nobody (`work-claims.ts:56`; `OverlapIsTold`).
   A thread whose pull requests were closed without a merge is shown as unclaimed and
   offered to nobody (`:295`; `UnclaimedIsOffered`). Archived threads are still offered in
   briefings (`:295`; `BriefingHidesArchived`).
10. Events of a pull request can tell a change from a state the row never had
    (`pull-requests.ts:149`; `EventsTellState`). After the project changes its repository a
    row takes over the state of a stranger (`:130`; `RowsKeepTheirRepo`).
11. One issue delivered twice at once makes two threads (`issue-intake.ts:63`;
    `OneThreadPerIssue`); one redelivered after half a failure is commented twice (`:89`;
    `CommentedOnce`).
12. The page of a session shows events twice when a poll and a load overlap
    (`web/pages/SessionLogPage.tsx:97`; `NothingSkipped`).
13. The error of a poll stays on three pages for good (`web/pages/QueuePage.tsx:79`;
    `PollsRecover`). What is ratified need not be what was shown
    (`web/pages/ThreadPage.tsx:146`; `RatifiedAsSeen`). Text typed during a post is lost
    (`:172`; `TypedIsPosted`).
14. Two people who enter over GitHub for the first time at once both bind the owner's account,
    and the later takes it from the earlier (`accounts.ts:164`; `IdentityKeepsItsAccount` with
    `FirstAlone = FALSE`). Entering over GitHub makes a second account for one who was told
    it links his (`accounts.ts:173`; `LinkedByLogin`). Registering an agent with a role is two
    lines of the feed (`bootstrap.ts:147`; `FeedTellsActs`).

Observed without a run: a brainstorm can be rejected (`declare.ts:536`) although
`docs/03-consensus-state-machines.md:302` says that it does not use that state. Two
`end_session` calls that overlap leave two handovers. In instruct mode the adapter never clears its active
session (`docs/design/20-instruct-connect.md:116`). The wind-down prompt gives 「end_session
完了」 as its reason also after an `end_session` that failed. Ctrl-C waits for an open run of the console
(`agent/commands/connect.ts:166`).

## 7. Not modelled

- Memory and notes: single-row writes with a layer or a visibility, and reads of them.
- The language-model engines: what they do is not in this code; `AgentAdapter` lets them do
  anything. The scripted engine `fake.ts`.
- `instruct-loop`, which passes lines to an engine that runs on its own, and the shutdown of
  the adapter's process.
- Minting of GitHub tokens, hashing, parsing of options, `doctor`, export to OpenTelemetry,
  formatting of views and briefings, layout: I/O and wording.
- Several threads with one another's proposals, several agents on one gateway: each would
  square the instance, and they share only what section 2 names.
- `poc/`, scripts, catalogues and seeds: no part of the running system.
