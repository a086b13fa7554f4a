------------------------------ MODULE TickGateway ------------------------------
(***************************************************************************)
(* How the board wakes one agent: ticks are queued in a mailbox, posted    *)
(* through the tunnel the agent's adapter holds open, posted again after a *)
(* reconnection or by the loop of the server until the session has been    *)
(* briefed, and taken by the adapter, which chains one session loop per    *)
(* session (packages/board/src/gateway, http/server.ts, domain/ticks.ts;   *)
(* packages/agent/src/a2a-server.ts, tunnel.ts, commands/connect.ts).      *)
(*                                                                         *)
(* A job is a run of one of the board's asynchronous functions: sendTick   *)
(* for a request, the handlers of a connection, a round of the loop.  Each *)
(* step of a job is one statement or one wait.  The engine that the        *)
(* adapter runs is left open: it may brief, spend and end sessions at will.*)
(***************************************************************************)
EXTENDS Naturals, SequencesExt

CONSTANTS
  Handler,      \* requests and connection handlers that can be in progress
  Loop,         \* startLoops: one round at a time
  Wedged,       \* TRUE: the adapter may answer with an error again and again
  MaxSessions,  \* bound: no further session is opened
  MaxKept,      \* bound: ticks the mailbox keeps; what is beyond is posted only
  MaxFaults     \* bound: broken lines, crashes, silences and error answers

Slots == Handler \cup {Loop}
Sessions == 1..MaxSessions

ASSUME GatewayConstants ==
  /\ Loop \notin Handler
  /\ Wedged \in BOOLEAN
  /\ MaxSessions \in Nat /\ MaxKept \in Nat /\ MaxFaults \in Nat

VARIABLES
  count,     \* sessions opened so far; only the latest can be open
  phase,     \* the latest session: "woken" (no briefing yet), "awake", "asleep"
  mail,      \* the queued ticks, by sequence
  got,       \* the ticks the adapter has taken
  online,    \* the socket the relay has for the agent
  attached,  \* the adapter holds the other end of it
  shown,     \* agent_connections.status
  fresh,     \* agent_connections.last_seen_at is within the TTL
  active,    \* activeSessionId, of the executor and of connect; 0 for none
  chain,     \* loopChain: the session loops to run, the first one running
  jobs,      \* what is in progress on the board
  faults     \* how many faults there have been

board == <<count, phase>>
mailbox == <<mail, got>>
link == <<online, attached, shown, fresh>>
adapter == <<active, chain>>
vars == <<board, mailbox, link, adapter, jobs, faults>>

-----------------------------------------------------------------------------
\* A row of ticks: a number for its id, and its session.
Ticks == [id : 1..MaxKept, sid : Sessions]

Idle == [step |-> "idle", then |-> "idle", sid |-> 0, id |-> 0, line |-> "none",
         rest |-> <<>>]

SendSteps == {"prepare", "enqueue", "post", "wait", "mark"}
ConnectSteps == {"greet", "list", "next", "look", "part"}
RoundSteps == {"expire", "cut", "resend", "interrupt", "schedule", "decide"}
Jobs ==
  [step : SendSteps \cup ConnectSteps \cup RoundSteps \cup {"idle"},
   then : {"idle", "next", "interrupt", "decide"},
   sid : 0..MaxSessions, id : 0..MaxKept,
   line : {"none", "sent", "taken", "broken"}, rest : Seq(Ticks)]

At(r, step) == jobs[r].step = step
Become(r, job) == jobs' = [jobs EXCEPT ![r] = job]
Goto(r, step) == Become(r, [jobs[r] EXCEPT !.step = step])

\* Mutated form: a caller does not go on after a send.
ReturnToNothing(r) == jobs' = [jobs EXCEPT ![r] = Idle]

\* A send that is over, and one that threw: the caller goes on, or gives up.
Return(r) == Become(r, [Idle EXCEPT !.step = jobs[r].then, !.then = jobs[r].then,
                                    !.rest = jobs[r].rest])
Throw(r) == Become(r, Idle)

\* What of jobs is to be told that their line is gone.
Broken(js) ==
  [r \in Slots |-> IF js[r].step = "wait" THEN [js[r] EXCEPT !.line = "broken"] ELSE js[r]]

IsOpen(s) == s = count /\ phase # "asleep"

\* Numbers for a new row: those that no queued row and no job uses.
FreeIds ==
  {i \in 1..MaxKept :
     /\ \A t \in ToSet(mail) : t.id # i
     /\ \A r \in Slots : jobs[r].id # i /\ \A t \in ToSet(jobs[r].rest) : t.id # i}

\* Tick i, if it is still queued, leaves the mailbox (delivered or discarded).
Dequeue(i) ==
  /\ \/ \E k \in DOMAIN mail : mail[k].id = i /\ mail' = RemoveAt(mail, k)
     \/ (\A t \in ToSet(mail) : t.id # i) /\ UNCHANGED mail
  /\ got' = got \ {i}

CanFail == faults < MaxFaults

Init ==
  /\ count = 0 /\ phase = "asleep"
  /\ mail = <<>> /\ got = {}
  /\ online = "none" /\ attached = FALSE /\ shown = "disconnected" /\ fresh = FALSE
  /\ active = 0 /\ chain = <<>>
  /\ jobs = [r \in Slots |-> Idle]
  /\ faults = 0

-----------------------------------------------------------------------------
(* sendTick. *)

\* POST request-session, of the agent itself or of a human who wakes it.
Wake(r) ==
  /\ At(r, "idle")
  /\ Become(r, [Idle EXCEPT !.step = "prepare"])
  /\ UNCHANGED <<board, mailbox, link, adapter, faults>>

\* prepareSessionStart: the open session, or a new one.
Prepare(r) ==
  /\ At(r, "prepare")
  /\ IF phase = "asleep"
     THEN IF count < MaxSessions
          THEN /\ count' = count + 1
               /\ phase' = "woken"
               /\ Become(r, [jobs[r] EXCEPT !.step = "enqueue", !.sid = count + 1])
          ELSE /\ Return(r)
               /\ UNCHANGED <<count, phase>>
     ELSE /\ Become(r, [jobs[r] EXCEPT !.step = "enqueue", !.sid = count])
          /\ UNCHANGED <<count, phase>>
  /\ UNCHANGED <<mailbox, link, adapter, faults>>

\* insertTick.
Enqueue(r) ==
  /\ At(r, "enqueue")
  /\ IF FreeIds = {}
     THEN /\ Goto(r, "post")
          /\ UNCHANGED mail
     ELSE LET i == CHOOSE i \in FreeIds : TRUE IN
          /\ mail' = Append(mail, [id |-> i, sid |-> jobs[r].sid])
          /\ Become(r, [jobs[r] EXCEPT !.step = "post", !.id = i])
  /\ UNCHANGED <<board, got, link, adapter, faults>>

\* deliverTick: offline at once, or a message through the tunnel.  An offline
\* agent ends a flush, which then looks for an undigested session.
Post(r) ==
  /\ At(r, "post")
  /\ CASE online = "open" -> Become(r, [jobs[r] EXCEPT !.step = "wait", !.line = "sent"])
       [] online # "open" /\ jobs[r].then = "next" ->
            Become(r, [Idle EXCEPT !.step = "look"])
       [] OTHER -> Return(r)
  /\ UNCHANGED <<board, mailbox, link, adapter, faults>>

Answer(r) ==
  /\ At(r, "wait")
  /\ jobs[r].line = "taken"
  /\ attached
  /\ Goto(r, "mark")
  /\ UNCHANGED <<board, mailbox, link, adapter, faults>>

\* Mutated form: an error is taken for a delivery.
FailAsDelivered(r) ==
  /\ At(r, "wait")
  /\ jobs[r].line = "broken" \/ ~attached
  /\ Goto(r, "mark")
  /\ UNCHANGED <<board, mailbox, link, adapter, faults>>

\* The relay rejects what was pending, or the answer does not come in 30 s:
\* 502, which deliverTick throws on.
Fail(r) ==
  /\ At(r, "wait")
  /\ jobs[r].line = "broken" \/ ~attached
  /\ Throw(r)
  /\ UNCHANGED <<board, mailbox, link, adapter, faults>>

\* The adapter answers with an error, or not in time.
Refuse(r) ==
  /\ At(r, "wait")
  /\ jobs[r].line = "sent"
  /\ attached
  /\ Wedged \/ CanFail
  /\ Throw(r)
  /\ faults' = IF Wedged THEN faults ELSE faults + 1
  /\ UNCHANGED <<board, mailbox, link, adapter>>

\* markTickDelivered.
Mark(r) ==
  /\ At(r, "mark")
  /\ Dequeue(jobs[r].id)
  /\ Return(r)
  /\ UNCHANGED <<board, link, adapter, faults>>

-----------------------------------------------------------------------------
(* Connection handlers of the board. *)

\* onConnect: the status.
Greet(r) ==
  /\ At(r, "greet")
  /\ shown' = "connected"
  /\ fresh' = TRUE
  /\ Goto(r, "list")
  /\ UNCHANGED <<board, mailbox, online, attached, adapter, faults>>

\* flushMailbox: the list of queued ticks, as it was when it was read.
List(r) ==
  /\ At(r, "list")
  /\ Become(r, [jobs[r] EXCEPT !.step = "next", !.then = "next", !.rest = mail])
  /\ UNCHANGED <<board, mailbox, link, adapter, faults>>

\* The next of them: a tick of a closed session is discarded, another posted.
NextTick(r) ==
  /\ At(r, "next")
  /\ IF jobs[r].rest = <<>>
     THEN /\ Become(r, [Idle EXCEPT !.step = "look"])
          /\ UNCHANGED <<mail, got>>
     ELSE LET t == Head(jobs[r].rest)
              job == [jobs[r] EXCEPT !.rest = Tail(@)] IN
          IF ~IsOpen(t.sid)
          THEN /\ Dequeue(t.id)
               /\ Become(r, job)
          ELSE /\ Become(r, [job EXCEPT !.step = "post", !.id = t.id, !.sid = t.sid])
               /\ UNCHANGED <<mail, got>>
  /\ UNCHANGED <<board, link, adapter, faults>>

\* findUndigestedSession, after the flush.
Look(r) ==
  /\ At(r, "look")
  /\ IF phase = "woken" THEN Become(r, [Idle EXCEPT !.step = "prepare"]) ELSE Throw(r)
  /\ UNCHANGED <<board, mailbox, link, adapter, faults>>

\* onDisconnect: the status.
Part(r) ==
  /\ At(r, "part")
  /\ shown' = "disconnected"
  /\ Throw(r)
  /\ UNCHANGED <<board, mailbox, online, attached, fresh, adapter, faults>>

-----------------------------------------------------------------------------
(* A round of the loop, every 15 s. *)

Round ==
  /\ At(Loop, "idle")
  /\ Goto(Loop, "expire")
  /\ UNCHANGED <<board, mailbox, link, adapter, faults>>

\* Mutated form: only a connection the relay still has is expired.
ExpireKnown ==
  /\ At(Loop, "expire")
  /\ IF shown = "connected" /\ ~fresh /\ online # "none"
     THEN shown' = "disconnected" /\ Goto(Loop, "cut")
     ELSE UNCHANGED shown /\ Goto(Loop, "resend")
  /\ UNCHANGED <<board, mailbox, online, attached, fresh, adapter, faults>>

\* expireStaleConnections.
Expire ==
  /\ At(Loop, "expire")
  /\ IF shown = "connected" /\ ~fresh
     THEN shown' = "disconnected" /\ Goto(Loop, "cut")
     ELSE UNCHANGED shown /\ Goto(Loop, "resend")
  /\ UNCHANGED <<board, mailbox, online, attached, fresh, adapter, faults>>

\* relay.disconnect, of the socket that is there now.
Cut ==
  /\ At(Loop, "cut")
  /\ IF online = "open" THEN online' = "closing" /\ attached' = FALSE
                        ELSE UNCHANGED <<online, attached>>
  /\ Goto(Loop, "resend")
  /\ UNCHANGED <<board, mailbox, shown, fresh, adapter, faults>>

\* resendUndigested.
Resend ==
  /\ At(Loop, "resend")
  /\ IF phase = "woken"
     THEN Become(Loop, [Idle EXCEPT !.step = "prepare", !.then = "interrupt"])
     ELSE Goto(Loop, "interrupt")
  /\ UNCHANGED <<board, mailbox, link, adapter, faults>>

\* interruptStaleSessions: an agent that was briefed may have fallen silent.
Interrupt ==
  /\ At(Loop, "interrupt")
  /\ phase' \in {phase} \cup (IF phase = "awake" THEN {"asleep"} ELSE {})
  /\ Goto(Loop, "schedule")
  /\ UNCHANGED <<count, mailbox, link, adapter, faults>>

\* runScheduler: the morning of an agent without a session today.
Schedule ==
  /\ At(Loop, "schedule")
  /\ \/ Goto(Loop, "decide")
     \/ phase = "asleep"
        /\ Become(Loop, [Idle EXCEPT !.step = "prepare", !.then = "decide"])
  /\ UNCHANGED <<board, mailbox, link, adapter, faults>>

\* evaluateTimedConsensus, for every thread of every project.
Decide ==
  /\ At(Loop, "decide")
  /\ Become(Loop, Idle)
  /\ UNCHANGED <<board, mailbox, link, adapter, faults>>

-----------------------------------------------------------------------------
(* The tunnel. *)

\* The adapter opens a socket; the relay replaces the one it had, if any.
Connect(r) ==
  /\ ~attached
  /\ At(r, "idle")
  /\ online' = "open"
  /\ attached' = TRUE
  /\ jobs' = [Broken(jobs) EXCEPT ![r] = [Idle EXCEPT !.step = "greet"]]
  /\ UNCHANGED <<board, mailbox, shown, fresh, adapter, faults>>

\* The relay sees its socket closed: what was pending fails.
CloseSeen(r) ==
  /\ online # "none" /\ ~attached
  /\ At(r, "idle")
  /\ online' = "none"
  /\ jobs' = [Broken(jobs) EXCEPT ![r] = [Idle EXCEPT !.step = "part"]]
  /\ UNCHANGED <<board, mailbox, attached, shown, fresh, adapter, faults>>

Pong ==
  /\ attached /\ ~fresh
  /\ fresh' = TRUE
  /\ UNCHANGED <<board, mailbox, online, attached, shown, adapter, jobs, faults>>

\* 90 s without a pong.
Lapse ==
  /\ fresh /\ ~attached
  /\ fresh' = FALSE
  /\ UNCHANGED <<board, mailbox, online, attached, shown, adapter, jobs, faults>>

\* The adapter is attached but answers no ping (it blocks on git, say).
FallSilent ==
  /\ fresh /\ attached /\ CanFail
  /\ fresh' = FALSE
  /\ faults' = faults + 1
  /\ UNCHANGED <<board, mailbox, online, attached, shown, adapter, jobs>>

\* The line breaks and the relay does not know yet.
Break ==
  /\ attached /\ CanFail
  /\ attached' = FALSE
  /\ faults' = faults + 1
  /\ UNCHANGED <<board, mailbox, online, shown, fresh, adapter, jobs>>

AdapterCrash ==
  /\ CanFail
  /\ attached' = FALSE
  /\ active' = 0 /\ chain' = <<>>
  /\ faults' = faults + 1
  /\ UNCHANGED <<board, mailbox, online, shown, fresh, jobs>>

\* The rows stay as they are; the status is of connections that are no more.
ServerCrash ==
  /\ CanFail
  /\ online' = "none" /\ attached' = FALSE
  /\ jobs' = [r \in Slots |-> Idle]
  /\ faults' = faults + 1
  /\ UNCHANGED <<board, mailbox, shown, fresh, adapter>>

-----------------------------------------------------------------------------
(* The adapter. *)

\* TickExecutor.execute and onTick: a start of the active session is ignored,
\* the loop of any other is chained.  The board has no more use for its session.
Take(r) ==
  LET s == jobs[r].sid IN
  /\ At(r, "wait")
  /\ jobs[r].line = "sent"
  /\ attached
  /\ got' = got \cup ({jobs[r].id} \cap {t.id : t \in ToSet(mail)})
  /\ Become(r, [jobs[r] EXCEPT !.line = "taken", !.sid = 0])
  /\ IF s = active THEN UNCHANGED <<active, chain>>
                   ELSE active' = s /\ chain' = Append(chain, s)
  /\ UNCHANGED <<board, mail, link, faults>>

\* Mutated form: the loop that ends leaves its session active.
LoopDoneStillActive ==
  /\ chain # <<>>
  /\ chain' = Tail(chain)
  /\ UNCHANGED active
  /\ UNCHANGED <<board, mailbox, link, jobs, faults>>

\* runSessionLoop is over; the next of the chain starts.
LoopDone ==
  /\ chain # <<>>
  /\ chain' = Tail(chain)
  /\ active' = IF active = Head(chain) THEN 0 ELSE active
  /\ UNCHANGED <<board, mailbox, link, jobs, faults>>

-----------------------------------------------------------------------------
(* What the engine does to sessions, through the board's tools. *)

\* get_briefing: of the open session, or of one that it opens.
Brief ==
  /\ chain # <<>>
  /\ \/ phase = "woken" /\ UNCHANGED count
     \/ phase = "asleep" /\ count < MaxSessions /\ count' = count + 1
  /\ phase' = "awake"
  /\ UNCHANGED <<mailbox, link, adapter, jobs, faults>>

EndDay ==
  /\ chain # <<>> /\ phase # "asleep"
  /\ phase' = "asleep"
  /\ UNCHANGED <<count, mailbox, link, adapter, jobs, faults>>

-----------------------------------------------------------------------------
\* What a job does of itself once it has begun.
Serve(r) ==
  \/ Prepare(r) \/ Enqueue(r) \/ Post(r) \/ Answer(r) \/ Fail(r) \/ Mark(r)
  \/ Greet(r) \/ List(r) \/ NextTick(r) \/ Look(r) \/ Part(r)
  \/ Take(r)

RoundStep == Expire \/ Cut \/ Resend \/ Interrupt \/ Schedule \/ Decide

Fault == FallSilent \/ Break \/ AdapterCrash \/ ServerCrash

Next ==
  \/ \E r \in Handler : Wake(r) \/ Connect(r) \/ CloseSeen(r)
  \/ \E r \in Slots : Serve(r) \/ Refuse(r)
  \/ Round \/ RoundStep
  \/ Pong \/ Lapse \/ Fault
  \/ LoopDone \/ Brief \/ EndDay

Spec == Init /\ [][Next]_vars

\* The board serves what it has begun, its loop comes round, a socket that is
\* closed is noticed, and an adapter that is attached answers what it gets.
\* Nobody is obliged to connect, to brief or to finish a session.
Fairness ==
  /\ \A r \in Slots : WF_vars(Serve(r))
  /\ WF_vars(Round) /\ WF_vars(RoundStep)
  /\ WF_vars(\E r \in Handler : CloseSeen(r))
  /\ WF_vars(Pong) /\ WF_vars(Lapse)

FairSpec == Spec /\ Fairness
-----------------------------------------------------------------------------
(* Properties. *)

\* Every variable has its type.
TypeOK ==
  /\ count \in 0..MaxSessions /\ phase \in {"asleep", "woken", "awake"}
  /\ mail \in Seq(Ticks) /\ got \subseteq 1..MaxKept
  /\ online \in {"open", "closing", "none"}
  /\ attached \in BOOLEAN /\ fresh \in BOOLEAN
  /\ shown \in {"connected", "disconnected"}
  /\ active \in 0..MaxSessions /\ chain \in Seq(Sessions)
  /\ jobs \in [Slots -> Jobs]
  /\ faults \in 0..MaxFaults

\* A tick leaves the mailbox when the adapter has taken it or the session it
\* is for has closed, and for no other reason: no crash, reconnection or
\* second delivery loses one (insertTick before deliverTick, flushMailbox).
KeptUntilTaken ==
  [][\A t \in ToSet(mail) \ ToSet(mail') :
       t.id \in got \/ ~IsOpen(t.sid)]_vars

\* A session that was opened for the agent reaches its adapter, which starts or
\* has chained a loop for it, unless it ends otherwise or the line keeps breaking:
\* the start is sent again until it is taken (docs/design/02-agent-connection.md,
\* "session.start" is repeated until get_briefing), and a loop that has ended
\* does not make the adapter ignore it (clearActiveSession).
WokenIsStarted ==
  \/ phase = "woken" ~> (count \in ToSet(chain) \/ phase # "woken")
  \/ []<>~attached

\* An agent whose line is gone is shown as disconnected in the end, unless it
\* comes back: by the close of the socket or, after a crash of the board, by
\* expireStaleConnections.
OfflineIsShown == ~attached ~> (attached \/ shown = "disconnected")

\* A round of the loop gets to the decisions that are due, again and again,
\* whatever happens to the ticks it sends on its way (runLoopTick).
DecisionsAreEvaluated == []<>At(Loop, "decide")
=============================================================================
