--------------------------- MODULE AgentWorkProofs ---------------------------
(***************************************************************************)
(* What is proved about the work of agents.                                *)
(*                                                                         *)
(* The adapter, whatever the limits on runs and the number of calls,       *)
(* sessions and faults, and whichever the kind of engine: the types, and   *)
(* that no limit on runs cuts an agent off before it was asked to wind     *)
(* down as often as it may be; and, for an engine that waits for the       *)
(* answers to its calls, that a loop whose session has come to the reserve *)
(* asks for no more work.                                                  *)
(*                                                                         *)
(* The forms in which its tools are called, however long the lists and     *)
(* however often one goes back: what is sent is what was answered last,    *)
(* and the handler takes it.                                               *)
(*                                                                         *)
(* Its claims of work, for any threads, members, paths, claims and         *)
(* handlers, however requests overlap: the types, that whoever claims a    *)
(* path is told of the claims it overlaps that were there when it looked,  *)
(* and that claims end only by their owner or the end of their thread.     *)
(***************************************************************************)
EXTENDS MCAgentAdapter, WorkClaims, SequenceTheorems, TLAPS

-----------------------------------------------------------------------------
(* The inductive invariants. *)

\* How runs, extra runs and prompts to wind down count together.
Rounds(l) ==
  /\ l.mode = "work" => l.runs <= MaxRuns /\ l.extra = 0 /\ l.asked = 0
  /\ l.mode = "wind-down" =>
       /\ l.runs <= MaxRuns + l.asked
       /\ l.extra < WindDownRunLimit
       /\ l.asked = IF l.step = "ask" THEN l.extra ELSE l.extra + 1

\* A run that is not over has not been counted as idle yet.
IdleRuns(l, g) == g.idle <= l.runs /\ (l.step = "run" => g.idle < l.runs)

\* A session that is open, or in the chain, was opened.
Behind == (open => count # 0) /\ \A i \in DOMAIN chain : chain[i] <= count

\* The loop waits for its report of tokens while that is under way.
TokensAwaited ==
  \A c \in Slots : calls[c].tool = "tokens" => c = Reporter /\ loop.step = "wait"

LoopInv ==
  /\ Rounds(loop) /\ IdleRuns(loop, log)
  /\ chain = <<>> => loop = Fresh
  /\ TokensAwaited

AdapterInv == TypeOK /\ Behind /\ LoopInv

ConsoleInv == ConsoleTypeOK /\ (stage # "wait" => queue # <<>>)

IInv == engine \in {"any", "console", "forms"} /\ AdapterInv /\ ConsoleInv

(* Of an engine that waits for its answers, as long as there was no fault.    *)

\* Only the reporter is at work once the run is over.
Settled ==
  /\ loop.step \in {"ask", "report", "judge"} => Quiet
  /\ loop.step = "wait" => \A c \in Slots \ {Reporter} : calls[c] = NoCall

\* The open session is that of the loop, which has brought it to the reserve.
Spent == spent /\ open /\ Running = count

\* It is told so, or is about to be, and heeds it at the end of an iteration.
ToldInTime ==
  /\ spent => chain # <<>> /\ Running \in low /\ (Running \in warned => requested)
  /\ Spent => requested \/ \E c \in Slots : calls[c].step \in {"look", "send"}
  /\ Spent /\ loop.step = "ask" => loop.mode = "wind-down"

Prompt == engine = "any" /\ faults = 0

InTime == line /\ Settled /\ ToldInTime

ReserveInv == Prompt => InTime
-----------------------------------------------------------------------------
(* Lemmas about loops, logs and calls. *)

USE AdapterConstants

LEMMA FreshLoop ==
  /\ Fresh \in Loops /\ Rounds(Fresh) /\ Fresh.step = "ask"
  /\ Empty \in Logs /\ IdleRuns(Fresh, Empty)
  BY DEF Fresh, Empty, Loops, Logs, Rounds, IdleRuns

\* What a loop and its log are made of.
LEMMA LoopFields ==
  ASSUME NEW l \in Loops, NEW g \in Logs
  PROVE  /\ l.step \in {"ask", "run", "report", "wait", "judge"}
         /\ l.mode \in {"work", "wind-down"}
         /\ l.runs \in Nat /\ l.extra \in Nat /\ l.asked \in Nat /\ g.idle \in Nat
         /\ l.runs <= MaxRuns + WindDownRunLimit
         /\ l.extra <= WindDownRunLimit /\ l.asked <= WindDownRunLimit
  BY DEF Loops, Logs

\* A loop that goes from one step to another which is not the first one of an
\* iteration has counted nothing.
LEMMA StepInside ==
  ASSUME NEW l \in Loops, NEW g \in Logs, NEW step \in {"report", "wait", "judge"},
         Rounds(l), IdleRuns(l, g), l.step # "ask"
  PROVE  LET m == [l EXCEPT !.step = step] IN
         m \in Loops /\ Rounds(m) /\ IdleRuns(m, g) /\ m.step = step
  BY DEF Loops, Logs, Rounds, IdleRuns

\* A prompt.
LEMMA AskRounds ==
  ASSUME NEW l \in Loops, NEW g \in Logs, Rounds(l), IdleRuns(l, g), l.step = "ask",
         l.runs < MaxRuns \/ l.mode = "wind-down"
  PROVE  LET m == [l EXCEPT !.step = "run", !.runs = @ + 1,
                       !.asked = IF l.mode = "wind-down" THEN @ + 1 ELSE @]
             h == [g EXCEPT !.busy = FALSE]
         IN  m \in Loops /\ Rounds(m) /\ m.step = "run" /\ h \in Logs /\ IdleRuns(m, h)
<1>1. PICK asked \in 0..WindDownRunLimit :
        asked = IF l.mode = "wind-down" THEN l.asked + 1 ELSE l.asked
  BY LoopFields DEF Rounds
<1>2. PICK runs \in 0..(MaxRuns + WindDownRunLimit) : runs = l.runs + 1
  BY LoopFields DEF Rounds
<1> DEFINE m == [l EXCEPT !.step = "run", !.runs = runs, !.asked = asked]
           h == [g EXCEPT !.busy = FALSE]
<1>3. m \in Loops
  BY DEF Loops
<1>4. /\ m.step = "run" /\ m.mode = l.mode /\ m.runs = runs
      /\ m.extra = l.extra /\ m.asked = asked
  BY DEF Loops
<1>5. Rounds(m)
  BY <1>1, <1>2, <1>4, LoopFields DEF Rounds
<1>6. h \in Logs /\ h.idle = g.idle
  BY DEF Logs
<1>7. IdleRuns(m, h)
  BY <1>2, <1>4, <1>6, LoopFields DEF IdleRuns
<1>8. m = [l EXCEPT !.step = "run", !.runs = l.runs + 1,
                    !.asked = IF l.mode = "wind-down" THEN l.asked + 1 ELSE l.asked]
  BY <1>1, <1>2
<1> HIDE DEF m
<1>9. QED
  BY <1>3, <1>4, <1>5, <1>6, <1>7, <1>8

\* The end of an iteration that is not the last one.
LEMMA JudgeRounds ==
  ASSUME loop \in Loops, log \in Logs, Rounds(loop), IdleRuns(loop, log),
         NEW mode \in {"work", "wind-down"}, loop.mode = "wind-down" => mode = "wind-down",
         mode = "work" => loop.runs <= MaxRuns, loop.step = "judge",
         NEW extra \in 0..WindDownRunLimit, extra < WindDownRunLimit,
         extra = IF loop.mode = "wind-down" THEN loop.extra + 1 ELSE loop.extra,
         loop' = [loop EXCEPT !.step = "ask", !.extra = extra, !.mode = mode]
  PROVE  loop' \in Loops /\ Rounds(loop') /\ IdleRuns(loop', log) /\ loop'.step = "ask"
<1>1. loop' \in Loops
  BY DEF Loops
<1>2. /\ loop'.step = "ask" /\ loop'.mode = mode /\ loop'.runs = loop.runs
      /\ loop'.extra = extra /\ loop'.asked = loop.asked
  BY DEF Loops
<1>3. Rounds(loop')
  BY <1>2, LoopFields DEF Rounds
<1>4. IdleRuns(loop', log)
  BY <1>2, LoopFields DEF IdleRuns
<1>5. QED
  BY <1>1, <1>2, <1>3, <1>4

LEMMA CallFields ==
  /\ NoCall \in Calls /\ NoCall.step = "idle" /\ NoCall.tool = "none"
  /\ \A c \in Calls : c.step \in {"idle", "look", "send", "answer"} /\ c.low \in BOOLEAN
  BY DEF NoCall, Calls

\* What the entries of a call do to a log.
LEMMA LogsWithType ==
  ASSUME log \in Logs, NEW c \in Calls, NEW entries \in LogsWith(c)
  PROVE  entries \in Logs /\ entries.idle = log.idle
<1>1. PICK goals \in GoalsWith(c.tool), none \in {log.low, c.low} :
        entries = LogWith(c.tool, goals, none)
  BY DEF LogsWith
<1>2. goals \in {"unset", "open", "done"}
  BY DEF Logs, GoalsWith
<1>3. none \in BOOLEAN
  BY CallFields DEF Logs
<1>4. QED
  BY <1>1, <1>2, <1>3 DEF Logs, LogWith

\* A step of a call.
LEMMA StepCall ==
  ASSUME TypeOK, TokensAwaited, NEW c \in Slots, NEW step \in {"send", "answer"}, Step(c, step)
  PROVE  /\ calls' \in [Slots -> Calls]
         /\ \A s \in Slots : calls'[s].tool = calls[s].tool
<1>1. calls[c] \in Calls
  BY DEF TypeOK
<1>2. [calls[c] EXCEPT !.step = step] \in Calls
      /\ [calls[c] EXCEPT !.step = step].tool = calls[c].tool
  BY <1>1 DEF Calls
<1>3. QED
  BY <1>1, <1>2 DEF Step, TypeOK
-----------------------------------------------------------------------------
(* Every action of the adapter and of the board keeps AdapterInv. *)

LEMMA RunningType ==
  ASSUME TypeOK, Behind
  PROVE  /\ Running \in 0..count /\ count \in Nat
         /\ chain # <<>> => Running \in Sessions /\ Running = chain[1]
<1>1. count \in Nat /\ chain \in Seq(Sessions) /\ Sessions \subseteq Nat
  BY DEF TypeOK, Sessions
<1>2. CASE chain = <<>>
  BY <1>1, <1>2 DEF Running
<1>3. CASE chain # <<>>
  <2>1. Head(chain) = chain[1] /\ 1 \in DOMAIN chain /\ chain[1] \in Sessions
    BY <1>1, <1>3
  <2>2. chain[1] <= count
    BY <2>1 DEF Behind
  <2>3. QED
    BY <1>1, <1>3, <2>1, <2>2 DEF Running, Sessions
<1>4. QED
  BY <1>2, <1>3

\* The session that is ensured was opened before, or now.
LEMMA EnsureOpenType ==
  ASSUME TypeOK, Behind, EnsureOpen
  PROVE  /\ count' \in Sessions /\ count' \in 0..MaxSessions /\ count <= count'
         /\ count \in Nat /\ (open => count' = count)
         /\ (~open => count' = count + 1)
<1>1. count \in 0..MaxSessions
  BY DEF TypeOK
<1>2. CASE open
  BY <1>1, <1>2 DEF Behind, EnsureOpen, Sessions
<1>3. CASE ~open
  BY <1>1, <1>3 DEF EnsureOpen, Sessions
<1>4. QED
  BY <1>2, <1>3

\* The loops that wait are left alone, or the next one begins.
LEMMA LoopOverKeeps ==
  ASSUME AdapterInv, LoopOver, chain # <<>>, UNCHANGED board,
         \A c \in Slots : calls'[c].tool # "tokens"
  PROVE  /\ chain' \in Seq(Sessions) /\ active' \in 0..MaxSessions
         /\ requested' \in BOOLEAN /\ spent' \in BOOLEAN
         /\ loop' \in Loops /\ log' \in Logs
         /\ Behind' /\ LoopInv'
<1>1. chain \in Seq(Sessions) /\ active \in 0..MaxSessions
  BY DEF AdapterInv, TypeOK
<1>2. chain' = Tail(chain) /\ chain' \in Seq(Sessions)
  BY <1>1 DEF LoopOver
<1>3. \A i \in DOMAIN chain' : i + 1 \in DOMAIN chain /\ chain'[i] = chain[i + 1]
  BY <1>1, <1>2
<1>4. Behind'
  BY <1>3 DEF AdapterInv, Behind, board
<1>5. active' \in 0..MaxSessions
  BY <1>1 DEF LoopOver
<1>6. LoopInv'
  BY FreshLoop DEF LoopOver, LoopInv, TokensAwaited
<1>7. QED
  BY <1>2, <1>4, <1>5, <1>6, FreshLoop DEF LoopOver

LEMMA StartKeeps == ASSUME AdapterInv, Start PROVE AdapterInv'
<1>1. TypeOK /\ Behind /\ LoopInv
  BY DEF AdapterInv
<1>2. count' \in Sessions /\ count' \in 0..MaxSessions /\ count <= count' /\ count \in Nat
  BY <1>1, EnsureOpenType DEF Start
<1>3. CASE UNCHANGED adapter
  <2>1. TypeOK'
    BY <1>1, <1>2, <1>3 DEF Start, adapter, warnings, TypeOK
  <2>2. Behind'
    BY <1>1, <1>2, <1>3 DEF TypeOK, Behind, adapter, Sessions
  <2>3. LoopInv'
    BY <1>1, <1>3 DEF Start, adapter, warnings, LoopInv, TokensAwaited
  <2>4. QED
    BY <2>1, <2>2, <2>3 DEF AdapterInv
<1>4. CASE ~UNCHANGED adapter
  <2>1. active' = count' /\ chain' = Append(chain, count')
    BY <1>4 DEF Start, Begin
  <2>2. /\ chain' \in Seq(Sessions) /\ chain' # <<>>
        /\ \A i \in DOMAIN chain' :
             (i \in DOMAIN chain /\ chain'[i] = chain[i]) \/ chain'[i] = count'
    BY <1>1, <1>2, <2>1 DEF TypeOK
  <2>3. Behind'
    <3>1. chain \in Seq(Nat) /\ count' # 0 /\ count' \in Nat
      BY <1>1, <1>2 DEF TypeOK, Sessions
    <3>2. ASSUME NEW i \in DOMAIN chain' PROVE chain'[i] <= count'
      <4>1. CASE i \in DOMAIN chain /\ chain'[i] = chain[i]
        BY <1>1, <1>2, <3>1, <4>1 DEF Behind
      <4>2. QED
        BY <2>2, <3>1, <4>1
    <3>3. QED
      BY <3>1, <3>2 DEF Behind
  <2>4. /\ requested' \in BOOLEAN /\ spent' \in BOOLEAN /\ loop' \in Loops /\ log' \in Logs
        /\ Rounds(loop') /\ IdleRuns(loop', log')
        /\ loop' = loop
    BY <1>1, <1>4, FreshLoop DEF Start, Begin, TypeOK, LoopInv
  <2>5. TypeOK'
    BY <1>1, <1>2, <2>1, <2>2, <2>4 DEF Start, warnings, TypeOK
  <2>6. LoopInv'
    BY <1>1, <2>2, <2>4 DEF Start, LoopInv, TokensAwaited
  <2>7. QED
    BY <2>3, <2>5, <2>6 DEF AdapterInv
<1>5. QED
  BY <1>3, <1>4

\* Steps of the board that the adapter does not see.
LEMMA UnseenKeep ==
  ASSUME AdapterInv, UNCHANGED <<adapter, calls, warnings>>,
         count' \in 0..MaxSessions, count <= count', open' \in BOOLEAN,
         low' \subseteq Sessions, line' \in BOOLEAN, faults' \in 0..MaxFaults,
         open' => open \/ count # count'
  PROVE  AdapterInv'
<1>1. TypeOK'
  BY DEF AdapterInv, TypeOK, adapter, warnings
<1>2. Behind'
  <2>1. count \in Nat /\ count' \in Nat /\ chain \in Seq(Nat)
    BY DEF AdapterInv, TypeOK, Sessions
  <2>2. QED
    BY <2>1 DEF AdapterInv, Behind, adapter
<1>3. LoopInv'
  BY DEF AdapterInv, LoopInv, TokensAwaited, adapter
<1>4. QED
  BY <1>1, <1>2, <1>3 DEF AdapterInv

LEMMA RefuseKeeps == ASSUME AdapterInv, Refuse PROVE AdapterInv'
<1>1. count' \in 0..MaxSessions /\ count <= count' /\ count # count' /\ open'
  BY EnsureOpenType DEF AdapterInv, Refuse
<1>2. low' \subseteq Sessions /\ line' \in BOOLEAN /\ faults' \in 0..MaxFaults
  BY DEF AdapterInv, TypeOK, Refuse
<1>3. QED
  BY <1>1, <1>2, UnseenKeep DEF Refuse

LEMMA InterruptKeeps == ASSUME AdapterInv, Interrupt PROVE AdapterInv'
<1>1. low' \subseteq Sessions /\ line' \in BOOLEAN /\ faults' \in 0..MaxFaults
  BY DEF AdapterInv, TypeOK, Interrupt
<1>2. count' \in 0..MaxSessions /\ count <= count'
  BY DEF AdapterInv, TypeOK, Interrupt
<1>3. QED
  BY <1>1, <1>2, UnseenKeep DEF Interrupt

LEMMA BreakKeeps == ASSUME AdapterInv, Break PROVE AdapterInv'
<1>1. low' \subseteq Sessions /\ line' \in BOOLEAN /\ open' = open
  BY DEF AdapterInv, TypeOK, Break, board
<1>2. count' \in 0..MaxSessions /\ count <= count' /\ faults' \in 0..MaxFaults
  BY DEF AdapterInv, TypeOK, Break, board, CanFail
<1>3. QED
  BY <1>1, <1>2, UnseenKeep DEF AdapterInv, TypeOK, Break

LEMMA ReconnectKeeps == ASSUME AdapterInv, Reconnect PROVE AdapterInv'
<1>1. TypeOK'
  BY EmptySeq DEF AdapterInv, TypeOK, Reconnect, board
<1>2. Behind' /\ LoopInv'
  BY DEF AdapterInv, Behind, LoopInv, TokensAwaited, Reconnect, board
<1>3. QED
  BY <1>1, <1>2 DEF AdapterInv

LEMMA SucceedKeeps ==
  ASSUME AdapterInv, NEW c, NEW tool \in Tools, Succeed(c, tool)
  PROVE  AdapterInv'
<1>1. TypeOK /\ Behind /\ LoopInv
  BY DEF AdapterInv
<1>2. count' \in Sessions /\ count' \in 0..MaxSessions /\ count <= count' /\ count \in Nat
  BY <1>1, EnsureOpenType DEF Succeed
<1>3. PICK all \in BOOLEAN :
        /\ open' = (tool # "end_session")
        /\ Charge(count', all)
        /\ calls' = [calls EXCEPT ![c] = [step |-> "look", tool |-> tool, low |-> count' \in low']]
  BY DEF Succeed
<1>4. low' \subseteq Sessions /\ spent' \in BOOLEAN
  BY <1>1, <1>2, <1>3 DEF Charge, TypeOK
<1> DEFINE look == [step |-> "look", tool |-> tool, low |-> count' \in low']
<1>5. look \in Calls /\ look.tool # "tokens"
  BY DEF Calls, Tools
<1>6. calls' \in [Slots -> Calls] /\ \A s \in Slots : calls'[s] \in {calls[s], look}
  <2> HIDE DEF look
  <2> QED BY <1>1, <1>3, <1>5 DEF TypeOK, look
<1>7. UNCHANGED <<warnings, line, chain, active, requested, loop, log, faults>>
  BY DEF Succeed
<1>8. TypeOK'
  BY <1>1, <1>2, <1>3, <1>4, <1>6, <1>7 DEF TypeOK, warnings
<1>9. Behind'
  <2>1. chain \in Seq(Nat) /\ count' # 0 /\ count' \in Nat
    BY <1>1, <1>2 DEF TypeOK, Sessions
  <2>2. QED
    BY <1>1, <1>2, <1>7, <2>1 DEF Behind
<1>10. LoopInv'
  <2>1. TokensAwaited'
    BY <1>1, <1>5, <1>6, <1>7 DEF LoopInv, TokensAwaited
  <2>2. QED
    BY <1>1, <1>7, <2>1 DEF LoopInv
<1>11. QED
  BY <1>8, <1>9, <1>10 DEF AdapterInv

LEMMA LookKeeps == ASSUME AdapterInv, NEW c \in Slots, Look(c) PROVE AdapterInv'
<1>1. TypeOK /\ Behind /\ LoopInv
  BY DEF AdapterInv
<1>2. PICK step \in {"send", "answer"} : Step(c, step)
  BY DEF Look
<1>3. calls' \in [Slots -> Calls] /\ \A s \in Slots : calls'[s].tool = calls[s].tool
  BY <1>1, <1>2, StepCall DEF LoopInv
<1>4. UNCHANGED <<board, warnings, line, adapter, faults>>
  BY DEF Look
<1>5. TypeOK'
  BY <1>1, <1>3, <1>4 DEF TypeOK, board, warnings, adapter
<1>6. Behind' /\ LoopInv'
  BY <1>1, <1>3, <1>4 DEF Behind, LoopInv, TokensAwaited, board, adapter
<1>7. QED
  BY <1>5, <1>6 DEF AdapterInv

\* The warning that is sent, or kept for later.
LEMMA WarningType ==
  ASSUME TypeOK, Behind
  PROVE  LET s == IF open THEN count ELSE 0 IN
         /\ warned \cup ({s} \ {0}) \subseteq Sessions
         /\ Append(queued, s) \in Seq(0..MaxSessions)
<1> DEFINE s == IF open THEN count ELSE 0
<1>1. s \in 0..MaxSessions /\ {s} \ {0} \subseteq Sessions
  BY DEF TypeOK, Sessions
<1> HIDE DEF s
<1>2. Append(queued, s) \in Seq(0..MaxSessions)
  BY <1>1 DEF TypeOK
<1>3. warned \cup ({s} \ {0}) \subseteq Sessions
  BY <1>1 DEF TypeOK
<1>4. QED
  BY <1>2, <1>3 DEF s

LEMMA SendKeeps == ASSUME AdapterInv, NEW c \in Slots, Send(c) PROVE AdapterInv'
<1>1. TypeOK /\ Behind /\ LoopInv
  BY DEF AdapterInv
<1>2. Step(c, "answer") /\ UNCHANGED <<board, line, chain, active, loop, log, spent, faults>>
  BY DEF Send
<1>3. calls' \in [Slots -> Calls] /\ \A s \in Slots : calls'[s].tool = calls[s].tool
  BY <1>1, <1>2, StepCall DEF LoopInv
<1>4. warned' \subseteq Sessions /\ queued' \in Seq(0..MaxSessions) /\ requested' \in BOOLEAN
  BY <1>1, WarningType DEF Send, TypeOK
<1>5. TypeOK'
  BY <1>1, <1>2, <1>3, <1>4 DEF TypeOK, board
<1>6. Behind' /\ LoopInv'
  BY <1>1, <1>2, <1>3 DEF Behind, LoopInv, TokensAwaited, board
<1>7. QED
  BY <1>5, <1>6 DEF AdapterInv

\* A call that ends, and takes the loop on if it was the report of tokens.
LEMMA CallEnds ==
  ASSUME AdapterInv, NEW c \in Slots,
         calls' = [calls EXCEPT ![c] = NoCall],
         loop' = IF calls[c].tool = "tokens" THEN [loop EXCEPT !.step = "judge"] ELSE loop,
         log' \in Logs, log'.idle = log.idle, chain' = chain
  PROVE  calls' \in [Slots -> Calls] /\ loop' \in Loops /\ LoopInv'
<1>1. TypeOK /\ LoopInv
  BY DEF AdapterInv
<1>2. calls' \in [Slots -> Calls]
      /\ \A s \in Slots : calls'[s] = IF s = c THEN NoCall ELSE calls[s]
  BY <1>1, CallFields DEF TypeOK
<1>3. CASE calls[c].tool = "tokens"
  <2>1. loop.step = "wait" /\ loop.step # "ask" /\ \A s \in Slots : calls[s].tool = "tokens" => s = c
    BY <1>1, <1>3 DEF LoopInv, TokensAwaited
  <2>2. loop' \in Loops /\ Rounds(loop') /\ IdleRuns(loop', log) /\ loop'.step = "judge"
    BY <1>1, <1>3, <2>1, StepInside DEF TypeOK, LoopInv
  <2>3. IdleRuns(loop', log')
    BY <2>2 DEF IdleRuns
  <2>4. TokensAwaited'
    BY <1>2, <2>1, CallFields DEF TokensAwaited
  <2>5. chain # <<>>
    BY <1>1, <2>1, FreshLoop DEF LoopInv
  <2>6. QED
    BY <1>2, <2>2, <2>3, <2>4, <2>5 DEF LoopInv
<1>4. CASE calls[c].tool # "tokens"
  <2>1. loop' = loop /\ IdleRuns(loop', log')
    BY <1>1, <1>4 DEF LoopInv, IdleRuns
  <2>2. TokensAwaited'
    BY <1>1, <1>2, <2>1, CallFields DEF LoopInv, TokensAwaited
  <2>3. QED
    BY <1>1, <1>2, <2>1, <2>2 DEF LoopInv, TypeOK
<1>5. QED
  BY <1>3, <1>4

LEMMA SendFailsKeeps == ASSUME AdapterInv, NEW c \in Slots, SendFails(c) PROVE AdapterInv'
<1>1. TypeOK /\ Behind /\ LoopInv
  BY DEF AdapterInv
<1>2. UNCHANGED <<board, line, chain, active, requested, log, spent>>
  BY DEF SendFails
<1>3. calls' \in [Slots -> Calls] /\ loop' \in Loops /\ LoopInv'
  BY <1>1, <1>2, CallEnds DEF SendFails, TypeOK
<1>4. warned' \subseteq Sessions /\ queued' \in Seq(0..MaxSessions)
  BY <1>1, WarningType DEF SendFails
<1>5. faults' \in 0..MaxFaults
  BY <1>1 DEF SendFails, CanFail, TypeOK
<1>6. TypeOK'
  BY <1>1, <1>2, <1>3, <1>4, <1>5 DEF TypeOK, board
<1>7. Behind'
  BY <1>1, <1>2 DEF Behind, board
<1>8. QED
  BY <1>3, <1>6, <1>7 DEF AdapterInv

LEMMA AnswerKeeps == ASSUME AdapterInv, NEW c \in Slots, Answer(c) PROVE AdapterInv'
<1>1. TypeOK /\ Behind /\ LoopInv
  BY DEF AdapterInv
<1>2. UNCHANGED <<board, warnings, line, chain, active, requested, spent, faults>>
  BY DEF Answer
<1>3. calls[c] \in Calls
  BY <1>1 DEF TypeOK
<1>4. log' \in Logs /\ log'.idle = log.idle
  BY <1>1, <1>3, LogsWithType DEF Answer, TypeOK
<1>5. loop' = IF calls[c].tool = "tokens" THEN [loop EXCEPT !.step = "judge"] ELSE loop
  BY DEF Answer
<1>6. calls' \in [Slots -> Calls] /\ loop' \in Loops /\ LoopInv'
  BY <1>2, <1>4, <1>5, CallEnds DEF Answer
<1>7. TypeOK'
  BY <1>1, <1>2, <1>4, <1>6 DEF TypeOK, board, warnings
<1>8. Behind'
  BY <1>1, <1>2 DEF Behind, board
<1>9. QED
  BY <1>6, <1>7, <1>8 DEF AdapterInv

\* Inside an iteration nothing but the loop, its log and its calls change.
LEMMA InsideKeeps ==
  ASSUME AdapterInv, loop' \in Loops, log' \in Logs, calls' \in [Slots -> Calls], LoopInv',
         low' \subseteq Sessions, spent' \in BOOLEAN,
         UNCHANGED <<count, open, warnings, line, chain, active, requested, faults>>
  PROVE  AdapterInv'
<1>1. TypeOK'
  BY DEF AdapterInv, TypeOK, warnings
<1>2. Behind'
  BY DEF AdapterInv, Behind
<1>3. QED
  BY <1>1, <1>2 DEF AdapterInv

LEMMA AskKeeps == ASSUME AdapterInv, Ask PROVE AdapterInv'
<1>1. TypeOK /\ LoopInv
  BY DEF AdapterInv
<1>2. /\ loop' \in Loops /\ Rounds(loop') /\ loop'.step = "run"
      /\ log' \in Logs /\ IdleRuns(loop', log')
  BY <1>1, AskRounds DEF Ask, At, TypeOK, LoopInv
<1>3. TokensAwaited'
  BY <1>1 DEF Ask, At, LoopInv, TokensAwaited
<1>4. LoopInv'
  BY <1>2, <1>3 DEF Ask, At, LoopInv
<1>5. QED
  BY <1>1, <1>2, <1>4, InsideKeeps DEF Ask, board, TypeOK

LEMMA ReturnKeeps ==
  ASSUME AdapterInv, NEW entries \in Logs, entries.idle = log.idle, Return(entries),
         calls' \in [Slots -> Calls],
         \A c \in Slots : calls'[c].tool \in {calls[c].tool, "none"}
  PROVE  AdapterInv'
<1>1. TypeOK /\ LoopInv
  BY DEF AdapterInv
<1>2. loop.step = "run" /\ chain # <<>> /\ loop' = [loop EXCEPT !.step = "report"]
  BY DEF Return, At
<1>3. loop' \in Loops /\ Rounds(loop') /\ loop'.step = "report" /\ loop'.runs = loop.runs
  BY <1>1, <1>2, StepInside DEF TypeOK, LoopInv, Loops
<1>4. PICK idle \in 0..(MaxRuns + WindDownRunLimit) :
        log' = [entries EXCEPT !.idle = idle] /\ idle <= loop.runs
  <2>1. PICK k \in BOOLEAN : log' = [entries EXCEPT !.idle = IF k THEN @ + 1 ELSE 0]
    BY DEF Return
  <2>2. entries.idle + 1 <= loop.runs /\ entries.idle \in Nat /\ loop.runs <= MaxRuns + WindDownRunLimit
        /\ loop.runs \in Nat
    BY <1>1, <1>2, LoopFields DEF TypeOK, LoopInv, IdleRuns
  <2>3. CASE k
    BY <2>1, <2>2, <2>3
  <2>4. CASE ~k
    BY <2>1, <2>2, <2>4
  <2>5. QED
    BY <2>3, <2>4
<1>5. log' \in Logs /\ log'.idle <= loop'.runs
  BY <1>3, <1>4 DEF Logs
<1>6. LoopInv'
  BY <1>1, <1>2, <1>3, <1>5 DEF LoopInv, IdleRuns, TokensAwaited, Return
<1>7. QED
  BY <1>1, <1>3, <1>5, <1>6, InsideKeeps DEF Return, board, TypeOK

LEMMA RunEndsKeeps == ASSUME AdapterInv, RunEnds PROVE AdapterInv'
  BY ReturnKeeps DEF RunEnds, AdapterInv, TypeOK

LEMMA ReportKeeps == ASSUME AdapterInv, Report PROVE AdapterInv'
<1>1. TypeOK /\ Behind /\ LoopInv
  BY DEF AdapterInv
<1>2. loop.step = "report" /\ chain # <<>> /\ \A c \in Slots : calls[c].tool # "tokens"
  BY <1>1 DEF Report, At, LoopInv, TokensAwaited
<1>3. UNCHANGED <<count, open, warnings, line, chain, active, requested, log, faults>>
  BY DEF Report
<1>4. CASE loop' = [loop EXCEPT !.step = "judge"] /\ UNCHANGED <<low, spent, calls>>
  <2>1. loop' \in Loops /\ Rounds(loop') /\ IdleRuns(loop', log)
    BY <1>1, <1>2, <1>4, StepInside DEF TypeOK, LoopInv
  <2>2. LoopInv'
    BY <1>2, <1>3, <1>4, <2>1 DEF LoopInv, TokensAwaited
  <2>3. QED
    BY <1>1, <1>3, <1>4, <2>1, <2>2, InsideKeeps DEF TypeOK
<1>5. CASE /\ open /\ Running = count
           /\ \E all \in BOOLEAN : Charge(Running, all)
           /\ calls' = [calls EXCEPT ![Reporter] = [NoCall EXCEPT !.step = "look", !.tool = "tokens"]]
           /\ loop' = [loop EXCEPT !.step = "wait"]
  <2>1. loop' \in Loops /\ Rounds(loop') /\ IdleRuns(loop', log) /\ loop'.step = "wait"
    BY <1>1, <1>2, <1>5, StepInside DEF TypeOK, LoopInv
  <2>2. low' \subseteq Sessions /\ spent' \in BOOLEAN
    BY <1>1, <1>2, <1>5, RunningType DEF Charge, TypeOK
  <2> DEFINE report == [NoCall EXCEPT !.step = "look", !.tool = "tokens"]
  <2>3. report \in Calls /\ report.tool = "tokens"
    BY DEF NoCall, Calls
  <2>4. calls' \in [Slots -> Calls]
        /\ \A s \in Slots : calls'[s] = IF s = Reporter THEN report ELSE calls[s]
    <3> HIDE DEF report
    <3> QED BY <1>1, <1>5, <2>3 DEF TypeOK, report
  <2>5. LoopInv'
    BY <1>2, <1>3, <2>1, <2>4 DEF LoopInv, TokensAwaited
  <2>6. QED
    BY <1>3, <2>1, <2>2, <2>4, <2>5, <1>1, InsideKeeps DEF TypeOK
<1>6. QED
  BY <1>4, <1>5 DEF Report

\* The next loop begins.
LEMMA NextLoopKeeps ==
  ASSUME AdapterInv, LoopOver, chain # <<>>, UNCHANGED <<board, warnings, line>>,
         calls' \in [Slots -> Calls], \A c \in Slots : calls'[c].tool # "tokens",
         faults' \in 0..MaxFaults
  PROVE  AdapterInv'
<1>1. TypeOK'
  BY LoopOverKeeps DEF AdapterInv, TypeOK, board, warnings
<1>2. QED
  BY <1>1, LoopOverKeeps DEF AdapterInv

LEMMA JudgeKeeps == ASSUME AdapterInv, Judge PROVE AdapterInv'
<1>1. TypeOK /\ Behind /\ LoopInv
  BY DEF AdapterInv
<1>2. loop.step = "judge" /\ chain # <<>> /\ \A c \in Slots : calls[c].tool # "tokens"
  BY <1>1 DEF Judge, At, LoopInv, TokensAwaited
<1>3. UNCHANGED <<board, warnings, calls, line, faults>>
  BY DEF Judge
<1>4. CASE LoopOver
  BY <1>1, <1>2, <1>3, <1>4, NextLoopKeeps DEF TypeOK
<1>5. CASE ~LoopOver
  <2>1. ~(loop.mode = "wind-down" /\ loop.extra + 1 >= WindDownRunLimit)
        /\ UNCHANGED <<chain, active, requested, log, spent>>
    BY <1>5 DEF Judge
  <2>2. PICK mode \in {"work", "wind-down"} :
          /\ mode = IF loop.mode = "wind-down" \/ WindsDown THEN "wind-down" ELSE "work"
          /\ loop' = [loop EXCEPT !.step = "ask",
                        !.extra = IF loop.mode = "wind-down" THEN loop.extra + 1 ELSE @,
                        !.mode = mode]
    BY <1>5 DEF Judge
  <2>3. mode = "work" => loop.runs <= MaxRuns
    BY <1>1, <2>2, LoopFields DEF WindsDown, TypeOK
  <2>4. loop' \in Loops /\ Rounds(loop') /\ IdleRuns(loop', log) /\ loop'.step = "ask"
    <3>1. loop \in Loops /\ log \in Logs /\ Rounds(loop) /\ IdleRuns(loop, log)
      BY <1>1 DEF TypeOK, LoopInv
    <3>2. PICK extra \in 0..WindDownRunLimit :
            /\ extra = IF loop.mode = "wind-down" THEN loop.extra + 1 ELSE loop.extra
            /\ extra < WindDownRunLimit
      BY <2>1, <3>1, LoopFields DEF Rounds
    <3>3. loop' = [loop EXCEPT !.step = "ask", !.extra = extra, !.mode = mode]
      BY <2>2, <3>2
    <3>4. QED
      BY <1>2, <2>2, <2>3, <3>1, <3>2, <3>3, JudgeRounds
  <2>5. LoopInv'
    BY <1>2, <1>3, <2>1, <2>4 DEF LoopInv, TokensAwaited
  <2>6. QED
    BY <1>1, <1>3, <2>1, <2>4, <2>5, InsideKeeps DEF TypeOK, board
<1>6. QED
  BY <1>4, <1>5

LEMMA EngineFailsKeeps == ASSUME AdapterInv, EngineFails PROVE AdapterInv'
<1>1. TypeOK /\ Behind /\ LoopInv
  BY DEF AdapterInv
<1>2. calls' \in [Slots -> Calls] /\ \A c \in Slots : calls'[c].tool = "none"
  <2>1. \A c \in Slots : calls[c] \in Calls /\ [calls[c] EXCEPT !.tool = "none"] \in Calls
                          /\ [calls[c] EXCEPT !.tool = "none"].tool = "none"
    BY <1>1 DEF TypeOK, Calls
  <2>2. QED
    BY <2>1, CallFields DEF EngineFails
<1>3. faults' \in 0..MaxFaults
  BY <1>1 DEF EngineFails, CanFail, TypeOK
<1>4. QED
  BY <1>2, <1>3, NextLoopKeeps DEF EngineFails, At

-----------------------------------------------------------------------------
(* The console. *)

LEMMA AdapterUnchanged == ASSUME AdapterInv, UNCHANGED vars PROVE AdapterInv'
  BY DEF AdapterInv, TypeOK, Behind, LoopInv, TokensAwaited, vars, board, warnings, adapter

LEMMA ConsoleUnchanged == ASSUME ConsoleInv, UNCHANGED console PROVE ConsoleInv'
  BY DEF ConsoleInv, ConsoleTypeOK, console

\* The first of the queue is answered.
LEMMA ReplyKeeps ==
  ASSUME ConsoleInv, queue # <<>>, NEW running \in BOOLEAN, Reply(running)
  PROVE  ConsoleInv'
<1>1. Head(queue) \in Page /\ Tail(queue) \in Seq(Page)
  BY DEF ConsoleInv, ConsoleTypeOK
<1>2. [running |-> running, busy |-> FALSE] \in [running : BOOLEAN, busy : BOOLEAN]
  OBVIOUS
<1>3. pages' \in [Page -> [running : BOOLEAN, busy : BOOLEAN]]
  BY <1>1, <1>2 DEF Reply, ConsoleInv, ConsoleTypeOK
<1>4. QED
  BY <1>1, <1>3 DEF Reply, ConsoleInv, ConsoleTypeOK

LEMMA HasRunType == HasRun \in BOOLEAN
  BY DEF HasRun, At

LEMMA PagesKeep ==
  ASSUME AdapterInv, ConsoleInv, NEW p \in Page, Refresh(p) \/ PressCall(p) \/ PressDone(p)
  PROVE  AdapterInv' /\ ConsoleInv'
<1>1. CASE Refresh(p)
  BY <1>1, AdapterUnchanged, HasRunType DEF Refresh, ConsoleInv, ConsoleTypeOK
<1>2. CASE PressCall(p)
  <2>1. queue' \in Seq(Page) /\ queue' # <<>>
    BY <1>2 DEF PressCall, ConsoleInv, ConsoleTypeOK
  <2>2. ConsoleInv'
    BY <1>2, <2>1 DEF PressCall, ConsoleInv, ConsoleTypeOK
  <2>3. QED
    BY <1>2, <2>2, AdapterUnchanged DEF PressCall
<1>3. CASE PressDone(p)
  <2>1. AdapterInv'
    BY <1>3, ReturnKeeps DEF PressDone, AdapterInv, TypeOK
  <2>2. QED
    BY <1>3, <2>1 DEF PressDone, ConsoleInv, ConsoleTypeOK
<1>4. QED
  BY <1>1, <1>2, <1>3

LEMMA InvokeKeeps == ASSUME AdapterInv, ConsoleInv, Invoke PROVE AdapterInv' /\ ConsoleInv'
<1>1. CASE HasRun
  BY <1>1, AdapterUnchanged DEF Invoke, ConsoleInv, ConsoleTypeOK
<1>2. CASE ~HasRun
  BY <1>2, AdapterUnchanged, ReplyKeeps DEF Invoke
<1>3. QED
  BY <1>1, <1>2

LEMMA ReachKeeps == ASSUME AdapterInv, ConsoleInv, Reach PROVE AdapterInv' /\ ConsoleInv'
<1>1. queue # <<>>
  BY DEF Reach, ConsoleInv
<1>2. CASE Refuse /\ Reply(HasRun)
  BY <1>1, <1>2, RefuseKeeps, ReplyKeeps, HasRunType
<1>3. CASE UNCHANGED vars /\ Reply(HasRun)
  BY <1>1, <1>3, AdapterUnchanged, ReplyKeeps, HasRunType
<1>4. ASSUME NEW tool \in Called, Succeed(Caller, tool), stage' = "answer",
             UNCHANGED <<pages, queue, held>>
      PROVE  AdapterInv' /\ ConsoleInv'
  <2>1. AdapterInv'
    BY <1>4, ConsoleConstants, SucceedKeeps
  <2>2. QED
    BY <1>1, <1>4, <2>1 DEF ConsoleInv, ConsoleTypeOK
<1>5. QED
  BY <1>2, <1>3, <1>4 DEF Reach

LEMMA LoseCallKeeps == ASSUME AdapterInv, ConsoleInv, LoseCall PROVE AdapterInv' /\ ConsoleInv'
<1>1. queue # <<>>
  BY DEF LoseCall, ConsoleInv
<1>2. low' \subseteq Sessions /\ line' \in BOOLEAN /\ open' = open /\ open' \in BOOLEAN
  BY DEF AdapterInv, TypeOK, LoseCall, board
<1>3. count' \in 0..MaxSessions /\ count <= count' /\ faults' \in 0..MaxFaults
  BY DEF AdapterInv, TypeOK, LoseCall, board, CanFail
<1>4. AdapterInv'
  BY <1>2, <1>3, UnseenKeep DEF LoseCall
<1>5. QED
  BY <1>1, <1>4, ReplyKeeps, HasRunType DEF LoseCall

LEMMA FinishKeeps == ASSUME AdapterInv, ConsoleInv, Finish PROVE AdapterInv' /\ ConsoleInv'
<1>1. TypeOK /\ LoopInv
  BY DEF AdapterInv
<1>2. queue # <<>>
  BY DEF Finish, ConsoleInv
<1>3. PICK entries \in IF held THEN LogsWith(calls[Caller]) ELSE {log} :
        \/ Return(entries) /\ Reply(FALSE)
        \/ /\ log' = entries /\ Reply(HasRun)
           /\ UNCHANGED <<board, warnings, line, chain, active, requested, loop, spent, faults>>
  BY DEF Finish
<1>4. calls' = [calls EXCEPT ![Caller] = NoCall]
  BY DEF Finish
<1>5. calls' \in [Slots -> Calls] /\ \A c \in Slots : calls'[c].tool \in {calls[c].tool, "none"}
  BY <1>1, <1>4, CallFields DEF TypeOK
<1>6. CASE entries \in Logs /\ entries.idle = log.idle
  <2>1. CASE Return(entries) /\ Reply(FALSE)
    BY <1>2, <1>5, <1>6, <2>1, ReturnKeeps, ReplyKeeps
  <2>2. CASE /\ log' = entries /\ Reply(HasRun)
             /\ UNCHANGED <<board, warnings, line, chain, active, requested, loop, spent, faults>>
    <3>1. LoopInv'
      BY <1>1, <1>5, <1>6, <2>2 DEF LoopInv, IdleRuns, TokensAwaited
    <3>2. AdapterInv'
      BY <1>1, <1>5, <1>6, <2>2, <3>1, InsideKeeps DEF board, TypeOK
    <3>3. QED
      BY <1>2, <2>2, <3>2, ReplyKeeps, HasRunType
  <2>3. QED
    BY <1>3, <2>1, <2>2
<1>7. entries \in Logs /\ entries.idle = log.idle
  <2>1. CASE ~held
    BY <1>1, <2>1, <1>3 DEF TypeOK
  <2>2. CASE held
    <3>1. Caller \in Slots
      BY ConsoleConstants DEF Caller, Slots
    <3>2. QED
      BY <1>1, <1>3, <2>2, <3>1, LogsWithType DEF TypeOK
  <2>3. QED
    BY <2>1, <2>2
<1>8. QED
  BY <1>6, <1>7

-----------------------------------------------------------------------------
(* The invariant is kept by every step. *)

LEMMA ServeKeeps ==
  ASSUME AdapterInv, NEW c \in Slots, Look(c) \/ Send(c) \/ Answer(c) \/ SendFails(c)
  PROVE  AdapterInv'
  BY LookKeeps, SendKeeps, AnswerKeeps, SendFailsKeeps

LEMMA AnyKeeps == ASSUME AdapterInv, Next PROVE AdapterInv'
<1>1. ASSUME NEW c \in Call, Use(c) PROVE AdapterInv'
  BY <1>1, SucceedKeeps DEF Use
<1>2. ASSUME UseInVain PROVE AdapterInv'
  BY <1>2, RefuseKeeps DEF UseInVain
<1>3. ASSUME NEW c \in Slots, Serve(c) \/ SendFails(c) PROVE AdapterInv'
  BY <1>3, ServeKeeps DEF Serve
<1>4. QED
  BY <1>1, <1>2, <1>3, StartKeeps, InterruptKeeps, BreakKeeps, ReconnectKeeps, AskKeeps,
     RunEndsKeeps, ReportKeeps, JudgeKeeps, EngineFailsKeeps DEF Next

LEMMA ConsoleKeeps ==
  ASSUME AdapterInv, ConsoleInv, ConsoleNext
  PROVE  AdapterInv' /\ ConsoleInv'
<1>1. CASE Others
  <2>1. ConsoleInv'
    BY <1>1, ConsoleUnchanged DEF Others
  <2>2. ASSUME NEW c \in Slots, Look(c) \/ Send(c) PROVE AdapterInv'
    BY <2>2, ServeKeeps
  <2>3. ASSUME Answer(Reporter) PROVE AdapterInv'
    BY <2>3, AnswerKeeps DEF Slots
  <2>4. QED
    BY <1>1, <2>1, <2>2, <2>3, StartKeeps, InterruptKeeps, AskKeeps, ReportKeeps, JudgeKeeps
    DEF Others
<1>2. CASE Served
  BY <1>2, InvokeKeeps, ReachKeeps, LoseCallKeeps, FinishKeeps DEF Served
<1>3. QED
  BY <1>1, <1>2, PagesKeep DEF ConsoleNext

LEMMA InitIInv == MCInit => IInv
<1> SUFFICES ASSUME MCInit PROVE IInv
  OBVIOUS
<1>1. TypeOK
  <2>1. /\ queued \in Seq(0..MaxSessions) /\ chain \in Seq(Sessions)
        /\ loop \in Loops /\ log \in Logs
    BY FreshLoop, EmptySeq DEF MCInit, Init
  <2>2. calls \in [Slots -> Calls]
    BY CallFields DEF MCInit, Init
  <2>3. /\ count \in 0..MaxSessions /\ active \in 0..MaxSessions /\ faults \in 0..MaxFaults
        /\ low \subseteq Sessions /\ warned \subseteq Sessions
    BY DEF MCInit, Init
  <2>4. open \in BOOLEAN /\ spent \in BOOLEAN /\ line \in BOOLEAN /\ requested \in BOOLEAN
    BY DEF MCInit, Init
  <2>5. QED
    BY <2>1, <2>2, <2>3, <2>4 DEF TypeOK
<1>2. Behind /\ LoopInv
  BY FreshLoop, CallFields DEF MCInit, Init, Behind, LoopInv, TokensAwaited
<1>3. ConsoleInv
  BY EmptySeq DEF MCInit, ConsoleInit, ConsoleInv, ConsoleTypeOK
<1>4. QED
  BY <1>1, <1>2, <1>3 DEF MCInit, IInv, AdapterInv

LEMMA NextIInv == IInv /\ [MCNext]_mcVars => IInv'
<1> SUFFICES ASSUME IInv, [MCNext]_mcVars PROVE IInv'
  OBVIOUS
<1> USE DEF IInv
<1>1. CASE Next /\ UNCHANGED <<console, engine>>
  BY <1>1, AnyKeeps, ConsoleUnchanged
<1>2. CASE ConsoleNext /\ UNCHANGED engine
  BY <1>2, ConsoleKeeps
<1>3. CASE UNCHANGED <<consoleVars, engine>>
  BY <1>3, AdapterUnchanged, ConsoleUnchanged DEF consoleVars
<1>4. QED
  BY <1>1, <1>2, <1>3 DEF MCNext, mcVars

\* Whatever the kind of engine, the invariant holds.
THEOREM Inductive == MCSpec => []IInv
<1>1. QED
  BY InitIInv, NextIInv, PTL DEF MCSpec

\* Every variable of the adapter and of the console has its type; in particular a
\* loop asks for no more runs than its limits add up to (runSessionLoop).
THEOREM TypeCorrect == MCSpec => []MCTypeOK
<1>1. IInv => MCTypeOK
  BY DEF IInv, AdapterInv, ConsoleInv, MCTypeOK
<1>2. QED
  BY <1>1, Inductive, PTL

-----------------------------------------------------------------------------
(* No limit on runs cuts an agent off. *)

\* The chain gets shorter only at the end of an iteration, or by a fault.
LEMMA WhoShortens ==
  ASSUME AdapterInv, MCNext, Len(chain') < Len(chain), faults' = faults
  PROVE  Judge
<1>1. chain \in Seq(Sessions) /\ Len(chain) \in Nat /\ chain' # chain /\ faults \in Nat
  BY DEF AdapterInv, TypeOK
<1>2. ~Start
  <2>1. SUFFICES ASSUME Start PROVE FALSE
    OBVIOUS
  <2>2. chain' = Append(chain, count')
    BY <1>1, <2>1 DEF Start, Begin, adapter
  <2>3. QED
    BY <1>1, <2>2
<1>3. ~EngineFails
  BY <1>1 DEF EngineFails
<1>4. \A c \in Slots : ~Look(c) /\ ~Send(c) /\ ~Answer(c) /\ ~SendFails(c)
  BY <1>1 DEF Look, Send, Answer, SendFails, adapter
<1>5. ~Interrupt /\ ~Break /\ ~Reconnect /\ ~Refuse /\ ~Ask /\ ~Report
  BY <1>1 DEF Interrupt, Break, Reconnect, Refuse, Ask, Report, adapter
<1>6. \A entries : ~Return(entries)
  BY <1>1 DEF Return
<1>7. \A c, tool : ~Succeed(c, tool)
  BY <1>1 DEF Succeed
<1>8. CASE Next
  BY <1>2, <1>3, <1>4, <1>5, <1>6, <1>7, <1>8 DEF Next, UseInVain, Use, RunEnds, Serve
<1>9. CASE ConsoleNext
  <2>1. ~UNCHANGED vars /\ ~UNCHANGED adapter
    BY <1>1 DEF vars, adapter
  <2>2. \A p \in Page : ~Refresh(p) /\ ~PressCall(p) /\ ~PressDone(p)
    BY <1>6, <2>1 DEF Refresh, PressCall, PressDone, vars
  <2>3. ~Invoke /\ ~Reach /\ ~LoseCall /\ ~Finish
    BY <1>1, <1>5, <1>6, <1>7, <2>1 DEF Invoke, Reach, LoseCall, Finish
  <2>4. CASE Others
    BY <1>2, <1>4, <1>5, <2>4 DEF Others, Slots
  <2>5. QED
    BY <1>9, <2>2, <2>3, <2>4 DEF ConsoleNext, Served
<1>10. QED
  BY <1>1, <1>8, <1>9 DEF MCNext, consoleVars, vars, adapter

\* A loop in which nothing was thrown is over only when the session was ended or
\* the engine was asked to wind down as often as windDownRunLimit allows, with
\* any limits and whichever the kind of engine (runSessionLoop).
THEOREM AgentsAreNotCutOff == MCSpec => NotCutOff
<1>1. ASSUME IInv, [MCNext]_mcVars
      PROVE  [Len(chain') < Len(chain) /\ faults' = faults =>
                log.ended \/ loop.asked = WindDownRunLimit]_vars
  <2> SUFFICES ASSUME Len(chain') < Len(chain), faults' = faults, ~log.ended
               PROVE  loop.asked = WindDownRunLimit
    OBVIOUS
  <2>1. AdapterInv /\ chain \in Seq(Sessions) /\ Len(chain) \in Nat
    BY <1>1 DEF IInv, AdapterInv, TypeOK
  <2>2. MCNext
    BY <1>1, <2>1 DEF mcVars, consoleVars, vars, adapter
  <2>3. Judge /\ chain' # chain
    BY <2>1, <2>2, WhoShortens
  <2>4. loop.mode = "wind-down" /\ loop.extra + 1 >= WindDownRunLimit /\ loop.step = "judge"
    BY <2>3 DEF Judge, At
  <2>5. loop \in Loops /\ log \in Logs /\ Rounds(loop)
    BY <2>1 DEF AdapterInv, TypeOK, LoopInv
  <2>6. QED
    BY <2>4, <2>5, LoopFields DEF Rounds
<1>2. QED
  BY <1>1, Inductive, PTL DEF MCSpec, NotCutOff

-----------------------------------------------------------------------------
(* An engine that waits for the answers to its calls works no more once its  *)
(* session is at the reserve.                                                *)

\* A step that concerns neither the calls nor the loop, and that does not make the
\* session of the loop the open one.
LEMMA BesideKeeps ==
  ASSUME InTime, UNCHANGED <<calls, line, chain, requested, loop, log, spent, low, warned>>,
         open' /\ Running = count' => open /\ Running = count
  PROVE  InTime'
<1>1. Running' = Running
  BY DEF Running
<1>2. Settled'
  BY DEF InTime, Settled, Quiet
<1>3. ToldInTime'
  BY <1>1 DEF InTime, ToldInTime, Spent
<1>4. QED
  BY <1>2, <1>3 DEF InTime

\* A session that is opened, if none is open, is not that of the loop.
LEMMA NewIsAnother ==
  ASSUME AdapterInv, EnsureOpen, Running = count'
  PROVE  open /\ Running = count
  BY RunningType, EnsureOpenType DEF AdapterInv

LEMMA StartInTime == ASSUME AdapterInv, InTime, Start PROVE InTime'
<1>1. UNCHANGED <<low, warned, calls, line>> /\ EnsureOpen
  BY DEF Start, warnings
<1>2. CASE UNCHANGED <<chain, requested, loop, log, spent>>
  BY <1>1, <1>2, BesideKeeps, NewIsAnother
<1>3. CASE chain = <<>> /\ loop' = Fresh /\ ~spent'
  <2>1. Quiet
    BY <1>3, FreshLoop DEF AdapterInv, LoopInv, InTime, Settled
  <2>2. Settled'
    BY <1>1, <1>3, <2>1, FreshLoop DEF Settled, Quiet
  <2>3. ToldInTime'
    BY <1>3 DEF ToldInTime, Spent
  <2>4. QED
    BY <1>1, <2>2, <2>3 DEF InTime
<1>4. CASE /\ chain # <<>> /\ chain' = Append(chain, count')
           /\ UNCHANGED <<requested, loop, log, spent>>
  <2>1. Running' = Running /\ chain' # <<>>
    BY <1>4 DEF Running, AdapterInv, TypeOK
  <2>2. Settled'
    BY <1>1, <1>4 DEF InTime, Settled, Quiet
  <2>3. Running = count' => open /\ Running = count
    BY <1>1, NewIsAnother
  <2>4. ToldInTime'
    BY <1>1, <1>4, <2>1, <2>3 DEF InTime, ToldInTime, Spent
  <2>5. QED
    BY <1>1, <2>2, <2>4 DEF InTime
<1>5. QED
  BY <1>2, <1>3, <1>4 DEF Start, Begin, adapter

LEMMA UseInTime ==
  ASSUME AdapterInv, InTime, NEW c \in Call, Use(c)
  PROVE  InTime'
<1>1. PICK tool \in Tools : Succeed(c, tool)
  BY DEF Use
<1>2. loop.step = "run" /\ chain # <<>>
  BY DEF Use, At
<1>3. UNCHANGED <<warned, line, chain, requested, loop, log>> /\ Running' = Running
  BY <1>1 DEF Succeed, warnings, Running
<1>4. PICK all \in BOOLEAN :
        /\ all => open'
        /\ Charge(count', all)
        /\ calls' = [calls EXCEPT ![c] = [step |-> "look", tool |-> tool, low |-> count' \in low']]
  BY <1>1 DEF Succeed
<1>5. Settled'
  BY <1>2, <1>3 DEF Settled
<1>6. c \in Slots /\ calls[c] = NoCall /\ calls \in [Slots -> Calls] /\ EnsureOpen
  BY <1>1 DEF Succeed, Slots, AdapterInv, TypeOK
<1>7. calls'[c].step = "look" /\ \A s \in Slots \ {c} : calls'[s] = calls[s]
  BY <1>4, <1>6
<1>8. spent' => chain' # <<>> /\ Running' \in low' /\ (Running' \in warned' => requested')
  BY <1>2, <1>3, <1>4 DEF Charge, InTime, ToldInTime
<1>9. ASSUME Spent' PROVE requested' \/ \E s \in Slots : calls'[s].step \in {"look", "send"}
  <2>1. open /\ Running = count /\ count' = count
    BY <1>3, <1>6, <1>9, NewIsAnother DEF Spent, EnsureOpen
  <2>2. CASE spent
    <3>1. requested \/ \E s \in Slots : calls[s].step \in {"look", "send"}
      BY <2>1, <2>2 DEF InTime, ToldInTime, Spent
    <3>2. QED
      BY <1>3, <1>6, <1>7, <3>1, CallFields
  <2>3. CASE ~spent
    BY <1>6, <1>7
  <2>4. QED
    BY <2>2, <2>3
<1>10. ToldInTime'
  BY <1>2, <1>3, <1>8, <1>9 DEF ToldInTime
<1>11. QED
  BY <1>3, <1>5, <1>10 DEF InTime

\* While a call has a step to go the loop asks for nothing and judges nothing.
LEMMA BusyLoop ==
  ASSUME AdapterInv, InTime, NEW c \in Slots, calls[c].step # "idle"
  PROVE  /\ loop.step \in {"run", "wait"}
         /\ loop.step = "wait" => c = Reporter
  BY CallFields, LoopFields DEF AdapterInv, TypeOK, InTime, Settled, Quiet

LEMMA LookInTime == ASSUME AdapterInv, InTime, NEW c \in Slots, Look(c) PROVE InTime'
<1>1. calls[c].step = "look" /\ UNCHANGED <<board, warnings, line, adapter, faults>>
  BY DEF Look
<1>2. loop.step \in {"run", "wait"} /\ (loop.step = "wait" => c = Reporter)
  BY <1>1, BusyLoop
<1>3. PICK step \in {"send", "answer"} :
        /\ Step(c, step)
        /\ step = IF Concerned(c) \in low /\ line /\ Concerned(c) \notin warned
                  THEN "send" ELSE "answer"
  BY DEF Look
<1>4. calls \in [Slots -> Calls] /\ calls[c] \in Calls
  BY DEF AdapterInv, TypeOK
<1>5. calls'[c].step = step /\ \A s \in Slots \ {c} : calls'[s] = calls[s]
  BY <1>3, <1>4 DEF Step, Calls
<1>6. Settled'
  BY <1>1, <1>2, <1>5 DEF InTime, Settled, adapter
<1>7. Running' = Running /\ Spent' = Spent
  BY <1>1 DEF Running, Spent, adapter, board
<1>8. ASSUME Spent PROVE requested \/ \E s \in Slots : calls'[s].step \in {"look", "send"}
  <2>1. Concerned(c) = Running /\ Running \in low /\ line
    BY <1>8 DEF Concerned, Spent, InTime, ToldInTime
  <2>2. CASE Running \in warned
    BY <1>8, <2>2 DEF Spent, InTime, ToldInTime
  <2>3. CASE Running \notin warned
    BY <1>3, <1>5, <2>1, <2>3
  <2>4. QED
    BY <2>2, <2>3
<1>9. ToldInTime'
  BY <1>1, <1>2, <1>7, <1>8 DEF InTime, ToldInTime, adapter, board, warnings
<1>10. QED
  BY <1>1, <1>6, <1>9 DEF InTime

LEMMA SendInTime == ASSUME AdapterInv, InTime, NEW c \in Slots, Send(c) PROVE InTime'
<1>1. /\ calls[c].step = "send" /\ Step(c, "answer")
      /\ UNCHANGED <<board, line, chain, active, loop, log, spent, faults>>
  BY DEF Send
<1>2. loop.step \in {"run", "wait"} /\ (loop.step = "wait" => c = Reporter)
  BY <1>1, BusyLoop
<1>3. \A s \in Slots \ {c} : calls'[s] = calls[s]
  BY <1>1 DEF Step, AdapterInv, TypeOK
<1>4. Settled'
  BY <1>1, <1>2, <1>3 DEF InTime, Settled
<1>5. Running' = Running /\ Spent' = Spent
  BY <1>1 DEF Running, Spent, board
<1>6. PICK s : s = IF open THEN count ELSE 0
  OBVIOUS
<1>7. warned' = warned \cup ({s} \ {0}) /\ requested' = (requested \/ Warns(s))
  BY <1>6 DEF Send, InTime
<1>8. spent => chain' # <<>> /\ Running \in low' /\ (Running \in warned' => requested')
  BY <1>1, <1>7 DEF InTime, ToldInTime, Warns, board
<1>9. Spent => requested'
  BY <1>6, <1>7 DEF Spent, InTime, ToldInTime, Warns
<1>10. ToldInTime'
  BY <1>1, <1>2, <1>5, <1>8, <1>9 DEF ToldInTime
<1>11. QED
  BY <1>1, <1>4, <1>10 DEF InTime

LEMMA AnswerInTime == ASSUME AdapterInv, InTime, NEW c \in Slots, Answer(c) PROVE InTime'
<1>1. /\ calls[c].step = "answer" /\ calls' = [calls EXCEPT ![c] = NoCall]
      /\ UNCHANGED <<board, warnings, line, chain, active, requested, spent, faults>>
      /\ loop' = IF calls[c].tool = "tokens" THEN [loop EXCEPT !.step = "judge"] ELSE loop
  BY DEF Answer
<1>2. loop.step \in {"run", "wait"} /\ (loop.step = "wait" => c = Reporter)
  BY <1>1, BusyLoop
<1>3. calls'[c] = NoCall /\ \A s \in Slots \ {c} : calls'[s] = calls[s]
  BY <1>1 DEF AdapterInv, TypeOK
<1>4. Settled' /\ loop'.step # "ask"
  <2>1. CASE calls[c].tool = "tokens"
    <3>1. c = Reporter /\ loop.step = "wait"
      BY <2>1 DEF AdapterInv, LoopInv, TokensAwaited
    <3>2. Quiet'
      BY <1>3, <3>1 DEF InTime, Settled, Quiet
    <3>3. loop'.step = "judge"
      BY <1>1, <2>1 DEF AdapterInv, TypeOK, Loops
    <3>4. QED
      BY <3>2, <3>3 DEF Settled
  <2>2. CASE calls[c].tool # "tokens"
    BY <1>1, <1>2, <1>3, <2>2 DEF InTime, Settled
  <2>3. QED
    BY <2>1, <2>2
<1>5. Running' = Running /\ Spent' = Spent
  BY <1>1 DEF Running, Spent, board
<1>6. Spent => requested \/ \E s \in Slots : calls'[s].step \in {"look", "send"}
  BY <1>1, <1>3 DEF InTime, ToldInTime
<1>7. ToldInTime'
  BY <1>1, <1>4, <1>5, <1>6 DEF InTime, ToldInTime, board, warnings
<1>8. QED
  BY <1>1, <1>4, <1>7 DEF InTime

LEMMA AskInTime == ASSUME AdapterInv, InTime, Ask PROVE InTime'
<1>1. loop'.step = "run" /\ UNCHANGED <<board, warnings, calls, line, chain, requested, spent>>
  BY DEF Ask, AdapterInv, TypeOK, Loops
<1>2. Running' = Running /\ Spent' = Spent
  BY <1>1 DEF Running, Spent, board
<1>3. QED
  BY <1>1, <1>2 DEF InTime, Settled, ToldInTime, board, warnings

LEMMA RunEndsInTime == ASSUME AdapterInv, InTime, RunEnds PROVE InTime'
<1>1. /\ loop'.step = "report" /\ Quiet
      /\ UNCHANGED <<board, warnings, calls, line, chain, requested, spent>>
  BY DEF RunEnds, Return, AdapterInv, TypeOK, Loops
<1>2. Running' = Running /\ Spent' = Spent
  BY <1>1 DEF Running, Spent, board
<1>3. QED
  BY <1>1, <1>2 DEF InTime, Settled, ToldInTime, board, warnings, Quiet

LEMMA ReportInTime == ASSUME AdapterInv, InTime, Report PROVE InTime'
<1>1. /\ loop.step = "report" /\ Quiet /\ chain # <<>>
      /\ UNCHANGED <<count, open, warned, line, chain, requested>>
  BY DEF Report, At, InTime, Settled, warnings
<1>2. Running' = Running
  BY <1>1 DEF Running
<1>3. CASE loop' = [loop EXCEPT !.step = "judge"] /\ UNCHANGED <<low, spent, calls>>
  <2>1. loop'.step = "judge"
    BY <1>3 DEF AdapterInv, TypeOK, Loops
  <2>2. Spent' = Spent
    BY <1>1, <1>2, <1>3 DEF Spent
  <2>3. QED
    BY <1>1, <1>2, <1>3, <2>1, <2>2 DEF InTime, Settled, ToldInTime, Quiet
<1>4. CASE /\ \E all \in BOOLEAN : Charge(Running, all)
           /\ calls' = [calls EXCEPT ![Reporter] = [NoCall EXCEPT !.step = "look", !.tool = "tokens"]]
           /\ loop' = [loop EXCEPT !.step = "wait"]
  <2>1. loop'.step = "wait"
    BY <1>4 DEF AdapterInv, TypeOK, Loops
  <2>2. /\ Reporter \in Slots /\ calls'[Reporter].step = "look"
        /\ \A s \in Slots \ {Reporter} : calls'[s] = NoCall
    BY <1>1, <1>4 DEF AdapterInv, TypeOK, Slots, Quiet, NoCall
  <2>3. spent' => Running \in low' /\ (Running \in warned => requested)
    BY <1>4 DEF Charge, InTime, ToldInTime
  <2>4. QED
    BY <1>1, <1>2, <2>1, <2>2, <2>3 DEF InTime, Settled, ToldInTime
<1>5. QED
  BY <1>3, <1>4 DEF Report

LEMMA JudgeInTime == ASSUME AdapterInv, InTime, Judge PROVE InTime'
<1>1. /\ loop.step = "judge" /\ Quiet /\ chain # <<>>
      /\ UNCHANGED <<board, warnings, calls, line>>
  BY DEF Judge, At, InTime, Settled
<1>2. CASE LoopOver
  <2>1. loop' = Fresh /\ ~spent'
    BY <1>2 DEF LoopOver
  <2>2. QED
    BY <1>1, <2>1 DEF InTime, Settled, ToldInTime, Spent, Quiet
<1>3. CASE ~LoopOver
  <2>1. UNCHANGED <<chain, requested, spent>>
    BY <1>3 DEF Judge
  <2>2. PICK mode : /\ mode = IF loop.mode = "wind-down" \/ WindsDown THEN "wind-down" ELSE "work"
                    /\ loop' = [loop EXCEPT !.step = "ask",
                          !.extra = IF loop.mode = "wind-down" THEN loop.extra + 1 ELSE @,
                          !.mode = mode]
    BY <1>3 DEF Judge
  <2>3. loop'.step = "ask" /\ loop'.mode = mode
    BY <2>2 DEF AdapterInv, TypeOK, Loops
  <2>4. Running' = Running /\ Spent' = Spent
    BY <1>1, <2>1 DEF Running, Spent, board
  <2>5. Spent => requested
    BY <1>1, CallFields DEF InTime, ToldInTime, Quiet
  <2>6. Spent => mode = "wind-down"
    BY <2>2, <2>5 DEF WindsDown
  <2>7. QED
    BY <1>1, <2>1, <2>3, <2>4, <2>5, <2>6 DEF InTime, Settled, ToldInTime, Quiet, board, warnings
<1>4. QED
  BY <1>2, <1>3

LEMMA NextInTime ==
  ASSUME AdapterInv, InTime, Next, faults = 0, faults' = 0
  PROVE  InTime'
<1>1. ~Break /\ ~EngineFails /\ \A c \in Slots : ~SendFails(c)
  BY DEF Break, EngineFails, SendFails
<1>2. ~Reconnect
  BY DEF Reconnect, InTime
<1>3. CASE UseInVain
  BY <1>3, BesideKeeps, NewIsAnother DEF UseInVain, Refuse, warnings, adapter
<1>4. CASE Interrupt
  BY <1>4, BesideKeeps DEF Interrupt, warnings, adapter
<1>5. QED
  BY <1>1, <1>2, <1>3, <1>4, StartInTime, AskInTime, RunEndsInTime, ReportInTime, JudgeInTime,
     UseInTime, LookInTime, SendInTime, AnswerInTime DEF Next, Serve

LEMMA ReserveInvKept == IInv /\ ReserveInv /\ [MCNext]_mcVars => ReserveInv'
<1> SUFFICES ASSUME IInv, ReserveInv, [MCNext]_mcVars, Prompt' PROVE InTime'
  BY DEF ReserveInv
<1>1. engine = "any" /\ engine' = engine
  BY DEF MCNext, mcVars, Prompt
<1>2. CASE UNCHANGED <<vars, engine>>
  BY <1>2, BesideKeeps DEF vars, board, warnings, adapter, ReserveInv, Prompt
<1>3. CASE Next
  <2>1. faults \in Nat /\ faults' = 0
    BY DEF IInv, AdapterInv, TypeOK, Prompt
  <2>2. faults' \in {faults, faults + 1}
    BY <1>3 DEF Next, Start, Interrupt, Break, Reconnect, UseInVain, Refuse, Ask, RunEnds,
       Return, Report, Judge, EngineFails, Use, Succeed, Serve, Look, Send, Answer, SendFails
  <2>3. faults = 0
    BY <2>1, <2>2
  <2>4. QED
    BY <1>1, <1>3, <2>1, <2>3, NextInTime DEF ReserveInv, Prompt, IInv
<1>4. QED
  BY <1>1, <1>2, <1>3 DEF MCNext, mcVars, consoleVars

\* A loop that has brought its own session to the reserve, whether by a tool or by
\* the report of its tokens, asks for no more work, with any limits and calls: the
\* warning is heard before the judgment that would ask for it
\* (maybeSendEndWarning, runSessionLoop).
THEOREM ReserveIsHeeded == MCSpec => WorkStopsAtReserve
<1>1. MCInit => ReserveInv
  BY FreshLoop DEF MCInit, Init, ReserveInv, InTime, Settled, ToldInTime, Spent, Quiet
<1>2. MCSpec => []ReserveInv
  BY <1>1, ReserveInvKept, Inductive, PTL DEF MCSpec
<1>3. ASSUME IInv, ReserveInv, [MCNext]_mcVars
      PROVE  [/\ engine = "any" /\ spent /\ open /\ Running = count
              /\ loop.step = "ask" /\ loop'.step = "run"
              => loop.mode = "wind-down" \/ faults > 0]_mcVars
  <2>1. faults \in Nat
    BY <1>3 DEF IInv, AdapterInv, TypeOK
  <2>2. QED
    BY <1>3, <2>1 DEF ReserveInv, Prompt, InTime, ToldInTime, Spent
<1>4. QED
  BY <1>2, <1>3, Inductive, PTL DEF MCSpec, WorkStopsAtReserve

-----------------------------------------------------------------------------
(* The forms and the handlers. *)

Kinds == {"string", "boolean", "string[]", "json", "uuid", "url"} \cup Enums

\* What a field that is looked at amounts to.
Usual(kind) ==
  CASE kind = "string" -> "text"
    [] kind = "boolean" -> "bool"
    [] kind = "string[]" -> "list"
    [] OTHER -> kind

\* A field asks for what the handler takes, and for all that it insists on.
Suits(field, arg) ==
  /\ field.kind \in Kinds /\ field.required \in BOOLEAN
  /\ field.required \/ arg.optional
  /\ field.kind # "json" => Usual(field.kind) \in arg.shapes
  /\ arg.shapes # {}

\* A form has one field for each argument of the handler.
Fit(fields, schema) ==
  /\ Len(fields) \in Nat /\ DOMAIN fields = 1 .. Len(fields)
  /\ \A i \in DOMAIN fields :
       /\ fields[i].name \in DOMAIN schema
       /\ Suits(fields[i], schema[fields[i].name])
       /\ \A j \in DOMAIN fields : fields[i].name = fields[j].name => i = j
  /\ \A a \in DOMAIN schema : \E i \in DOMAIN fields : fields[i].name = a

LEMMA ArgFacts ==
  \A s : /\ Arg(s).shapes = s /\ Arg(s).optional = FALSE
         /\ Optional(Arg(s)).shapes = s /\ Optional(Arg(s)).optional = TRUE
  BY DEF Arg, Optional

LEMMA UsualValues ==
  /\ Usual("string") = "text" /\ Usual("boolean") = "bool" /\ Usual("string[]") = "list"
  /\ Usual("uuid") = "uuid" /\ Usual("url") = "url"
  /\ \A e \in Enums : Usual(e) = e
  BY DEF Usual, Enums

LEMMA KindsKnown ==
  /\ {"string", "boolean", "string[]", "json", "uuid", "url"} \subseteq Kinds
  /\ Enums \subseteq Kinds
  /\ "text" \in Strings /\ "text" \in Strings \ {"empty"}
  BY DEF Kinds, Strings

LEMMA EnumsKnown ==
  /\ "THREAD_STATES" \in Enums /\ "THREAD_TYPES" \in Enums
  /\ "PROPOSAL_TARGETS" \in Enums /\ "SHARED_ARTIFACT_KINDS" \in Enums
  /\ "CONSENSUS_TYPES" \in Enums /\ "ENGINE_DIVERSITY" \in Enums
  /\ "POST_TYPES" \in Enums /\ "DECLARATION_KINDS" \in Enums
  /\ "MEMORY_LAYERS" \in Enums /\ "template kind" \in Enums
  /\ "format" \in Enums /\ "visibility" \in Enums
  BY DEF Enums

LEMMA FieldFacts ==
  ASSUME NEW name, NEW kind
  PROVE  /\ Required(name, kind).name = name /\ Voluntary(name, kind).name = name
  BY DEF Required, Voluntary

LEMMA SuitsBy ==
  ASSUME NEW name, NEW kind \in Kinds, NEW shapes, shapes # {},
         kind # "json" => Usual(kind) \in shapes
  PROVE  /\ Suits(Required(name, kind), Arg(shapes))
         /\ Suits(Voluntary(name, kind), Optional(Arg(shapes)))
  BY ArgFacts DEF Suits, Required, Voluntary

\* The kinds of fields, and the arguments that they are for.
LEMMA Suit ==
  ASSUME NEW name
  PROVE  /\ Suits(Required(name, "uuid"), Uuid)
         /\ Suits(Voluntary(name, "uuid"), Optional(Uuid))
         /\ Suits(Required(name, "string"), Text)
         /\ Suits(Voluntary(name, "string"), Optional(AnyText))
         /\ Suits(Required(name, "string[]"), Texts)
         /\ Suits(Voluntary(name, "boolean"), Optional(Bool))
         /\ Suits(Voluntary(name, "json"), Optional(Object))
         /\ Suits(Voluntary(name, "json"), Optional(Summaries))
         /\ Suits(Required(name, "url"), Url)
         /\ \A e \in Enums : /\ Suits(Required(name, e), OneOf(e))
                             /\ Suits(Voluntary(name, e), Optional(OneOf(e)))
<1> USE UsualValues, KindsKnown, SuitsBy
<1>1. Suits(Required(name, "uuid"), Uuid) /\ Suits(Voluntary(name, "uuid"), Optional(Uuid))
  BY DEF Uuid
<1>2. Suits(Required(name, "string"), Text)
  BY DEF Text
<1>3. Suits(Voluntary(name, "string"), Optional(AnyText))
  BY DEF AnyText
<1>4. \A e \in Enums : /\ Suits(Required(name, e), OneOf(e))
                      /\ Suits(Voluntary(name, e), Optional(OneOf(e)))
  BY DEF OneOf
<1>5. Suits(Required(name, "string[]"), Texts)
  BY DEF Texts
<1>6. Suits(Voluntary(name, "boolean"), Optional(Bool))
  BY DEF Bool
<1>7. /\ Suits(Voluntary(name, "json"), Optional(Object))
      /\ Suits(Voluntary(name, "json"), Optional(Summaries))
  BY DEF Object, Summaries
<1>8. Suits(Required(name, "url"), Url)
  BY DEF Url
<1> QED BY ONLY <1>1, <1>2, <1>3, <1>4, <1>5, <1>6, <1>7, <1>8

\* Forms of one field, of two, and so on.
LEMMA Fit1 ==
  ASSUME NEW schema, NEW f1,
         DOMAIN schema = {f1.name},
         Suits(f1, schema[f1.name])
  PROVE  Fit(<<f1>>, schema)
  BY DEF Fit

LEMMA Fit2 ==
  ASSUME NEW schema, NEW f1, NEW f2,
         DOMAIN schema = {f1.name, f2.name},
         f1.name # f2.name,
         Suits(f1, schema[f1.name]),
         Suits(f2, schema[f2.name])
  PROVE  Fit(<<f1, f2>>, schema)
  BY DEF Fit

LEMMA Fit3 ==
  ASSUME NEW schema, NEW f1, NEW f2, NEW f3,
         DOMAIN schema = {f1.name, f2.name, f3.name},
         f1.name # f2.name, f1.name # f3.name, f2.name # f3.name,
         Suits(f1, schema[f1.name]),
         Suits(f2, schema[f2.name]),
         Suits(f3, schema[f3.name])
  PROVE  Fit(<<f1, f2, f3>>, schema)
  BY DEF Fit

LEMMA Fit6 ==
  ASSUME NEW schema, NEW f1, NEW f2, NEW f3, NEW f4, NEW f5, NEW f6,
         DOMAIN schema = {f1.name, f2.name, f3.name, f4.name, f5.name, f6.name},
         f1.name # f2.name, f1.name # f3.name, f1.name # f4.name, f1.name # f5.name,
         f1.name # f6.name, f2.name # f3.name, f2.name # f4.name, f2.name # f5.name,
         f2.name # f6.name, f3.name # f4.name, f3.name # f5.name, f3.name # f6.name,
         f4.name # f5.name, f4.name # f6.name, f5.name # f6.name,
         Suits(f1, schema[f1.name]),
         Suits(f2, schema[f2.name]),
         Suits(f3, schema[f3.name]),
         Suits(f4, schema[f4.name]),
         Suits(f5, schema[f5.name]),
         Suits(f6, schema[f6.name])
  PROVE  Fit(<<f1, f2, f3, f4, f5, f6>>, schema)
  BY DEF Fit

LEMMA SessionFit ==
  \A t \in DOMAIN SessionForms : Fit(SessionForms[t], ServedSession[t])
<1>1. Fit(SessionForms.get_briefing, ServedSession.get_briefing)
  BY DEF Fit, SessionForms, ServedSession
<1>2. Fit(SessionForms.use_project, ServedSession.use_project)
  <2> DEFINE H == ServedSession.use_project
  <2>1. /\ DOMAIN H = {"project_id"}
        /\ Suits(Required("project_id", "uuid"), H.project_id)
    BY Suit, EnumsKnown DEF ServedSession
  <2> QED BY <2>1, Fit1, FieldFacts DEF SessionForms
<1>3. Fit(SessionForms.set_goals, ServedSession.set_goals)
  <2> DEFINE H == ServedSession.set_goals
  <2>1. /\ DOMAIN H = {"goals"}
        /\ Suits(Required("goals", "string[]"), H.goals)
    BY Suit, EnumsKnown DEF ServedSession
  <2> QED BY <2>1, Fit1, FieldFacts DEF SessionForms
<1>4. Fit(SessionForms.complete_goal, ServedSession.complete_goal)
  <2> DEFINE H == ServedSession.complete_goal
  <2>1. /\ DOMAIN H = {"goal_id"}
        /\ Suits(Required("goal_id", "uuid"), H.goal_id)
    BY Suit, EnumsKnown DEF ServedSession
  <2> QED BY <2>1, Fit1, FieldFacts DEF SessionForms
<1> QED BY ONLY <1>1, <1>2, <1>3, <1>4 DEF SessionForms

LEMMA ReadingFit ==
  \A t \in DOMAIN ReadingForms : Fit(ReadingForms[t], ServedReading[t])
<1>1. Fit(ReadingForms.search_threads, ServedReading.search_threads)
  <2> DEFINE H == ServedReading.search_threads
  <2>1. /\ DOMAIN H = {"project_id", "textQuery", "state", "type", "target",
                     "sharedArtifactKind"}
        /\ Suits(Voluntary("project_id", "uuid"), H.project_id)
        /\ Suits(Voluntary("textQuery", "string"), H.textQuery)
        /\ Suits(Voluntary("state", "THREAD_STATES"), H.state)
        /\ Suits(Voluntary("type", "THREAD_TYPES"), H.type)
        /\ Suits(Voluntary("target", "PROPOSAL_TARGETS"), H.target)
        /\ Suits(Voluntary("sharedArtifactKind", "SHARED_ARTIFACT_KINDS"), H.sharedArtifactKind)
    BY Suit, EnumsKnown DEF ServedReading
  <2> QED BY <2>1, Fit6, FieldFacts DEF ReadingForms
<1>2. Fit(ReadingForms.search_decisions, ServedReading.search_decisions)
  <2> DEFINE H == ServedReading.search_decisions
  <2>1. /\ DOMAIN H = {"project_id", "onlyActiveBinding", "sharedArtifactKind"}
        /\ Suits(Voluntary("project_id", "uuid"), H.project_id)
        /\ Suits(Voluntary("onlyActiveBinding", "boolean"), H.onlyActiveBinding)
        /\ Suits(Voluntary("sharedArtifactKind", "SHARED_ARTIFACT_KINDS"), H.sharedArtifactKind)
    BY Suit, EnumsKnown DEF ServedReading
  <2> QED BY <2>1, Fit3, FieldFacts DEF ReadingForms
<1>3. Fit(ReadingForms.list_system_templates, ServedReading.list_system_templates)
  <2> DEFINE H == ServedReading.list_system_templates
  <2>1. /\ DOMAIN H = {"kind"}
        /\ Suits(Voluntary("kind", "template kind"), H.kind)
    BY Suit, EnumsKnown DEF ServedReading
  <2> QED BY <2>1, Fit1, FieldFacts DEF ReadingForms
<1>4. Fit(ReadingForms.list_shared_artifacts, ServedReading.list_shared_artifacts)
  <2> DEFINE H == ServedReading.list_shared_artifacts
  <2>1. /\ DOMAIN H = {"project_id", "kind"}
        /\ Suits(Voluntary("project_id", "uuid"), H.project_id)
        /\ Suits(Voluntary("kind", "SHARED_ARTIFACT_KINDS"), H.kind)
    BY Suit, EnumsKnown DEF ServedReading
  <2> QED BY <2>1, Fit2, FieldFacts DEF ReadingForms
<1>5. Fit(ReadingForms.read_thread, ServedReading.read_thread)
  <2> DEFINE H == ServedReading.read_thread
  <2>1. /\ DOMAIN H = {"thread_id"}
        /\ Suits(Required("thread_id", "uuid"), H.thread_id)
    BY Suit, EnumsKnown DEF ServedReading
  <2> QED BY <2>1, Fit1, FieldFacts DEF ReadingForms
<1> QED BY ONLY <1>1, <1>2, <1>3, <1>4, <1>5 DEF ReadingForms

LEMMA CreationFit == Fit(CreationForm.create_thread, ServedDeciding.create_thread)
<1> DEFINE F == CreationForm.create_thread
           H == ServedDeciding.create_thread
<1>1. Len(F) = 12 /\ DOMAIN F = 1 .. 12
  BY DEF CreationForm
<1>2. /\ F[1].name = "type" /\ F[2].name = "title" /\ F[3].name = "trigger"
      /\ F[4].name = "duplicateSearchQuery" /\ F[5].name = "consensusType"
      /\ F[6].name = "engineDiversity" /\ F[7].name = "humanRequired"
      /\ F[8].name = "target" /\ F[9].name = "sharedArtifactKind"
      /\ F[10].name = "conflictCitationsChecked" /\ F[11].name = "parentThreadId"
      /\ F[12].name = "project_id"
  BY FieldFacts DEF CreationForm
<1>3. DOMAIN H =
        {"type", "title", "trigger", "duplicateSearchQuery", "consensusType",
         "engineDiversity", "humanRequired", "target", "sharedArtifactKind",
         "conflictCitationsChecked", "parentThreadId", "project_id"}
  BY DEF ServedDeciding
<1>4. /\ Suits(F[1], H.type) /\ Suits(F[2], H.title) /\ Suits(F[3], H.trigger)
      /\ Suits(F[4], H.duplicateSearchQuery) /\ Suits(F[5], H.consensusType)
      /\ Suits(F[6], H.engineDiversity) /\ Suits(F[7], H.humanRequired)
      /\ Suits(F[8], H.target) /\ Suits(F[9], H.sharedArtifactKind)
      /\ Suits(F[10], H.conflictCitationsChecked) /\ Suits(F[11], H.parentThreadId)
      /\ Suits(F[12], H.project_id)
  BY Suit, EnumsKnown DEF CreationForm, ServedDeciding
<1>5. 12 \in Nat /\ \A i \in 1 .. 12 : i \in {1, 2, 3, 4, 5, 6, 7, 8, 9, 10, 11, 12}
  OBVIOUS
<1> HIDE DEF F, H
<1>6. \A i \in DOMAIN F : Suits(F[i], H[F[i].name])
  BY <1>1, <1>2, <1>4, <1>5
<1>7. \A i, j \in DOMAIN F : F[i].name = F[j].name => i = j
  BY <1>1, <1>2, <1>5
<1>8. \A i \in DOMAIN F : F[i].name \in DOMAIN H
  BY <1>1, <1>2, <1>3, <1>5
<1>9. \A a \in DOMAIN H : \E i \in DOMAIN F : F[i].name = a
  BY <1>1, <1>2, <1>3
<1>10. Fit(F, H)
  BY <1>1, <1>5, <1>6, <1>7, <1>8, <1>9 DEF Fit
<1> QED BY <1>10 DEF F, H

LEMMA DecisionFit ==
  \A t \in DOMAIN DecisionForms : Fit(DecisionForms[t], ServedDeciding[t])
<1>1. Fit(DecisionForms.add_proposal, ServedDeciding.add_proposal)
  <2> DEFINE H == ServedDeciding.add_proposal
  <2>1. /\ DOMAIN H = {"thread_id", "content"}
        /\ Suits(Required("thread_id", "uuid"), H.thread_id)
        /\ Suits(Required("content", "string"), H.content)
    BY Suit, EnumsKnown DEF ServedDeciding
  <2> QED BY <2>1, Fit2, FieldFacts DEF DecisionForms
<1>2. Fit(DecisionForms.post, ServedDeciding.post)
  <2> DEFINE H == ServedDeciding.post
  <2>1. /\ DOMAIN H = {"thread_id", "type", "body", "rationale", "blocking",
                     "proposal_version_id"}
        /\ Suits(Required("thread_id", "uuid"), H.thread_id)
        /\ Suits(Required("type", "POST_TYPES"), H.type)
        /\ Suits(Required("body", "string"), H.body)
        /\ Suits(Voluntary("rationale", "string"), H.rationale)
        /\ Suits(Voluntary("blocking", "boolean"), H.blocking)
        /\ Suits(Voluntary("proposal_version_id", "uuid"), H.proposal_version_id)
    BY Suit, EnumsKnown DEF ServedDeciding
  <2> QED BY <2>1, Fit6, FieldFacts DEF DecisionForms
<1>3. Fit(DecisionForms.declare, ServedDeciding.declare)
  <2> DEFINE H == ServedDeciding.declare
  <2>1. /\ DOMAIN H = {"thread_id", "kind", "payload"}
        /\ Suits(Required("thread_id", "uuid"), H.thread_id)
        /\ Suits(Required("kind", "DECLARATION_KINDS"), H.kind)
        /\ Suits(Voluntary("payload", "json"), H.payload)
    BY Suit, EnumsKnown DEF ServedDeciding
  <2> QED BY <2>1, Fit3, FieldFacts DEF DecisionForms
<1> QED BY ONLY <1>1, <1>2, <1>3 DEF DecisionForms

LEMMA WorkFit ==
  \A t \in DOMAIN WorkForms : Fit(WorkForms[t], ServedWork[t])
<1>1. Fit(WorkForms.claim_work, ServedWork.claim_work)
  <2> DEFINE H == ServedWork.claim_work
  <2>1. /\ DOMAIN H = {"thread_id", "paths"}
        /\ Suits(Required("thread_id", "uuid"), H.thread_id)
        /\ Suits(Required("paths", "string[]"), H.paths)
    BY Suit, EnumsKnown DEF ServedWork
  <2> QED BY <2>1, Fit2, FieldFacts DEF WorkForms
<1>2. Fit(WorkForms.release_work, ServedWork.release_work)
  <2> DEFINE H == ServedWork.release_work
  <2>1. /\ DOMAIN H = {"claim_id"}
        /\ Suits(Required("claim_id", "uuid"), H.claim_id)
    BY Suit, EnumsKnown DEF ServedWork
  <2> QED BY <2>1, Fit1, FieldFacts DEF WorkForms
<1>3. Fit(WorkForms.list_work_claims, ServedWork.list_work_claims)
  <2> DEFINE H == ServedWork.list_work_claims
  <2>1. /\ DOMAIN H = {"project_id"}
        /\ Suits(Voluntary("project_id", "uuid"), H.project_id)
    BY Suit, EnumsKnown DEF ServedWork
  <2> QED BY <2>1, Fit1, FieldFacts DEF WorkForms
<1> QED BY ONLY <1>1, <1>2, <1>3 DEF WorkForms

LEMMA MemoryFit ==
  \A t \in DOMAIN MemoryForms : Fit(MemoryForms[t], ServedMemory[t])
<1>1. Fit(MemoryForms.write_memory, ServedMemory.write_memory)
  <2> DEFINE H == ServedMemory.write_memory
  <2>1. /\ DOMAIN H = {"body", "supersede_id", "layer"}
        /\ Suits(Required("body", "string"), H.body)
        /\ Suits(Voluntary("supersede_id", "uuid"), H.supersede_id)
        /\ Suits(Voluntary("layer", "MEMORY_LAYERS"), H.layer)
    BY Suit, EnumsKnown DEF ServedMemory
  <2> QED BY <2>1, Fit3, FieldFacts DEF MemoryForms
<1>2. Fit(MemoryForms.write_note, ServedMemory.write_note)
  <2> DEFINE H == ServedMemory.write_note
  <2>1. /\ DOMAIN H = {"note_id", "title", "body", "format", "visibility",
                     "project_id"}
        /\ Suits(Voluntary("note_id", "uuid"), H.note_id)
        /\ Suits(Required("title", "string"), H.title)
        /\ Suits(Required("body", "string"), H.body)
        /\ Suits(Required("format", "format"), H.format)
        /\ Suits(Voluntary("visibility", "visibility"), H.visibility)
        /\ Suits(Voluntary("project_id", "uuid"), H.project_id)
    BY Suit, EnumsKnown DEF ServedMemory
  <2> QED BY <2>1, Fit6, FieldFacts DEF MemoryForms
<1>3. Fit(MemoryForms.search_notes, ServedMemory.search_notes)
  <2> DEFINE H == ServedMemory.search_notes
  <2>1. /\ DOMAIN H = {"textQuery", "project_id"}
        /\ Suits(Voluntary("textQuery", "string"), H.textQuery)
        /\ Suits(Voluntary("project_id", "uuid"), H.project_id)
    BY Suit, EnumsKnown DEF ServedMemory
  <2> QED BY <2>1, Fit2, FieldFacts DEF MemoryForms
<1>4. Fit(MemoryForms.read_note, ServedMemory.read_note)
  <2> DEFINE H == ServedMemory.read_note
  <2>1. /\ DOMAIN H = {"note_id"}
        /\ Suits(Required("note_id", "uuid"), H.note_id)
    BY Suit, EnumsKnown DEF ServedMemory
  <2> QED BY <2>1, Fit1, FieldFacts DEF MemoryForms
<1>5. Fit(MemoryForms.comment_note, ServedMemory.comment_note)
  <2> DEFINE H == ServedMemory.comment_note
  <2>1. /\ DOMAIN H = {"note_id", "body"}
        /\ Suits(Required("note_id", "uuid"), H.note_id)
        /\ Suits(Required("body", "string"), H.body)
    BY Suit, EnumsKnown DEF ServedMemory
  <2> QED BY <2>1, Fit2, FieldFacts DEF MemoryForms
<1> QED BY ONLY <1>1, <1>2, <1>3, <1>4, <1>5 DEF MemoryForms

LEMMA ClosingFit ==
  /\ Fit(ClosingForms.link_pull_request, ServedWork.link_pull_request)
  /\ Fit(ClosingForms.end_session, ServedClosing.end_session)
<1>1. Fit(ClosingForms.link_pull_request, ServedWork.link_pull_request)
  <2> DEFINE H == ServedWork.link_pull_request
  <2>1. /\ DOMAIN H = {"thread_id", "url"}
        /\ Suits(Required("thread_id", "uuid"), H.thread_id)
        /\ Suits(Required("url", "url"), H.url)
    BY Suit, EnumsKnown DEF ServedWork
  <2> QED BY <2>1, Fit2, FieldFacts DEF ClosingForms
<1>2. Fit(ClosingForms.end_session, ServedClosing.end_session)
  <2> DEFINE H == ServedClosing.end_session
  <2>1. /\ DOMAIN H = {"handover", "projects"}
        /\ Suits(Required("handover", "string"), H.handover)
        /\ Suits(Voluntary("projects", "json"), H.projects)
    BY Suit, EnumsKnown DEF ServedClosing
  <2> QED BY <2>1, Fit2, FieldFacts DEF ClosingForms
<1> QED BY ONLY <1>1, <1>2 DEF ClosingForms

LEMMA FormNames ==
  /\ DOMAIN SessionForms = {"get_briefing", "use_project", "set_goals", "complete_goal"}
  /\ DOMAIN ReadingForms =
       {"search_threads", "search_decisions", "list_system_templates",
        "list_shared_artifacts", "read_thread"}
  /\ DOMAIN CreationForm = {"create_thread"}
  /\ DOMAIN DecisionForms = {"add_proposal", "post", "declare"}
  /\ DOMAIN WorkForms = {"claim_work", "release_work", "list_work_claims"}
  /\ DOMAIN MemoryForms =
       {"write_memory", "write_note", "search_notes", "read_note", "comment_note"}
  /\ DOMAIN ClosingForms = {"link_pull_request", "end_session"}
  BY DEF SessionForms, ReadingForms, CreationForm, DecisionForms, WorkForms, MemoryForms,
         ClosingForms

LEMMA ServedNames ==
  /\ DOMAIN ServedSession = DOMAIN SessionForms
  /\ DOMAIN ServedReading = DOMAIN ReadingForms
  /\ DOMAIN ServedDeciding = {"create_thread", "add_proposal", "post", "declare"}
  /\ DOMAIN ServedWork =
       {"link_pull_request", "claim_work", "release_work", "list_work_claims"}
  /\ DOMAIN ServedMemory = DOMAIN MemoryForms
  /\ DOMAIN ServedClosing = {"end_session"}
  BY DEF SessionForms, ReadingForms, MemoryForms, ServedSession, ServedReading,
         ServedDeciding, ServedWork, ServedMemory, ServedClosing

\* Which handler serves which call.
LEMMA HandlersBy ==
  /\ DOMAIN handlers = DOMAIN BOARD_TOOLS
  /\ \A t \in DOMAIN ServedSession : handlers[t] = ServedSession[t]
  /\ \A t \in DOMAIN ServedReading : handlers[t] = ServedReading[t]
  /\ \A t \in DOMAIN ServedDeciding : handlers[t] = ServedDeciding[t]
  /\ \A t \in DOMAIN ServedWork : handlers[t] = ServedWork[t]
  /\ \A t \in DOMAIN ServedMemory : handlers[t] = ServedMemory[t]
  /\ \A t \in DOMAIN ServedClosing : handlers[t] = ServedClosing[t]
<1>1. DOMAIN handlers = DOMAIN BOARD_TOOLS
  BY FormNames, ServedNames DEF Both, handlers, BOARD_TOOLS
<1>2. \A t \in DOMAIN ServedSession : handlers[t] = ServedSession[t]
  BY DEF Both, handlers
<1>3. \A t \in DOMAIN ServedReading : handlers[t] = ServedReading[t]
  BY FormNames, ServedNames DEF Both, handlers
<1>4. \A t \in DOMAIN ServedDeciding : handlers[t] = ServedDeciding[t]
  BY FormNames, ServedNames DEF Both, handlers
<1>5. \A t \in DOMAIN ServedWork : handlers[t] = ServedWork[t]
  BY FormNames, ServedNames DEF Both, handlers
<1>6. \A t \in DOMAIN ServedMemory : handlers[t] = ServedMemory[t]
  BY FormNames, ServedNames DEF Both, handlers
<1>7. \A t \in DOMAIN ServedClosing : handlers[t] = ServedClosing[t]
  BY FormNames, ServedNames DEF Both, handlers
<1> QED BY ONLY <1>1, <1>2, <1>3, <1>4, <1>5, <1>6, <1>7

\* Every form fits the handler that its calls reach.
LEMMA FormsSuit ==
  \A t \in DOMAIN BOARD_TOOLS : t \in DOMAIN handlers /\ Fit(BOARD_TOOLS[t], handlers[t])
<1>1. \A t \in DOMAIN SessionForms : Fit(BOARD_TOOLS[t], handlers[t])
  <2>1. \A t \in DOMAIN SessionForms : BOARD_TOOLS[t] = SessionForms[t]
    BY DEF Both, BOARD_TOOLS
  <2> QED BY <2>1, SessionFit, HandlersBy, ServedNames
<1>2. \A t \in DOMAIN ReadingForms : Fit(BOARD_TOOLS[t], handlers[t])
  <2>1. \A t \in DOMAIN ReadingForms : BOARD_TOOLS[t] = ReadingForms[t]
    BY FormNames DEF Both, BOARD_TOOLS
  <2> QED BY <2>1, ReadingFit, HandlersBy, ServedNames
<1>3. \A t \in DOMAIN CreationForm : Fit(BOARD_TOOLS[t], handlers[t])
  <2>1. \A t \in DOMAIN CreationForm : BOARD_TOOLS[t] = CreationForm[t]
    BY FormNames DEF Both, BOARD_TOOLS
  <2> QED BY <2>1, CreationFit, HandlersBy, ServedNames, FormNames
<1>4. \A t \in DOMAIN DecisionForms : Fit(BOARD_TOOLS[t], handlers[t])
  <2>1. \A t \in DOMAIN DecisionForms : BOARD_TOOLS[t] = DecisionForms[t]
    BY FormNames DEF Both, BOARD_TOOLS
  <2> QED BY <2>1, DecisionFit, HandlersBy, ServedNames, FormNames
<1>5. \A t \in DOMAIN WorkForms : Fit(BOARD_TOOLS[t], handlers[t])
  <2>1. \A t \in DOMAIN WorkForms : BOARD_TOOLS[t] = WorkForms[t]
    BY FormNames DEF Both, BOARD_TOOLS
  <2> QED BY <2>1, WorkFit, HandlersBy, ServedNames, FormNames
<1>6. \A t \in DOMAIN MemoryForms : Fit(BOARD_TOOLS[t], handlers[t])
  <2>1. \A t \in DOMAIN MemoryForms : BOARD_TOOLS[t] = MemoryForms[t]
    BY FormNames DEF Both, BOARD_TOOLS
  <2> QED BY <2>1, MemoryFit, HandlersBy, ServedNames
<1>7. \A t \in DOMAIN ClosingForms : Fit(BOARD_TOOLS[t], handlers[t])
  <2>1. \A t \in DOMAIN ClosingForms : BOARD_TOOLS[t] = ClosingForms[t]
    BY FormNames DEF Both, BOARD_TOOLS
  <2> QED BY <2>1, ClosingFit, HandlersBy, ServedNames, FormNames
<1>8. DOMAIN BOARD_TOOLS =
        DOMAIN SessionForms \cup DOMAIN ReadingForms \cup DOMAIN CreationForm
        \cup DOMAIN DecisionForms \cup DOMAIN WorkForms \cup DOMAIN MemoryForms
        \cup DOMAIN ClosingForms
  BY DEF Both, BOARD_TOOLS
<1> QED BY <1>1, <1>2, <1>3, <1>4, <1>5, <1>6, <1>7, <1>8, HandlersBy

\* The proxy asks for what the handler asks for, but lets a handover be empty.
LEMMA ProxyAsksTheSame ==
  \A t \in DOMAIN MCP_PROXY_TOOLS :
    /\ t \in DOMAIN handlers
    /\ IF t = "end_session"
       THEN MCP_PROXY_TOOLS[t] = [handover |-> AnyText, projects |-> Optional(Summaries)]
       ELSE MCP_PROXY_TOOLS[t] = handlers[t]
<1>1. /\ DOMAIN ProxyReading = DOMAIN ServedSession \cup DOMAIN ServedReading
      /\ DOMAIN ProxyDeciding = DOMAIN ServedDeciding
      /\ DOMAIN ProxyWorking =
           DOMAIN ServedWork \cup DOMAIN ServedMemory \cup {"end_session"}
  BY FormNames, ServedNames DEF ProxyReading, ProxyDeciding, ProxyWorking
<1>2. \A t \in DOMAIN ServedSession : MCP_PROXY_TOOLS[t] = handlers[t]
  <2>1. \A t \in DOMAIN ServedSession : ProxyReading[t] = ServedSession[t]
    <3>1. ProxyReading.get_briefing = ServedSession.get_briefing
      BY DEF ProxyReading, ServedSession
    <3>2. ProxyReading.use_project = ServedSession.use_project
      BY DEF ProxyReading, ServedSession
    <3>3. ProxyReading.set_goals = ServedSession.set_goals
      BY DEF ProxyReading, ServedSession
    <3>4. ProxyReading.complete_goal = ServedSession.complete_goal
      BY DEF ProxyReading, ServedSession
    <3> QED BY <3>1, <3>2, <3>3, <3>4, FormNames, ServedNames
  <2> QED BY <2>1, <1>1, HandlersBy DEF Both, MCP_PROXY_TOOLS
<1>3. \A t \in DOMAIN ServedReading : MCP_PROXY_TOOLS[t] = handlers[t]
  <2>1. \A t \in DOMAIN ServedReading : ProxyReading[t] = ServedReading[t]
    <3>1. ProxyReading.search_threads = ServedReading.search_threads
      BY DEF ProxyReading, ServedReading
    <3>2. ProxyReading.search_decisions = ServedReading.search_decisions
      BY DEF ProxyReading, ServedReading
    <3>3. ProxyReading.list_system_templates = ServedReading.list_system_templates
      BY DEF ProxyReading, ServedReading
    <3>4. ProxyReading.list_shared_artifacts = ServedReading.list_shared_artifacts
      BY DEF ProxyReading, ServedReading
    <3>5. ProxyReading.read_thread = ServedReading.read_thread
      BY DEF ProxyReading, ServedReading
    <3> QED BY <3>1, <3>2, <3>3, <3>4, <3>5, FormNames, ServedNames
  <2> QED BY <2>1, <1>1, HandlersBy DEF Both, MCP_PROXY_TOOLS
<1>4. \A t \in DOMAIN ServedDeciding : MCP_PROXY_TOOLS[t] = handlers[t]
  <2>1. \A t \in DOMAIN ServedDeciding : ProxyDeciding[t] = ServedDeciding[t]
    BY DEF ProxyDeciding, ServedDeciding
  <2> QED BY <2>1, <1>1, HandlersBy, FormNames, ServedNames DEF Both, MCP_PROXY_TOOLS
<1>5. \A t \in DOMAIN ServedWork : MCP_PROXY_TOOLS[t] = handlers[t]
  <2>1. \A t \in DOMAIN ServedWork : ProxyWorking[t] = ServedWork[t]
    BY DEF ProxyWorking, ServedWork
  <2> QED BY <2>1, <1>1, HandlersBy, FormNames, ServedNames DEF Both, MCP_PROXY_TOOLS
<1>6. \A t \in DOMAIN ServedMemory : MCP_PROXY_TOOLS[t] = handlers[t]
  <2>1. \A t \in DOMAIN ServedMemory : ProxyWorking[t] = ServedMemory[t]
    BY DEF ProxyWorking, ServedMemory
  <2> QED BY <2>1, <1>1, HandlersBy, FormNames, ServedNames DEF Both, MCP_PROXY_TOOLS
<1>7. MCP_PROXY_TOOLS["end_session"] = [handover |-> AnyText, projects |-> Optional(Summaries)]
  <2>1. ProxyWorking["end_session"] = [handover |-> AnyText, projects |-> Optional(Summaries)]
    BY DEF ProxyWorking
  <2> QED BY <2>1, <1>1, FormNames, ServedNames DEF Both, MCP_PROXY_TOOLS
<1>8. DOMAIN MCP_PROXY_TOOLS =
        DOMAIN ProxyReading \cup DOMAIN ProxyDeciding \cup DOMAIN ProxyWorking
  BY DEF Both, MCP_PROXY_TOOLS
<1>9. DOMAIN MCP_PROXY_TOOLS \subseteq DOMAIN handlers
  <2>1. DOMAIN handlers =
          DOMAIN ServedSession \cup DOMAIN ServedReading \cup DOMAIN ServedDeciding
          \cup DOMAIN ServedWork \cup DOMAIN ServedMemory \cup DOMAIN ServedClosing
    BY DEF Both, handlers
  <2> QED BY <2>1, <1>1, <1>8, ServedNames
<1>10. "end_session" \notin DOMAIN ServedSession \cup DOMAIN ServedReading
          \cup DOMAIN ServedDeciding \cup DOMAIN ServedWork \cup DOMAIN ServedMemory
  BY FormNames, ServedNames
<1> QED BY <1>1, <1>2, <1>3, <1>4, <1>5, <1>6, <1>7, <1>8, <1>9, <1>10

-----------------------------------------------------------------------------
(* The forms as they are filled in. *)

\* What a field can have been answered with.
Good(by, field, answer) ==
  IF answer = "none" THEN by = "terminal" => ~field.required
                     ELSE answer = Usual(field.kind) \/ field.kind \in Unread[by]

Answers == Shapes \cup {"none"}
Given(answers) == {k \in DOMAIN answers : answers[k] # "none"}

Told(fields, answers, args) ==
  /\ DOMAIN args = {fields[k].name : k \in Given(answers)}
  /\ \A k \in Given(answers) : args[fields[k].name] = answers[k]

Filled(by, fields, answers, args) ==
  /\ answers \in Seq(Answers) /\ Len(answers) <= Len(fields)
  /\ \A k \in DOMAIN answers : Good(by, fields[k], answers[k])
  /\ Told(fields, answers, args)

Formed(f) ==
  /\ f \in [by : {f.by}, tool : {f.tool}, at : {f.at}, args : {f.args}, items : {f.items},
           answers : {f.answers}, hints : {f.hints}]
  /\ f.by \in {"person", "json", "terminal", "page", "proxy"}
  /\ f.at = "choose" => f.by = "person" /\ f.answers = <<>> /\ f.args = <<>>
  /\ f.by = "person" => f.at = "choose"
  /\ f.at = "bulk" => f.answers = <<>> /\ f.args = <<>>
  /\ f.by \in {"terminal", "page"} =>
       /\ f.tool \in DOMAIN BOARD_TOOLS
       /\ Filled(f.by, BOARD_TOOLS[f.tool], f.answers, f.args)
       /\ f.at = "sent" =>
            \A i \in DOMAIN BOARD_TOOLS[f.tool] :
              BOARD_TOOLS[f.tool][i].required => BOARD_TOOLS[f.tool][i].name \in DOMAIN f.args
  /\ f.by = "proxy" =>
       /\ f.at = "sent" /\ f.tool \in DOMAIN MCP_PROXY_TOOLS
       /\ f.args \in Accepted(MCP_PROXY_TOOLS[f.tool])

FormInv == Formed(form)

LEMMA FilledNot ==
  ASSUME NEW by, NEW tool \in DOMAIN BOARD_TOOLS
  PROVE  Filled(by, BOARD_TOOLS[tool], <<>>, <<>>)
  BY FormsSuit DEF Fit, Filled, Told, Given

LEMMA FilledFurther ==
  ASSUME NEW by, NEW tool \in DOMAIN BOARD_TOOLS, NEW answers, NEW args,
         Filled(by, BOARD_TOOLS[tool], answers, args),
         Len(answers) < Len(BOARD_TOOLS[tool]),
         NEW answer \in Answers, Good(by, BOARD_TOOLS[tool][Len(answers) + 1], answer)
  PROVE  Filled(by, BOARD_TOOLS[tool], Append(answers, answer),
                IF answer = "none" THEN args
                ELSE WithArg(args, BOARD_TOOLS[tool][Len(answers) + 1].name, answer))
<1> DEFINE F == BOARD_TOOLS[tool]
           n == Len(answers) + 1
           longer == Append(answers, answer)
           more == IF answer = "none" THEN args ELSE WithArg(args, F[n].name, answer)
<1>0. /\ Len(F) \in Nat /\ DOMAIN F = 1 .. Len(F)
      /\ \A i, j \in DOMAIN F : F[i].name = F[j].name => i = j
      /\ Filled(by, F, answers, args) /\ Good(by, F[n], answer) /\ Len(answers) < Len(F)
  BY FormsSuit DEF Fit
<1> HIDE DEF F
<1>1. answers \in Seq(Answers) /\ Len(answers) \in Nat /\ DOMAIN answers = 1 .. Len(answers)
  BY <1>0 DEF Filled
<1>2. /\ longer \in Seq(Answers) /\ Len(longer) = n /\ DOMAIN longer = 1 .. n
      /\ longer[n] = answer /\ \A k \in DOMAIN answers : longer[k] = answers[k]
      /\ \A k \in 1 .. n : k \in DOMAIN answers \/ k = n
      /\ DOMAIN answers \subseteq 1 .. n /\ n \in 1 .. n /\ n \notin DOMAIN answers
      /\ n \in DOMAIN F /\ DOMAIN answers \subseteq DOMAIN F
  BY <1>0, <1>1
<1> HIDE DEF longer
<1>3. Given(longer) = Given(answers) \cup (IF answer = "none" THEN {} ELSE {n})
  BY <1>2 DEF Given
<1> HIDE DEF n
<1>4. \A k \in DOMAIN longer : Good(by, F[k], longer[k])
  BY <1>0, <1>2 DEF Filled
<1>5. Told(F, longer, more)
  <2>1. CASE answer = "none"
    BY <2>1, <1>0, <1>2, <1>3 DEF Told, Filled, Given
  <2>2. CASE answer # "none"
    <3>1. more = WithArg(args, F[n].name, answer)
      BY <2>2
    <3>2. /\ DOMAIN more = DOMAIN args \cup {F[n].name}
          /\ more[F[n].name] = answer
          /\ \A a \in DOMAIN args : a # F[n].name => more[a] = args[a]
      BY <3>1 DEF WithArg
    <3>3. \A k \in Given(answers) : F[k].name # F[n].name /\ F[k].name \in DOMAIN args
                                   /\ args[F[k].name] = answers[k]
      BY <1>0, <1>2 DEF Filled, Told, Given
    <3> HIDE DEF more
    <3>4. DOMAIN more = {F[k].name : k \in Given(longer)}
      <4>1. DOMAIN args = {F[k].name : k \in Given(answers)}
        BY <1>0 DEF Filled, Told
      <4>2. Given(longer) = Given(answers) \cup {n}
        BY <1>3, <2>2
      <4> QED BY <4>1, <4>2, <3>2
    <3>5. \A k \in Given(longer) : more[F[k].name] = longer[k]
      BY <3>2, <3>3, <1>2, <1>3, <2>2 DEF Given
    <3> QED BY <3>4, <3>5 DEF Told
  <2> QED BY <2>1, <2>2
<1>6. Len(longer) <= Len(F)
  BY <1>0, <1>1, <1>2 DEF n
<1> QED BY <1>2, <1>4, <1>5, <1>6 DEF Filled, F, longer, n

\* The arguments without that of the last field answered.
Without(fields, answers, args) ==
  [a \in DOMAIN args \ {fields[Len(answers)].name} |-> args[a]]

LEMMA FilledBack ==
  ASSUME NEW by, NEW tool \in DOMAIN BOARD_TOOLS, NEW answers, NEW args,
         Filled(by, BOARD_TOOLS[tool], answers, args), answers # <<>>
  PROVE  Filled(by, BOARD_TOOLS[tool], Front(answers), Without(BOARD_TOOLS[tool], answers, args))
<1> DEFINE F == BOARD_TOOLS[tool]
           n == Len(answers)
           fewer == Front(answers)
           less == Without(F, answers, args)
<1>0. /\ Len(F) \in Nat /\ DOMAIN F = 1 .. Len(F)
      /\ \A i, j \in DOMAIN F : F[i].name = F[j].name => i = j
      /\ Filled(by, F, answers, args)
  BY FormsSuit DEF Fit
<1> HIDE DEF F
<1>1. answers \in Seq(Answers) /\ n \in Nat /\ n > 0 /\ DOMAIN answers = 1 .. n
      /\ n <= Len(F)
  BY <1>0, EmptySeq DEF Filled
<1>2. /\ fewer \in Seq(Answers) /\ Len(fewer) = n - 1 /\ DOMAIN fewer = 1 .. (n - 1)
      /\ \A k \in DOMAIN fewer : fewer[k] = answers[k]
  BY <1>1 DEF Front
<1>3. /\ DOMAIN fewer = DOMAIN answers \ {n} /\ DOMAIN answers \subseteq DOMAIN F
      /\ n \in DOMAIN answers
  BY <1>0, <1>1, <1>2
<1> HIDE DEF fewer
<1>4. Given(fewer) = Given(answers) \ {n}
  BY <1>2, <1>3 DEF Given
<1>5. \A k \in DOMAIN fewer : Good(by, F[k], fewer[k])
  BY <1>0, <1>2, <1>3 DEF Filled
<1>6. Len(fewer) <= Len(F)
  BY <1>0, <1>1, <1>2
<1> HIDE DEF n
<1>7. \A k \in Given(answers) : k # n => F[k].name # F[n].name
  BY <1>0, <1>3 DEF Given
<1>8. DOMAIN less = {F[k].name : k \in Given(fewer)}
  <2>1. DOMAIN args = {F[k].name : k \in Given(answers)}
    BY <1>0 DEF Filled, Told
  <2>2. DOMAIN less = {F[k].name : k \in Given(answers)} \ {F[n].name}
    BY <2>1 DEF Without, n
  <2> HIDE DEF less
  <2> QED BY <2>2, <1>4, <1>7
<1>9. \A k \in Given(fewer) : less[F[k].name] = fewer[k]
  BY <1>0, <1>2, <1>4, <1>7 DEF Filled, Told, Given, Without, n
<1>10. Told(F, fewer, less)
  BY <1>8, <1>9 DEF Told
<1> QED BY <1>2, <1>5, <1>6, <1>10 DEF Filled, F, n, fewer, less

LEMMA KindsRead ==
  ASSUME NEW kind \in Kinds, kind # "string[]"
  PROVE  /\ ReadAs(kind) \subseteq Shapes /\ "none" \notin ReadAs(kind)
         /\ \A v \in ReadAs(kind) : v = Usual(kind) \/ kind = "json"
<1>1. CASE kind \in {"string", "boolean", "json"}
  BY <1>1, Zenon DEF ReadAs, Usual, Shapes, Strings
<1>2. CASE kind \notin {"string", "boolean", "json"}
  <2>1. ReadAs(kind) = {kind} /\ Usual(kind) = kind
    BY <1>2 DEF ReadAs, Usual
  <2>2. kind \in Shapes /\ kind # "none"
    BY <1>2 DEF Kinds, Enums, Shapes, Strings
  <2> QED BY <2>1, <2>2
<1> QED BY <1>1, <1>2

LEMMA FieldOfForm ==
  ASSUME NEW tool \in DOMAIN BOARD_TOOLS, NEW i \in DOMAIN BOARD_TOOLS[tool]
  PROVE  LET field == BOARD_TOOLS[tool][i] IN
         field.kind \in Kinds /\ field.required \in BOOLEAN
  BY FormsSuit DEF Fit, Suits

LEMMA UnreadBy ==
  Unread.terminal = {"json"} /\ Unread.page = {"uuid", "url", "json"}
  BY DEF Unread

LEMMA TerminalAnswers ==
  ASSUME NEW field, field.kind \in Kinds, NEW answer,
         answer \in AnswersTo(field) \/ (field.kind = "string[]" /\ answer = "list")
  PROVE  answer \in Answers /\ Good("terminal", field, answer)
<1>1. CASE field.kind = "string[]" /\ answer = "list"
  BY <1>1, UsualValues DEF Answers, Good, Shapes
<1>2. CASE field.kind # "string[]" /\ answer \in AnswersTo(field)
  <2>1. \/ answer \in ReadAs(field.kind)
        \/ answer = "none" /\ ~field.required
    BY <1>2 DEF AnswersTo
  <2> QED BY <2>1, <1>2, KindsRead, UnreadBy DEF Answers, Good
<1>3. CASE field.kind = "string[]" /\ answer \in AnswersTo(field)
  BY <1>3 DEF AnswersTo
<1> QED BY <1>1, <1>2, <1>3

\* A goal is named by its identifier, wherever it is asked for.
LEMMA GoalsAreNamed ==
  \A t \in DOMAIN handlers : "goal_id" \in DOMAIN handlers[t] => handlers[t].goal_id = Uuid
<1>1. \A t \in DOMAIN ServedSession :
        "goal_id" \in DOMAIN ServedSession[t] => ServedSession[t].goal_id = Uuid
  BY DEF ServedSession
<1>2. \A t \in DOMAIN ServedReading : "goal_id" \notin DOMAIN ServedReading[t]
  <2>1. /\ "goal_id" \notin DOMAIN ServedReading.search_threads
        /\ "goal_id" \notin DOMAIN ServedReading.search_decisions
        /\ "goal_id" \notin DOMAIN ServedReading.list_system_templates
        /\ "goal_id" \notin DOMAIN ServedReading.list_shared_artifacts
        /\ "goal_id" \notin DOMAIN ServedReading.read_thread
    BY DEF ServedReading
  <2> QED BY <2>1, FormNames, ServedNames
<1>3. \A t \in DOMAIN ServedDeciding : "goal_id" \notin DOMAIN ServedDeciding[t]
  BY DEF ServedDeciding
<1>4. \A t \in DOMAIN ServedWork : "goal_id" \notin DOMAIN ServedWork[t]
  BY DEF ServedWork
<1>5. \A t \in DOMAIN ServedMemory : "goal_id" \notin DOMAIN ServedMemory[t]
  BY DEF ServedMemory
<1>6. \A t \in DOMAIN ServedClosing : "goal_id" \notin DOMAIN ServedClosing[t]
  BY DEF ServedClosing
<1>7. DOMAIN handlers =
        DOMAIN ServedSession \cup DOMAIN ServedReading \cup DOMAIN ServedDeciding
        \cup DOMAIN ServedWork \cup DOMAIN ServedMemory \cup DOMAIN ServedClosing
  BY DEF Both, handlers
<1> QED BY <1>1, <1>2, <1>3, <1>4, <1>5, <1>6, <1>7, HandlersBy

LEMMA ShapesKnown ==
  /\ {"text", "bool", "list", "uuid", "url", "number", "none"} \subseteq Answers
  /\ Enums \subseteq Answers /\ Shapes \subseteq Answers
  BY DEF Answers, Shapes, Strings

LEMMA GoodInput ==
  ASSUME NEW field, NEW input,
         \/ input = "none" \/ input = Usual(field.kind)
         \/ field.kind \in {"uuid", "url", "json"}
  PROVE  Good("page", field, input)
  BY UnreadBy DEF Good

LEMMA PageInputs ==
  ASSUME NEW field, field.kind \in Kinds,
         field.name = "goal_id" => field.kind = "json" \/ Usual(field.kind) = "uuid",
         NEW input \in Inputs(field)
  PROVE  input \in Answers /\ Good("page", field, input)
<1>1. CASE field.name = "goal_id" /\ form.hints.goals > 0
  <2>1. input = "uuid"
    BY <1>1 DEF Inputs
  <2> QED BY <2>1, <1>1, ShapesKnown, GoodInput
<1>2. CASE ~(field.name = "goal_id" /\ form.hints.goals > 0)
  <2>1. CASE field.kind = "boolean"
    <3>1. input = "bool"
      BY <2>1, <1>2 DEF Inputs, Enums
    <3> QED BY <3>1, <2>1, UsualValues, ShapesKnown, GoodInput
  <2>2. CASE field.kind \in Enums
    <3>1. field.kind \notin {"boolean", "string[]", "string", "json"}
      BY <2>2 DEF Enums
    <3>2. input = field.kind \/ input = "none"
      BY <2>2, <3>1, <1>2 DEF Inputs
    <3> QED BY <3>2, <2>2, UsualValues, ShapesKnown, GoodInput
  <2>3. CASE field.kind = "string[]"
    <3>1. input \in {"list", "none"}
      BY <2>3, <1>2 DEF Inputs, Enums
    <3> QED BY <3>1, <2>3, UsualValues, ShapesKnown, GoodInput
  <2>4. CASE field.kind = "string"
    <3>1. input \in {"text", "none"}
      BY <2>4, <1>2 DEF Inputs, Enums
    <3> QED BY <3>1, <2>4, UsualValues, ShapesKnown, GoodInput
  <2>5. CASE field.kind = "json"
    <3>1. input \in ReadAs("json") \cup {"text", "number", "none"}
      BY <2>5, <1>2 DEF Inputs, Enums
    <3> QED BY <3>1, <2>5, KindsRead, KindsKnown, ShapesKnown, GoodInput
  <2>6. CASE field.kind \in {"uuid", "url"}
    <3>1. input \in {"text", "uuid", "url", "none"}
      BY <2>6, <1>2 DEF Inputs, Enums
    <3> QED BY <3>1, <2>6, ShapesKnown, GoodInput
  <2> QED BY <2>1, <2>2, <2>3, <2>4, <2>5, <2>6 DEF Kinds
<1> QED BY <1>1, <1>2

LEMMA GoalFields ==
  ASSUME NEW tool \in DOMAIN BOARD_TOOLS, NEW i \in DOMAIN BOARD_TOOLS[tool]
  PROVE  LET field == BOARD_TOOLS[tool][i] IN
         field.name = "goal_id" => field.kind = "json" \/ Usual(field.kind) = "uuid"
<1> DEFINE field == BOARD_TOOLS[tool][i]
<1>1. /\ field.name \in DOMAIN handlers[tool] /\ tool \in DOMAIN handlers
      /\ Suits(field, handlers[tool][field.name])
  BY FormsSuit DEF Fit
<1>2. field.name = "goal_id" => handlers[tool][field.name] = Uuid
  BY <1>1, GoalsAreNamed
<1>3. Uuid.shapes = {"uuid"}
  BY DEF Uuid, Arg
<1> QED BY <1>1, <1>2, <1>3 DEF Suits

LEMMA FormSet ==
  ASSUME NEW f, Formed(f)
  PROVE  f \in [by : {f.by}, tool : {f.tool}, at : {f.at}, args : {f.args}, items : {f.items},
               answers : {f.answers}, hints : {f.hints}]
  BY DEF Formed

LEMMA ChoosingFormed == ASSUME NEW hints PROVE Formed(Choosing(hints))
  BY DEF Choosing, Formed

LEMMA BegunFormed ==
  ASSUME FormInv, form.at = "choose", NEW by \in {"terminal", "page"},
         NEW tool \in DOMAIN BOARD_TOOLS, NEW at, at \notin {"choose", "sent"}
  PROVE  Formed(Begun(by, tool, at))
<1> DEFINE F == BOARD_TOOLS[tool]
           new == IF F = <<>> THEN "sent" ELSE at
           g == Begun(by, tool, at)
<1>1. g = [form EXCEPT !.by = by, !.tool = tool, !.at = new]
  BY DEF Begun
<1>2. form.answers = <<>> /\ form.args = <<>>
  BY DEF FormInv, Formed
<1>3. new \notin {"choose"} /\ (new = "sent" => F = <<>>)
  OBVIOUS
<1>4. F = <<>> => DOMAIN F = {}
  OBVIOUS
<1>5. Filled(by, F, <<>>, <<>>)
  BY FilledNot
<1> HIDE DEF new, F
<1>6. /\ g \in [by : {by}, tool : {tool}, at : {new}, args : {<<>>}, items : {form.items},
                answers : {<<>>}, hints : {form.hints}]
  BY <1>1, <1>2, FormSet DEF FormInv
<1> HIDE DEF g
<1> QED BY <1>2, <1>3, <1>4, <1>5, <1>6 DEF Formed, F, g

LEMMA AnsweredFormed ==
  ASSUME FormInv, form.by \in {"terminal", "page"}, Asking,
         NEW answer \in Answers, Good(form.by, Field, answer)
  PROVE  Formed(Answered(answer))
<1> DEFINE F == BOARD_TOOLS[form.tool]
           g == Answered(answer)
           args == IF answer = "none" THEN form.args
                   ELSE WithArg(form.args, F[Len(form.answers) + 1].name, answer)
           answers == Append(form.answers, answer)
<1>1. g = [form EXCEPT !.answers = answers, !.items = 0, !.args = args]
  BY DEF Answered, Field, Fields
<1>2. form.tool \in DOMAIN BOARD_TOOLS /\ Filled(form.by, F, form.answers, form.args)
  BY DEF FormInv, Formed
<1>3. Filled(form.by, F, answers, args)
  BY <1>2, FilledFurther DEF Asking, Field, Fields
<1>4. form.at = "fields"
  BY DEF Asking, Asks
<1> HIDE DEF args, answers, F
<1>5. g \in [by : {form.by}, tool : {form.tool}, at : {"fields"}, args : {args}, items : {0},
            answers : {answers}, hints : {form.hints}]
  BY <1>1, <1>4, FormSet DEF FormInv
<1> HIDE DEF g
<1> QED BY <1>2, <1>3, <1>5 DEF Formed, F, g

LEMMA FieldAsked ==
  ASSUME FormInv, form.by \in {"terminal", "page"}, Asking
  PROVE  /\ Field.kind \in Kinds
         /\ Field.name = "goal_id" => Field.kind = "json" \/ Usual(Field.kind) = "uuid"
<1> DEFINE F == BOARD_TOOLS[form.tool]
           n == Len(form.answers) + 1
<1>1. form.tool \in DOMAIN BOARD_TOOLS /\ Filled(form.by, F, form.answers, form.args)
  BY DEF FormInv, Formed
<1>2. Len(form.answers) \in Nat /\ Len(form.answers) < Len(F)
  BY <1>1 DEF Filled, Asking, Fields
<1>3. Len(F) \in Nat /\ DOMAIN F = 1 .. Len(F)
  BY <1>1, FormsSuit DEF Fit
<1> HIDE DEF F
<1>4. n \in DOMAIN F
  BY <1>2, <1>3
<1> HIDE DEF n
<1> QED BY <1>1, <1>4, FieldOfForm, GoalFields DEF Field, Fields, F, n

LEMMA ChooseToolKeeps == ASSUME FormInv, ChooseTool PROVE FormInv'
<1>1. PICK tool \in DOMAIN BOARD_TOOLS :
        \/ form' = Begun("terminal", tool, "bulk")
        \/ form' = [form EXCEPT !.by = "json", !.tool = tool, !.at = "sent"]
  BY DEF ChooseTool
<1>2. CASE form' = Begun("terminal", tool, "bulk")
  BY <1>2, BegunFormed DEF ChooseTool, FormInv
<1>3. CASE form' = [form EXCEPT !.by = "json", !.tool = tool, !.at = "sent"]
  <2>1. form' \in [by : {"json"}, tool : {tool}, at : {"sent"}, args : {form.args},
                  items : {form.items}, answers : {form.answers}, hints : {form.hints}]
    BY <1>3, FormSet DEF FormInv
  <2> QED BY <2>1 DEF FormInv, Formed
<1> QED BY <1>1, <1>2, <1>3

LEMMA BulkKeeps == ASSUME FormInv, Bulk PROVE FormInv'
<1>1. CASE form' = [form EXCEPT !.at = "fields"]
  <2>1. form' \in [by : {"terminal"}, tool : {form.tool}, at : {"fields"}, args : {form.args},
                  items : {form.items}, answers : {form.answers}, hints : {form.hints}]
    BY <1>1, FormSet DEF FormInv, Bulk
  <2> QED BY <2>1 DEF FormInv, Formed, Bulk
<1>2. CASE form' = [form EXCEPT !.by = "json", !.at = "sent"]
  <2>1. form' \in [by : {"json"}, tool : {form.tool}, at : {"sent"}, args : {form.args},
                  items : {form.items}, answers : {form.answers}, hints : {form.hints}]
    BY <1>2, FormSet DEF FormInv
  <2> QED BY <2>1 DEF FormInv, Formed
<1>3. CASE form' = Choosing(form.hints)
  BY <1>3, ChoosingFormed DEF FormInv
<1> QED BY <1>1, <1>2, <1>3 DEF Bulk

LEMMA AnswerFieldKeeps == ASSUME FormInv, AnswerField PROVE FormInv'
<1>1. form.by = "terminal" /\ Asking
  BY DEF AnswerField
<1>2. PICK answer \in AnswersTo(Field) : form' = Answered(answer)
  BY DEF AnswerField
<1>3. answer \in Answers /\ Good("terminal", Field, answer)
  BY <1>1, FieldAsked, TerminalAnswers
<1>4. Formed(Answered(answer))
  BY <1>1, <1>3, AnsweredFormed
<1> QED BY <1>2, <1>4 DEF FormInv

LEMMA TypeLineKeeps == ASSUME FormInv, TypeLine PROVE FormInv'
<1>1. form.by = "terminal" /\ Asking /\ Field.kind = "string[]"
  BY DEF TypeLine
<1>2. CASE form' = Answered("list")
  <2>1. "list" \in Answers /\ Good("terminal", Field, "list")
    BY <1>1, FieldAsked, TerminalAnswers
  <2>2. Formed(Answered("list"))
    BY <1>1, <2>1, AnsweredFormed
  <2> QED BY <1>2, <2>2 DEF FormInv
<1>3. ASSUME NEW items, form' = [form EXCEPT !.items = items] PROVE FormInv'
  <2>1. form' \in [by : {form.by}, tool : {form.tool}, at : {form.at}, args : {form.args},
                  items : {items}, answers : {form.answers}, hints : {form.hints}]
    BY <1>3, FormSet DEF FormInv
  <2> QED BY <2>1 DEF FormInv, Formed
<1>4. \/ form' = Answered("list")
      \/ \E items : form' = [form EXCEPT !.items = items]
  BY DEF TypeLine
<1> QED BY <1>2, <1>3, <1>4

LEMMA BackKeeps == ASSUME FormInv, Back PROVE FormInv'
<1> DEFINE F == BOARD_TOOLS[form.tool]
<1>1. /\ form.by = "terminal" /\ form.tool \in DOMAIN BOARD_TOOLS
      /\ Filled(form.by, F, form.answers, form.args) /\ form.at = "fields"
  BY DEF FormInv, Formed, Back, Asking, Asks
<1>2. CASE form.answers = <<>>
  <2>1. form' = [form EXCEPT !.at = "bulk", !.args = <<>>]
    BY <1>2 DEF Back
  <2>2. form' \in [by : {"terminal"}, tool : {form.tool}, at : {"bulk"}, args : {<<>>},
                  items : {form.items}, answers : {<<>>}, hints : {form.hints}]
    BY <1>1, <1>2, <2>1, FormSet DEF FormInv
  <2>3. Filled("terminal", F, <<>>, <<>>)
    BY <1>1, FilledNot
  <2> QED BY <1>1, <2>2, <2>3 DEF FormInv, Formed
<1>3. CASE form.answers # <<>>
  <2> DEFINE answers == Front(form.answers)
             args == Without(F, form.answers, form.args)
  <2>1. form' = [form EXCEPT !.answers = answers, !.args = args]
    BY <1>3 DEF Back, Fields, Without
  <2>2. Filled(form.by, F, answers, args)
    BY <1>1, <1>3, FilledBack
  <2> HIDE DEF answers, args, F
  <2>3. form' \in [by : {"terminal"}, tool : {form.tool}, at : {"fields"}, args : {args},
                  items : {form.items}, answers : {answers}, hints : {form.hints}]
    BY <1>1, <2>1, FormSet DEF FormInv
  <2> QED BY <1>1, <2>2, <2>3 DEF FormInv, Formed, F
<1> QED BY <1>2, <1>3

LEMMA SendFormKeeps == ASSUME FormInv, SendForm PROVE FormInv'
<1> DEFINE F == BOARD_TOOLS[form.tool]
           answers == form.answers
<1>1. /\ form.by = "terminal" /\ form.tool \in DOMAIN BOARD_TOOLS
      /\ Filled("terminal", F, answers, form.args) /\ ~(Len(answers) < Len(F))
      /\ form' = [form EXCEPT !.at = "sent"]
  BY DEF FormInv, Formed, SendForm, Asking, Asks, Fields
<1>2. Len(F) \in Nat /\ DOMAIN F = 1 .. Len(F)
  BY <1>1, FormsSuit DEF Fit
<1>3. DOMAIN answers = DOMAIN F
  BY <1>1, <1>2 DEF Filled
<1>4. \A i \in DOMAIN F : F[i].required => F[i].name \in DOMAIN form.args
  BY <1>1, <1>3 DEF Filled, Good, Told, Given
<1>5. form' \in [by : {"terminal"}, tool : {form.tool}, at : {"sent"}, args : {form.args},
                items : {form.items}, answers : {answers}, hints : {form.hints}]
  BY <1>1, FormSet DEF FormInv
<1> QED BY <1>1, <1>4, <1>5 DEF FormInv, Formed

LEMMA OpenFormKeeps == ASSUME FormInv, OpenForm PROVE FormInv'
<1>1. PICK tool \in DOMAIN BOARD_TOOLS : form' = Begun("page", tool, "fields")
  BY DEF OpenForm
<1> QED BY <1>1, BegunFormed DEF OpenForm, FormInv

LEMMA FillKeeps == ASSUME FormInv, Fill PROVE FormInv'
<1>1. form.by = "page" /\ Asking
  BY DEF Fill
<1>2. PICK value \in Inputs(Field) : form' = Answered(value)
  BY DEF Fill
<1>3. value \in Answers /\ Good("page", Field, value)
  BY <1>1, FieldAsked, PageInputs
<1>4. Formed(Answered(value))
  BY <1>1, <1>3, AnsweredFormed
<1> QED BY <1>2, <1>4 DEF FormInv

LEMMA CollectKeeps == ASSUME FormInv, Collect PROVE FormInv'
<1> DEFINE F == BOARD_TOOLS[form.tool]
<1>1. /\ form.by = "page" /\ form.tool \in DOMAIN BOARD_TOOLS /\ form.at = "fields"
      /\ Filled("page", F, form.answers, form.args)
  BY DEF FormInv, Formed, Collect, Asks
<1>2. CASE \A f \in ToSet(Fields) : f.required => f.name \in DOMAIN form.args
  <2>1. \A i \in DOMAIN F : F[i].required => F[i].name \in DOMAIN form.args
    BY <1>2 DEF ToSet, Fields
  <2>2. form' = [form EXCEPT !.at = "sent"]
    BY <1>2 DEF Collect
  <2>3. form' \in [by : {"page"}, tool : {form.tool}, at : {"sent"}, args : {form.args},
                  items : {form.items}, answers : {form.answers}, hints : {form.hints}]
    BY <1>1, <2>2, FormSet DEF FormInv
  <2> QED BY <1>1, <2>1, <2>3 DEF FormInv, Formed
<1>3. CASE ~\A f \in ToSet(Fields) : f.required => f.name \in DOMAIN form.args
  <2>1. form' = [form EXCEPT !.answers = <<>>, !.args = <<>>]
    BY <1>3 DEF Collect
  <2>2. form' \in [by : {"page"}, tool : {form.tool}, at : {"fields"}, args : {<<>>},
                  items : {form.items}, answers : {<<>>}, hints : {form.hints}]
    BY <1>1, <2>1, FormSet DEF FormInv
  <2>3. Filled("page", F, <<>>, <<>>)
    BY <1>1, FilledNot
  <2> QED BY <1>1, <2>2, <2>3 DEF FormInv, Formed
<1> QED BY <1>2, <1>3

LEMMA PassOnKeeps == ASSUME FormInv, PassOn PROVE FormInv'
<1>1. PICK tool \in DOMAIN MCP_PROXY_TOOLS :
        \E args \in Accepted(MCP_PROXY_TOOLS[tool]) :
          form' = [form EXCEPT !.by = "proxy", !.tool = tool, !.at = "sent", !.args = args]
  BY DEF PassOn
<1>2. PICK args \in Accepted(MCP_PROXY_TOOLS[tool]) :
        form' = [form EXCEPT !.by = "proxy", !.tool = tool, !.at = "sent", !.args = args]
  BY <1>1
<1>3. form' \in [by : {"proxy"}, tool : {tool}, at : {"sent"}, args : {args},
                items : {form.items}, answers : {form.answers}, hints : {form.hints}]
  BY <1>2, FormSet DEF FormInv
<1> QED BY <1>3 DEF FormInv, Formed

LEMMA FormInitInv == FormsInit => FormInv
  BY ChoosingFormed DEF FormsInit, FormInv

LEMMA FormNextInv == FormInv /\ FormsNext => FormInv'
<1> SUFFICES ASSUME FormInv, FormsNext PROVE FormInv'
  OBVIOUS
<1>1. HideForm => FormInv'
  BY ChoosingFormed DEF HideForm, FormInv
<1>2. AnswerCall => FormInv'
  BY ChoosingFormed DEF AnswerCall, FormInv
<1> QED BY <1>1, <1>2, ChooseToolKeeps, BulkKeeps, AnswerFieldKeeps, TypeLineKeeps,
        BackKeeps, SendFormKeeps, OpenFormKeeps, FillKeeps, CollectKeeps, PassOnKeeps
     DEF FormsNext

-----------------------------------------------------------------------------
(* What the invariant tells. *)

LEMMA InvTellsAnswers == FormInv => SentAsAnswered
  BY DEF FormInv, Formed, Filled, Told, Given, SentAsAnswered, Fields

LEMMA KindOfField ==
  ASSUME form.tool \in DOMAIN BOARD_TOOLS, NEW i \in DOMAIN Fields
  PROVE  KindOf(Fields[i].name) = Fields[i].kind
<1>1. \A f \in ToSet(Fields) : f.name = Fields[i].name => f = Fields[i]
  BY FormsSuit DEF Fit, ToSet, Fields
<1>2. Fields[i] \in ToSet(Fields)
  BY DEF ToSet
<1> HIDE DEF Fields
<1>3. (CHOOSE f \in ToSet(Fields) : f.name = Fields[i].name) = Fields[i]
  BY <1>1, <1>2
<1> QED BY <1>3 DEF KindOf

LEMMA FormsOfPeopleFit ==
  ASSUME FormInv, form.by \in {"terminal", "page"}, form.at = "sent"
  PROVE  /\ DOMAIN form.args \subseteq DOMAIN handlers[form.tool]
         /\ \A a \in Refused(handlers[form.tool], form.args) :
              a \in DOMAIN form.args /\ KindOf(a) \in Unread[form.by]
<1> DEFINE F == BOARD_TOOLS[form.tool]
           H == handlers[form.tool]
<1>1. /\ form.tool \in DOMAIN BOARD_TOOLS /\ Filled(form.by, F, form.answers, form.args)
      /\ \A i \in DOMAIN F : F[i].required => F[i].name \in DOMAIN form.args
  BY DEF FormInv, Formed
<1>2. Fit(F, H)
  BY <1>1, FormsSuit
<1>3. \A i \in DOMAIN F : KindOf(F[i].name) = F[i].kind
  BY <1>1, KindOfField DEF Fields
<1> HIDE DEF F, H
<1>4. DOMAIN form.answers \subseteq DOMAIN F
  BY <1>1, <1>2 DEF Filled, Fit
<1>5. \A a \in DOMAIN form.args : \E i \in DOMAIN F :
        /\ a = F[i].name /\ form.args[a] # "none"
        /\ Good(form.by, F[i], form.args[a])
  BY <1>1, <1>4 DEF Filled, Told, Given
<1>6. DOMAIN form.args \subseteq DOMAIN H
  BY <1>2, <1>5 DEF Fit
<1>7. ASSUME NEW a \in Refused(H, form.args)
      PROVE  a \in DOMAIN form.args /\ KindOf(a) \in Unread[form.by]
  <2>1. a \in DOMAIN form.args
    BY <1>1, <1>2, <1>7 DEF Refused, Fit, Suits
  <2>2. PICK i \in DOMAIN F : /\ a = F[i].name /\ form.args[a] # "none"
                             /\ Good(form.by, F[i], form.args[a])
    BY <2>1, <1>5
  <2>3. form.args[a] \notin H[a].shapes
    BY <2>1, <1>7 DEF Refused
  <2>4. Suits(F[i], H[a])
    BY <1>2, <2>2 DEF Fit
  <2>5. F[i].kind \in Unread[form.by]
    BY <2>2, <2>3, <2>4, UnreadBy DEF Suits, Good
  <2> QED BY <2>1, <2>2, <2>5, <1>3
<1> QED BY <1>6, <1>7 DEF H

LEMMA AcceptedAreShaped ==
  ASSUME NEW schema, \A a \in DOMAIN schema : schema[a].shapes # {},
         NEW args \in Accepted(schema)
  PROVE  /\ DOMAIN args \subseteq DOMAIN schema
         /\ \A a \in DOMAIN args : args[a] \in schema[a].shapes
         /\ \A a \in DOMAIN schema : schema[a].optional \/ a \in DOMAIN args
<1> DEFINE usual(a) == CHOOSE s \in schema[a].shapes : TRUE
           musts == {a \in DOMAIN schema : ~schema[a].optional}
<1>1. \A a \in DOMAIN schema : usual(a) \in schema[a].shapes
  OBVIOUS
<1>2. \/ args \in {[a \in given |-> usual(a)] : given \in {musts, DOMAIN schema}}
      \/ \E b \in DOMAIN schema : args \in
           {[a \in musts \cup {b} |-> IF a = b THEN s ELSE usual(a)] : s \in schema[b].shapes}
  BY DEF Accepted
<1> HIDE DEF usual
<1>3. CASE args \in {[a \in given |-> usual(a)] : given \in {musts, DOMAIN schema}}
  <2>1. PICK given \in {musts, DOMAIN schema} : args = [a \in given |-> usual(a)]
    BY <1>3
  <2> QED BY <1>1, <2>1
<1>4. CASE \E b \in DOMAIN schema : args \in
             {[a \in musts \cup {b} |-> IF a = b THEN s ELSE usual(a)] : s \in schema[b].shapes}
  <2>1. PICK b \in DOMAIN schema : \E s \in schema[b].shapes :
          args = [a \in musts \cup {b} |-> IF a = b THEN s ELSE usual(a)]
    BY <1>4
  <2>2. PICK s \in schema[b].shapes :
          args = [a \in musts \cup {b} |-> IF a = b THEN s ELSE usual(a)]
    BY <2>1
  <2> QED BY <1>1, <2>2
<1> QED BY <1>2, <1>3, <1>4

LEMMA ShapesOfAll ==
  \A t \in DOMAIN handlers : \A a \in DOMAIN handlers[t] : handlers[t][a].shapes # {}
  BY FormsSuit, HandlersBy DEF Fit, Suits

LEMMA ProxyFits ==
  ASSUME FormInv, form.by = "proxy"
  PROVE  /\ DOMAIN form.args \subseteq DOMAIN handlers[form.tool]
         /\ \A a \in Refused(handlers[form.tool], form.args) :
              a \in DOMAIN form.args /\ a = "handover"
<1> DEFINE P == MCP_PROXY_TOOLS[form.tool]
           H == handlers[form.tool]
<1>1. form.tool \in DOMAIN MCP_PROXY_TOOLS /\ form.args \in Accepted(P)
  BY DEF FormInv, Formed
<1>2. CASE form.tool # "end_session"
  <2>1. P = H /\ form.tool \in DOMAIN handlers
    BY <1>1, <1>2, ProxyAsksTheSame
  <2>2. \A a \in DOMAIN P : P[a].shapes # {}
    BY <2>1, ShapesOfAll
  <2>3. /\ DOMAIN form.args \subseteq DOMAIN P
        /\ \A a \in DOMAIN form.args : form.args[a] \in P[a].shapes
        /\ \A a \in DOMAIN P : P[a].optional \/ a \in DOMAIN form.args
    BY <1>1, <2>2, AcceptedAreShaped
  <2> QED BY <2>1, <2>3 DEF Refused
<1>3. CASE form.tool = "end_session"
  <2>1. P = [handover |-> AnyText, projects |-> Optional(Summaries)]
    BY <1>1, <1>3, ProxyAsksTheSame
  <2>2. H = [handover |-> Text, projects |-> Optional(Summaries)]
    BY <1>3, HandlersBy, ServedNames DEF ServedClosing
  <2>3. /\ AnyText.shapes = Strings /\ AnyText.optional = FALSE
        /\ Text.shapes = Strings \ {"empty"} /\ Text.optional = FALSE
        /\ Optional(Summaries).shapes = {"summaries", "empty list"}
        /\ Optional(Summaries).optional = TRUE
    BY ArgFacts DEF AnyText, Text, Summaries
  <2> HIDE DEF P, H
  <2>4. /\ DOMAIN P = {"handover", "projects"} /\ P.handover = AnyText
        /\ P.projects = Optional(Summaries)
    BY <2>1
  <2>5. /\ DOMAIN H = {"handover", "projects"} /\ H.handover = Text
        /\ H.projects = Optional(Summaries)
    BY <2>2
  <2>6. \A a \in DOMAIN P : P[a].shapes # {}
    BY <2>3, <2>4, KindsKnown
  <2>7. /\ DOMAIN form.args \subseteq DOMAIN P
        /\ \A a \in DOMAIN form.args : form.args[a] \in P[a].shapes
        /\ \A a \in DOMAIN P : P[a].optional \/ a \in DOMAIN form.args
    BY <1>1, <2>6, AcceptedAreShaped
  <2>8. \A a \in Refused(H, form.args) : a \in DOMAIN form.args /\ a = "handover"
    BY <2>3, <2>4, <2>5, <2>7 DEF Refused
  <2> QED BY <2>4, <2>5, <2>7, <2>8 DEF H
<1> QED BY <1>2, <1>3

LEMMA InvTellsFit == FormInv => FormsFit
<1> SUFFICES ASSUME FormInv, form.at = "sent", form.by # "json"
    PROVE  /\ DOMAIN form.args \subseteq DOMAIN handlers[form.tool]
           /\ \A a \in Refused(handlers[form.tool], form.args) :
                /\ a \in DOMAIN form.args
                /\ KindOf(a) \in Unread[form.by] \/ (form.by = "proxy" /\ a = "handover")
  BY DEF FormsFit
<1>1. form.by \in {"terminal", "page", "proxy"}
  BY DEF FormInv, Formed
<1>2. CASE form.by = "proxy"
  BY <1>2, ProxyFits
<1>3. CASE form.by \in {"terminal", "page"}
  BY <1>3, FormsOfPeopleFit
<1> QED BY <1>1, <1>2, <1>3

\* However the kind of engine was chosen, forms are filled in by their own steps.
LEMMA FormsOfEngine == FormInv /\ [MCNext]_mcVars => FormInv'
<1> SUFFICES ASSUME FormInv, [MCNext]_mcVars PROVE FormInv'
  OBVIOUS
<1>1. UNCHANGED form => FormInv'
  BY DEF FormInv
<1>2. UNCHANGED form \/ FormsNext
  BY DEF MCNext, mcVars
<1> QED BY <1>1, <1>2, FormNextInv

LEMMA FormsStay == MCSpec => []FormInv
<1>1. MCInit => FormInv
  BY FormInitInv DEF MCInit
<1> QED BY <1>1, FormsOfEngine, PTL DEF MCSpec

\* What is sent is what the person answered last, whatever he went back over
\* (promptToolArgs, and the page of the console).
THEOREM AnswersAreSent == MCSpec => []SentAsAnswered
  BY FormsStay, InvTellsAnswers, PTL

\* Whatever a form or the proxy lets through, the handler of the tool knows, and
\* refuses for its shape only where the form does not look, or an empty handover
\* (BOARD_TOOLS, createProxyMcpServer, createBoardToolRuntime).
THEOREM FormsFitHandlers == MCSpec => []FormsFit
  BY FormsStay, InvTellsFit, PTL

-----------------------------------------------------------------------------
(* The inductive invariants.                                                *)

\* What a handler has read of the rows of claims: rows are never removed, so
\* this stays true however many requests overlap.
Refers(tx) ==
  /\ tx.step = "claiming" => tx.seen \subseteq Ids /\ tx.known \subseteq Ids
  /\ tx.step = "releasing" => tx.id \in Ids /\ claims[tx.id].who = tx.who

Types == ClaimsTypeOK /\ \A r \in Handler : Refers(inflight[r])

\* The claims in force that a new one would overlap.
Overlapped(c) ==
  {i \in Ids : /\ claims[i].active
               /\ claims[i].who # c.who
               /\ claimPathsOverlap(claims[i].paths, c.paths)}

\* A request to claim has seen what it would overlap of the claims it knows; those it
\* does not know were filed since.
HasLooked(tx) == tx.step = "claiming" => Overlapped(tx.claim) \cap tx.known \subseteq tx.seen

Looked == \A r \in Handler : HasLooked(inflight[r])

-----------------------------------------------------------------------------
(* Lemmas about paths and about requests.                                   *)

\* It does not matter which of two paths comes first.
LEMMA MeetingIsMutual ==
  ASSUME NEW p, NEW q
  PROVE  PathsMeet(p, q) <=> PathsMeet(q, p)
  BY DEF PathsMeet

\* What each kind of request carries.
LEMMA RequestTypes ==
  ASSUME NEW tx \in Transactions
  PROVE  /\ tx.step = "claiming" =>
              tx \in [step : {"claiming"}, claim : Claim, seen : SUBSET Nat, known : SUBSET Nat]
         /\ tx.step = "releasing" =>
              tx \in [step : {"releasing"}, id : Nat, who : Participant]
         /\ tx.step = "closing" =>
              tx \in [step : {"closing"}, thread : Thread, to : {"rejected", "completed"}]
  BY DEF Transactions, Idle

\* A new row is put behind the others, which stay as they are.
LEMMA Filed ==
  ASSUME NEW rows \in Seq(Row), NEW row \in Row
  PROVE  /\ Append(rows, row) \in Seq(Row)
         /\ DOMAIN Append(rows, row) = DOMAIN rows \cup {Len(rows) + 1}
         /\ \A i \in DOMAIN rows : Append(rows, row)[i] = rows[i] /\ i < Len(rows) + 1
         /\ Append(rows, row)[Len(rows) + 1] = row
         /\ Len(rows) + 1 \notin DOMAIN rows
  OBVIOUS

\* Releasing rows keeps their number and everything else in them.
LEMMA Released ==
  ASSUME NEW rows \in Seq(Row), NEW new, new = [i \in DOMAIN rows |-> new[i]],
         \A i \in DOMAIN rows :
           new[i] = rows[i] \/ new[i] = [rows[i] EXCEPT !.active = FALSE]
  PROVE  /\ new \in Seq(Row)
         /\ \A i \in DOMAIN rows :
              /\ new[i].who = rows[i].who /\ new[i].thread = rows[i].thread
              /\ new[i].paths = rows[i].paths
              /\ new[i].active => rows[i].active
<1>1. \A i \in DOMAIN rows : rows[i] \in Row
  OBVIOUS
<1>2. \A i \in DOMAIN rows :
        /\ new[i] \in Row
        /\ new[i].who = rows[i].who /\ new[i].thread = rows[i].thread
        /\ new[i].paths = rows[i].paths
        /\ new[i].active => rows[i].active
  BY <1>1 DEF Row
<1>3. new \in Seq(Row)
  <2>1. rows \in [1..Len(rows) -> Row] /\ Len(rows) \in Nat /\ DOMAIN rows = 1..Len(rows)
    OBVIOUS
  <2>2. new \in [1..Len(rows) -> Row]
    BY <1>2, <2>1
  <2>3. QED
    BY <2>1, <2>2
<1>4. QED
  BY <1>2, <1>3
-----------------------------------------------------------------------------
(* The types, however requests overlap.                                     *)

\* Nothing is claimed and nothing is in progress at first.
LEMMA InitTypes == ClaimsInit => Types
<1> SUFFICES ASSUME ClaimsInit PROVE Types
  OBVIOUS
<1>2. Ids = {} /\ claims \in Seq(Row)
  BY DEF ClaimsInit, Ids
<1>3. Idle \in Transactions /\ Idle.step = "idle"
  BY DEF Idle, Transactions
<1>4. ClaimsTypeOK
  BY <1>2, <1>3 DEF ClaimsInit, ClaimsTypeOK, States
<1>5. ASSUME NEW r \in Handler PROVE Refers(inflight[r])
  BY <1>3 DEF ClaimsInit, Refers
<1>6. QED
  BY <1>4, <1>5 DEF Types

\* A step that writes no claim, and stores what it has read.
LEMMA HoldKeepsTypes ==
  ASSUME Types, NEW r \in Handler, NEW tx \in Transactions, Hold(r, tx), Refers(tx),
         UNCHANGED <<claims, told, missed, prs>>,
         events' \in Nat,
         thread' \in [Thread -> [state : States, binding : BOOLEAN, archived : BOOLEAN]]
  PROVE  Types'
<1>1. inflight' \in [Handler -> Transactions]
  BY DEF Types, ClaimsTypeOK, Hold
<1>2. ASSUME NEW s \in Handler PROVE Refers(inflight[s])'
  <2>1. inflight'[s] = tx \/ inflight'[s] = inflight[s]
    BY DEF Types, ClaimsTypeOK, Hold
  <2>2. QED
    BY <2>1 DEF Types, Refers, Ids
<1>3. QED
  BY <1>1, <1>2 DEF Types, ClaimsTypeOK, Ids

\* A step that ends a request, having written claims of which none is removed or
\* given to somebody else.
LEMMA WriteKeepsTypes ==
  ASSUME Types, NEW r \in Handler, Hold(r, Idle), claims' \in Seq(Row),
         Ids \subseteq Ids', \A i \in Ids : claims'[i].who = claims[i].who,
         told' \subseteq Ids' \X Ids', missed' \subseteq Ids' \X Ids', UNCHANGED <<prs, events>>,
         thread' \in [Thread -> [state : States, binding : BOOLEAN, archived : BOOLEAN]]
  PROVE  Types'
<1>1. Idle \in Transactions /\ Idle.step = "idle"
  BY DEF Idle, Transactions
<1>2. inflight' \in [Handler -> Transactions]
  BY <1>1 DEF Types, ClaimsTypeOK, Hold
<1>3. ASSUME NEW s \in Handler PROVE Refers(inflight[s])'
  <2>1. inflight'[s] = Idle \/ inflight'[s] = inflight[s]
    BY DEF Types, ClaimsTypeOK, Hold
  <2>2. CASE inflight'[s] = Idle
    BY <1>1, <2>2 DEF Refers
  <2>3. CASE inflight'[s] = inflight[s]
    BY <2>3 DEF Types, Refers
  <2>4. QED
    BY <2>1, <2>2, <2>3
<1>4. QED
  BY <1>2, <1>3 DEF Types, ClaimsTypeOK

\* A step of the threads and their pull requests.
LEMMA OthersKeepTypes ==
  ASSUME Types, UNCHANGED <<claims, told, missed, inflight>>,
         thread' \in [Thread -> [state : States, binding : BOOLEAN, archived : BOOLEAN]],
         prs' \in [Thread -> SUBSET PullRequestStates], events' \in Nat
  PROVE  Types'
  BY DEF Types, ClaimsTypeOK, Refers, Ids

\* What a filed claim adds.
LEMMA FileClaimAdds ==
  ASSUME Types, NEW r \in Handler, FileClaim(r)
  PROVE  LET c == inflight[r].claim
             n == Len(claims) + 1 IN
         /\ claims' \in Seq(Row)
         /\ Ids' = Ids \cup {n} /\ n \notin Ids
         /\ \A i \in Ids : claims'[i] = claims[i] /\ i < n
         /\ claims'[n] = [thread |-> c.thread, who |-> c.who, paths |-> c.paths, active |-> TRUE]
         /\ inflight[r].seen \subseteq Ids /\ inflight[r].known \subseteq Ids
<1>1. inflight[r] \in Transactions
  BY DEF Types, ClaimsTypeOK
<1>2. inflight[r].claim \in Claim
  BY <1>1, RequestTypes DEF FileClaim
<1> DEFINE c == inflight[r].claim
           row == [thread |-> c.thread, who |-> c.who, paths |-> c.paths, active |-> TRUE]
<1>3. row \in Row
  BY <1>2 DEF Claim, Row
<1>4. claims' = Append(claims, row) /\ claims \in Seq(Row)
  BY DEF FileClaim, Types, ClaimsTypeOK
<1>5. inflight[r].seen \subseteq Ids /\ inflight[r].known \subseteq Ids
  BY DEF FileClaim, Types, Refers
<1> HIDE DEF row
<1>6. /\ claims' \in Seq(Row)
      /\ Ids' = Ids \cup {Len(claims) + 1} /\ Len(claims) + 1 \notin Ids
      /\ \A i \in Ids : claims'[i] = claims[i] /\ i < Len(claims) + 1
      /\ claims'[Len(claims) + 1] = row
  BY <1>3, <1>4, Filed DEF Ids
<1>7. QED
  BY <1>5, <1>6 DEF row

\* What a release and a closing do to the claims.
LEMMA WriteReleaseReleases ==
  ASSUME Types, NEW r \in Handler, WriteRelease(r)
  PROVE  /\ claims' \in Seq(Row) /\ Ids' = Ids
         /\ \A i \in Ids :
              /\ claims'[i].who = claims[i].who /\ claims'[i].thread = claims[i].thread
              /\ claims'[i].paths = claims[i].paths
              /\ claims'[i].active => claims[i].active
         /\ inflight[r].id \in Ids
         /\ \A i \in Ids \ {inflight[r].id} : claims'[i] = claims[i]
<1>1. inflight[r].id \in Ids
  BY DEF WriteRelease, Types, Refers
<1>2. claims \in Seq(Row)
  BY DEF Types, ClaimsTypeOK
<1>3. /\ claims' = [i \in Ids |-> claims'[i]]
      /\ \A i \in Ids : claims'[i] = claims[i]
                        \/ claims'[i] = [claims[i] EXCEPT !.active = FALSE]
      /\ \A i \in Ids \ {inflight[r].id} : claims'[i] = claims[i]
  BY <1>1, <1>2 DEF WriteRelease, Release, Ids
<1>4. QED
  BY <1>1, <1>2, <1>3, Released DEF Ids

\* Closing a thread ends its claims and no others.
LEMMA CommitCloseReleases ==
  ASSUME Types, NEW r \in Handler, CommitClose(r)
  PROVE  /\ claims' \in Seq(Row) /\ Ids' = Ids
         /\ \A i \in Ids :
              /\ claims'[i].who = claims[i].who /\ claims'[i].thread = claims[i].thread
              /\ claims'[i].paths = claims[i].paths
              /\ claims'[i].active => claims[i].active
         /\ \A i \in Ids : claims[i].thread # inflight[r].thread => claims'[i] = claims[i]
<1>1. claims \in Seq(Row)
  BY DEF Types, ClaimsTypeOK
<1>2. /\ claims' = [i \in Ids |-> claims'[i]]
      /\ \A i \in Ids : claims'[i] = claims[i]
                        \/ claims'[i] = [claims[i] EXCEPT !.active = FALSE]
      /\ \A i \in Ids : claims[i].thread # inflight[r].thread => claims'[i] = claims[i]
  BY DEF CommitClose, DeactivateThreadClaims, ActiveOn, Release
<1>3. QED
  BY <1>1, <1>2, Released DEF Ids

\* The new state of a thread that is closed.
LEMMA CommitCloseThreads ==
  ASSUME Types, NEW r \in Handler, CommitClose(r)
  PROVE  /\ inflight[r].thread \in Thread /\ inflight[r].to \in {"rejected", "completed"}
         /\ thread' \in [Thread -> [state : States, binding : BOOLEAN, archived : BOOLEAN]]
         /\ thread'[inflight[r].thread].state = inflight[r].to
<1>1. inflight[r] \in Transactions
  BY DEF Types, ClaimsTypeOK
<1>2. inflight[r].thread \in Thread /\ inflight[r].to \in {"rejected", "completed"}
  BY <1>1, RequestTypes DEF CommitClose
<1> DEFINE t == inflight[r].thread
<1>3. PICK b \in BOOLEAN :
        thread' = [thread EXCEPT ![t].state = inflight[r].to, ![t].binding = @ \/ b]
  BY DEF CommitClose
<1>4. QED
  BY <1>2, <1>3 DEF Types, ClaimsTypeOK, States

\* Each step keeps the types: a request is begun with what it has just read, and a
\* write leaves every row where others have seen it.
LEMMA NextTypes == Types /\ [ClaimsNext]_claimsVars => Types'
<1> SUFFICES ASSUME Types, [ClaimsNext]_claimsVars PROVE Types'
  OBVIOUS
<1>1. ASSUME NEW r \in Handler, NEW t \in Thread, NEW who \in Participant,
             NEW paths \in PathSet, ReadOverlaps(r, t, who, paths)
      PROVE  Types'
  <2> DEFINE c == [thread |-> t, who |-> who, paths |-> paths]
             tx == [step |-> "claiming", claim |-> c, seen |-> Overlapped(c), known |-> Ids]
  <2>1. Hold(r, tx) /\ UNCHANGED <<thread, claims, told, missed, prs, events>>
    BY <1>1 DEF ReadOverlaps, Overlapped
  <2>2. c \in Claim
    BY DEF Claim
  <2>3. Overlapped(c) \subseteq Ids /\ Ids \subseteq Nat
    BY DEF Overlapped, Ids, Types, ClaimsTypeOK
  <2>4. tx \in Transactions
    BY <2>2, <2>3 DEF Transactions
  <2>5. Refers(tx)
    BY <2>3 DEF Refers
  <2>6. QED
    BY <2>1, <2>4, <2>5, HoldKeepsTypes DEF Types, ClaimsTypeOK
<1>2. ASSUME NEW r \in Handler, FileClaim(r) PROVE Types'
  <2>1. /\ claims' \in Seq(Row) /\ Ids' = Ids \cup {Len(claims) + 1}
        /\ \A i \in Ids : claims'[i].who = claims[i].who
        /\ inflight[r].seen \subseteq Ids
    BY <1>2, FileClaimAdds
  <2>2. told' \subseteq Ids' \X Ids' /\ missed' \subseteq Ids' \X Ids'
    BY <1>2, <2>1 DEF FileClaim, Types, ClaimsTypeOK
  <2>3. QED
    BY <1>2, <2>1, <2>2, WriteKeepsTypes DEF FileClaim, Types, ClaimsTypeOK
<1>3. ASSUME NEW r \in Handler, NEW who \in Participant, NEW i \in 1 .. MaxClaims,
             ReadRelease(r, who, i)
      PROVE  Types'
  <2> DEFINE tx == [step |-> "releasing", id |-> i, who |-> who]
  <2>1. tx \in Transactions /\ Refers(tx)
    BY <1>3, ConstantsOK DEF Transactions, Refers, ReadRelease
  <2>2. QED
    BY <1>3, <2>1, HoldKeepsTypes DEF ReadRelease, Types, ClaimsTypeOK
<1>4. ASSUME NEW r \in Handler, WriteRelease(r) PROVE Types'
  <2>1. /\ claims' \in Seq(Row) /\ Ids' = Ids
        /\ \A i \in Ids : claims'[i].who = claims[i].who
    BY <1>4, WriteReleaseReleases
  <2>2. QED
    BY <1>4, <2>1, WriteKeepsTypes DEF WriteRelease, Types, ClaimsTypeOK
<1>5. ASSUME NEW r \in Handler, NEW t \in Thread, NEW to \in {"rejected", "completed"},
             CheckClose(r, t, to)
      PROVE  Types'
  <2> DEFINE tx == [step |-> "closing", thread |-> t, to |-> to]
  <2>1. tx \in Transactions /\ Refers(tx)
    BY DEF Transactions, Refers
  <2>2. events' \in Nat
    BY <1>5 DEF CheckClose, Happens, Types, ClaimsTypeOK
  <2>3. QED
    BY <1>5, <2>1, <2>2, HoldKeepsTypes DEF CheckClose, Types, ClaimsTypeOK
<1>6. ASSUME NEW r \in Handler, CommitClose(r) PROVE Types'
  <2>1. /\ claims' \in Seq(Row) /\ Ids' = Ids
        /\ \A i \in Ids : claims'[i].who = claims[i].who
    BY <1>6, CommitCloseReleases
  <2>2. thread' \in [Thread -> [state : States, binding : BOOLEAN, archived : BOOLEAN]]
    BY <1>6, CommitCloseThreads
  <2>3. QED
    BY <1>6, <2>1, <2>2, WriteKeepsTypes DEF CommitClose, Types, ClaimsTypeOK
<1>7. ASSUME NEW t \in Thread, NEW b \in BOOLEAN, Decide(t, b) PROVE Types'
  <2>1. thread' \in [Thread -> [state : States, binding : BOOLEAN, archived : BOOLEAN]]
    BY <1>7 DEF Decide, Types, ClaimsTypeOK, States
  <2>2. QED
    BY <1>7, <2>1, OthersKeepTypes DEF Decide, Happens, Types, ClaimsTypeOK
<1>8. ASSUME NEW t \in Thread, Archive(t) PROVE Types'
  <2>1. thread' \in [Thread -> [state : States, binding : BOOLEAN, archived : BOOLEAN]]
    BY <1>8 DEF Archive, Types, ClaimsTypeOK
  <2>2. QED
    BY <1>8, <2>1, OthersKeepTypes DEF Archive, Happens, Types, ClaimsTypeOK
<1>9. ASSUME NEW t \in Thread, NEW s \in PullRequestStates, LinkPullRequest(t, s)
      PROVE  Types'
  <2>1. prs' \in [Thread -> SUBSET PullRequestStates] /\ events' \in Nat
    BY <1>9 DEF LinkPullRequest, Happens, Types, ClaimsTypeOK
  <2>2. QED
    BY <1>9, <2>1, OthersKeepTypes DEF LinkPullRequest, Types, ClaimsTypeOK
<1>10. ASSUME NEW t \in Thread, NEW from \in PullRequestStates, NEW to \in PullRequestStates,
              SyncPullRequest(t, from, to)
       PROVE  Types'
  <2>1. prs' \in [Thread -> SUBSET PullRequestStates]
    BY <1>10 DEF SyncPullRequest, Types, ClaimsTypeOK
  <2>2. QED
    BY <1>10, <2>1, OthersKeepTypes DEF SyncPullRequest, Happens, Types, ClaimsTypeOK
<1>11. CASE UNCHANGED claimsVars
  BY <1>11, OthersKeepTypes DEF claimsVars, Types, ClaimsTypeOK
<1>12. QED
  BY <1>1, <1>2, <1>3, <1>4, <1>5, <1>6, <1>7, <1>8, <1>9, <1>10, <1>11 DEF ClaimsNext

\* Every column and everything a request has read keeps its type, and the rows a
\* request refers to exist and keep their owner, however requests overlap.
THEOREM ClaimTypes == ClaimsSpec => []Types
<1>1. QED
  BY InitTypes, NextTypes, PTL DEF ClaimsSpec

-----------------------------------------------------------------------------
(* What the two properties need of a step.                                  *)

\* How the rows of claims may change in a step: one is put behind the others, or
\* some of those there are stop being in force.
Files(r) == r \in Handler /\ FileClaim(r)
Releases ==
  /\ Ids' = Ids /\ UNCHANGED <<told, missed>>
  /\ \A i \in Ids :
       /\ claims'[i].who = claims[i].who /\ claims'[i].paths = claims[i].paths
       /\ claims'[i].active => claims[i].active

\* No step does more to the claims than one of these two.
LEMMA NextFilesOrReleases ==
  ASSUME Types, [ClaimsNext]_claimsVars
  PROVE  (\E r : Files(r)) \/ Releases
<1>1. ASSUME NEW r \in Handler, WriteRelease(r) PROVE Releases
  BY <1>1, WriteReleaseReleases DEF Releases, WriteRelease
<1>2. ASSUME NEW r \in Handler, CommitClose(r) PROVE Releases
  BY <1>2, CommitCloseReleases DEF Releases, CommitClose
<1>3. ASSUME UNCHANGED <<claims, told, missed>> PROVE Releases
  BY <1>3 DEF Releases, Ids
<1>4. QED
  BY <1>1, <1>2, <1>3
     DEF ClaimsNext, claimsVars, Files, ReadOverlaps, ReadRelease, CheckClose, Decide, Archive,
         LinkPullRequest, SyncPullRequest

\* Rows are only added, unknown to whoever has looked, or end.
LEMMA StaysLooked ==
  ASSUME Types, [ClaimsNext]_claimsVars, NEW tx, HasLooked(tx), Refers(tx)
  PROVE  HasLooked(tx)'
<1> SUFFICES ASSUME tx.step = "claiming"
             PROVE  Overlapped(tx.claim)' \cap tx.known \subseteq tx.seen
  BY DEF HasLooked
<1>1. tx.known \subseteq Ids
  BY DEF Refers
<1>2. Overlapped(tx.claim) \cap tx.known \subseteq tx.seen
  BY DEF HasLooked
<1>3. \A i \in Ids : /\ claims'[i].who = claims[i].who /\ claims'[i].paths = claims[i].paths
                     /\ claims'[i].active => claims[i].active
  <2>1. ASSUME NEW r, Files(r) PROVE \A i \in Ids : claims'[i] = claims[i]
    BY <2>1, FileClaimAdds DEF Files
  <2>2. QED
    BY <2>1, NextFilesOrReleases DEF Releases
<1>4. QED
  BY <1>1, <1>2, <1>3 DEF Overlapped

\* What a request has seen is all there was to see.
LEMMA NextLooked == Types /\ Looked /\ [ClaimsNext]_claimsVars => Looked'
<1> SUFFICES ASSUME Types, Looked, [ClaimsNext]_claimsVars, NEW s \in Handler
             PROVE  HasLooked(inflight[s])'
  BY DEF Looked
<1>1. CASE inflight'[s] = inflight[s]
  <2>1. HasLooked(inflight[s]) /\ Refers(inflight[s])
    BY DEF Looked, Types
  <2>2. QED
    BY <1>1, <2>1, StaysLooked DEF HasLooked
<1>2. ASSUME NEW t \in Thread, NEW who \in Participant, NEW paths \in PathSet,
             ReadOverlaps(s, t, who, paths)
      PROVE  HasLooked(inflight[s])'
  <2> DEFINE c == [thread |-> t, who |-> who, paths |-> paths]
             tx == [step |-> "claiming", claim |-> c, seen |-> Overlapped(c), known |-> Ids]
  <2>1. Hold(s, tx) /\ UNCHANGED claims
    BY <1>2 DEF ReadOverlaps, Overlapped
  <2>2. inflight'[s] = tx
    BY <2>1 DEF Hold, Types, ClaimsTypeOK
  <2>3. tx.claim = c /\ tx.seen = Overlapped(c)
    OBVIOUS
  <2>4. Overlapped(c)' = Overlapped(c)
    BY <2>1 DEF Overlapped, Ids
  <2> HIDE DEF tx, c
  <2>5. QED
    BY <2>2, <2>3, <2>4 DEF HasLooked
<1>3. ASSUME inflight'[s] # inflight[s],
             ~ \E t \in Thread, who \in Participant, paths \in PathSet :
                 ReadOverlaps(s, t, who, paths)
      PROVE  inflight'[s].step # "claiming"
  <2> DEFINE Moves(r) == \E tx : Hold(r, tx) /\ (r = s => tx.step # "claiming")
  <2>0. inflight' # inflight
    BY <1>3
  <2>a. ASSUME NEW r \in Handler, NEW t \in Thread, NEW who \in Participant,
               NEW paths \in PathSet, ReadOverlaps(r, t, who, paths)
        PROVE  Moves(r)
    <3>1. r # s
      BY <1>3, <2>a
    <3>2. QED
      BY <2>a, <3>1 DEF ReadOverlaps
  <2>b. ASSUME NEW r \in Handler, FileClaim(r) \/ WriteRelease(r) \/ CommitClose(r)
        PROVE  Moves(r)
    <3>1. Hold(r, Idle) /\ Idle.step # "claiming"
      BY <2>b DEF FileClaim, WriteRelease, CommitClose, Idle
    <3>2. QED
      BY <3>1
  <2>c. ASSUME NEW r \in Handler, NEW who \in Participant, NEW i \in 1 .. MaxClaims,
               ReadRelease(r, who, i)
        PROVE  Moves(r)
    <3>1. Hold(r, [step |-> "releasing", id |-> i, who |-> who])
      BY <2>c DEF ReadRelease
    <3>2. [step |-> "releasing", id |-> i, who |-> who].step # "claiming"
      OBVIOUS
    <3>3. QED
      BY <3>1, <3>2
  <2>d. ASSUME NEW r \in Handler, NEW t \in Thread, NEW to \in {"rejected", "completed"},
               CheckClose(r, t, to)
        PROVE  Moves(r)
    <3>1. Hold(r, [step |-> "closing", thread |-> t, to |-> to])
      BY <2>d DEF CheckClose
    <3>2. [step |-> "closing", thread |-> t, to |-> to].step # "claiming"
      OBVIOUS
    <3>3. QED
      BY <3>1, <3>2
  <2> HIDE DEF Moves
  <2>1. PICK r \in Handler : Moves(r)
    BY <2>0, <2>a, <2>b, <2>c, <2>d DEF ClaimsNext, claimsVars, Decide, Archive,
       LinkPullRequest, SyncPullRequest
  <2>2. PICK tx : Hold(r, tx) /\ (r = s => tx.step # "claiming")
    BY <2>1 DEF Moves
  <2>3. r = s /\ inflight'[s] = tx
    BY <1>3, <2>2 DEF Hold, Types, ClaimsTypeOK
  <2>4. QED
    BY <2>2, <2>3
<1>4. QED
  BY <1>1, <1>2, <1>3 DEF HasLooked

\* A claim that is filed names every one that it overlaps and its request knew.
LEMMA FilingTells ==
  ASSUME Types, Looked, OverlapIsTold, NEW r \in Handler, FileClaim(r)
  PROVE  OverlapIsTold'
<1> DEFINE c == inflight[r].claim
           n == Len(claims) + 1
<1>1. /\ Ids' = Ids \cup {n} /\ n \notin Ids
      /\ \A i \in Ids : claims'[i] = claims[i] /\ i < n
      /\ claims'[n] = [thread |-> c.thread, who |-> c.who, paths |-> c.paths, active |-> TRUE]
  BY FileClaimAdds
<1>2. Ids \subseteq Nat /\ n \in Nat
  BY DEF Types, ClaimsTypeOK, Ids
<1>3. /\ told \subseteq told' /\ missed \subseteq missed'
      /\ \A j \in Overlapped(c) : <<n, j>> \in told' \cup missed'
  <2>1. Overlapped(c) \cap inflight[r].known \subseteq inflight[r].seen
    BY DEF FileClaim, Looked, HasLooked
  <2>2. /\ told' = told \cup {<<n, j>> : j \in inflight[r].seen}
        /\ missed' = missed \cup {<<n, j>> : j \in Ids \ inflight[r].known}
    BY DEF FileClaim
  <2>3. QED
    BY <2>1, <2>2 DEF Overlapped
<1> HIDE DEF n, c
<1>4. ASSUME NEW i \in Ids', NEW j \in Ids', j < i, claims'[i].active, claims'[j].active,
             claims'[i].who # claims'[j].who,
             NEW p \in claims'[i].paths, NEW q \in claims'[j].paths, PathsMeet(p, q)
      PROVE  <<i, j>> \in told' \cup missed'
  <2>1. CASE i = n
    <3>1. j \in Ids /\ claims'[j] = claims[j]
      BY <1>1, <1>2, <1>4, <2>1
    <3>2. claims[j].active /\ claims[j].who # c.who /\ p \in c.paths /\ q \in claims[j].paths
      BY <1>1, <1>4, <2>1, <3>1
    <3>3. claimPathsOverlap(claims[j].paths, c.paths)
      BY <3>2, <1>4, MeetingIsMutual DEF claimPathsOverlap
    <3>4. QED
      BY <1>3, <2>1, <3>1, <3>2, <3>3 DEF Overlapped
  <2>2. CASE i \in Ids
    <3>1. i < n /\ i \in Nat /\ n \in Nat
      BY <1>1, <1>2, <2>2
    <3>2. j # n
      BY <1>4, <3>1
    <3>3. j \in Ids
      BY <1>1, <3>2
    <3>4. QED
      BY <1>1, <1>3, <1>4, <2>2, <3>3 DEF OverlapIsTold, AtOdds
  <2>3. QED
    BY <1>1, <1>4, <2>1, <2>2
<1>5. QED
  BY <1>4 DEF OverlapIsTold, AtOdds

\* However requests overlap, of two participants at work on overlapping paths the
\* later was told of the earlier, unless that was filed between its look and its
\* filing: releases, closings and everything that happens to threads in between
\* included (claimWork).
THEOREM OverlapsAreTold == ClaimsSpec => []OverlapIsTold
<1> DEFINE Stands == Types /\ Looked /\ OverlapIsTold
<1>1. ClaimsInit => Stands
  <2>1. ClaimsInit => OverlapIsTold
    BY DEF ClaimsInit, OverlapIsTold, Ids
  <2>2. ClaimsInit => Looked
    BY DEF ClaimsInit, Looked, HasLooked, Idle
  <2>3. QED
    BY <2>1, <2>2, InitTypes
<1>2. Stands /\ [ClaimsNext]_claimsVars => Stands'
  <2> SUFFICES ASSUME Types, Looked, OverlapIsTold, [ClaimsNext]_claimsVars
               PROVE  OverlapIsTold'
    BY NextTypes, NextLooked
  <2>1. CASE \E r : Files(r)
    BY <2>1, FilingTells DEF Files
  <2>2. CASE Releases
    BY <2>2 DEF Releases, OverlapIsTold, AtOdds
  <2>3. QED
    BY <2>1, <2>2, NextFilesOrReleases
<1>3. QED
  BY <1>1, <1>2, PTL DEF ClaimsSpec

\* However requests overlap, and whatever a release or a closing read before others
\* wrote, a claim ends in no step but its participant's release and one that leaves
\* its own thread closed (releaseWork, deactivateThreadClaims).
THEOREM ClaimsEndRightly == ClaimsSpec => ClaimsOutlive
<1>1. Types /\ [ClaimsNext]_claimsVars => [EndingsAreRight]_claimsVars
  <2> SUFFICES ASSUME Types, [ClaimsNext]_claimsVars, NEW i \in Ids, claims[i].active,
                      ~claims'[i].active
               PROVE  EndsRightly(i)
    BY DEF EndingsAreRight
  <2>1. ASSUME NEW r \in Handler, FileClaim(r) PROVE FALSE
    BY <2>1, FileClaimAdds
  <2>2. ASSUME NEW r \in Handler, WriteRelease(r) PROVE EndsRightly(i)
    <3>1. inflight[r] \in [step : {"releasing"}, id : Nat, who : Participant]
      BY <2>2, RequestTypes DEF WriteRelease, Types, ClaimsTypeOK
    <3>2. i = inflight[r].id /\ claims[i].who = inflight[r].who
      BY <2>2, WriteReleaseReleases DEF WriteRelease, Types, Refers
    <3>3. inflight[r] = [step |-> "releasing", id |-> i, who |-> claims[i].who]
      BY <3>1, <3>2
    <3>4. QED
      BY <3>3 DEF EndsRightly
  <2>3. ASSUME NEW r \in Handler, CommitClose(r) PROVE EndsRightly(i)
    <3>1. claims[i].thread = inflight[r].thread
      BY <2>3, CommitCloseReleases
    <3>2. thread'[inflight[r].thread].state \in {"rejected", "completed"}
      BY <2>3, CommitCloseThreads
    <3>3. QED
      BY <3>1, <3>2 DEF EndsRightly
  <2>4. ASSUME UNCHANGED claims PROVE FALSE
    BY <2>4
  <2>5. QED
    BY <2>1, <2>2, <2>3, <2>4
       DEF ClaimsNext, claimsVars, ReadOverlaps, ReadRelease, CheckClose, Decide, Archive,
           LinkPullRequest, SyncPullRequest
<1>2. QED
  BY <1>1, InitTypes, NextTypes, PTL DEF ClaimsSpec, ClaimsOutlive
=============================================================================
