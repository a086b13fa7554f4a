--------------------------- MODULE AgentSessionProofs ---------------------------
(***************************************************************************)
(* What is proved about AgentSession for any budget, reserve and costs and *)
(* any number of sessions and crashes, whatever requests overlap: the      *)
(* types, that tools and token reports leave the reserve alone, that a     *)
(* handover is never hidden by an interruption, and that a briefing tells  *)
(* the handover of the session just before, with the exceptions            *)
(* BriefingTellsDayBefore names.                                           *)
(***************************************************************************)
EXTENDS AgentSession, TLAPS

-----------------------------------------------------------------------------
(* The inductive invariant.  A charge is written as a sum of what was read  *)
(* earlier, whatever the row says meanwhile, so the invariant bounds what   *)
(* every call carries: w is the column winding, y the column reason.        *)

Legal(c, w, y) ==
  /\ c.step \in {"find", "insert", "refind"} => c.tool \in Tools \cup {"session.start"}
  /\ c.step \in {"digest", "recall"} => c.tool = "get_briefing"
  /\ c.step \in {"check", "charge"} => c.tool \in Tools \cup {"token_usage"}
  /\ c.step \in {"act", "refund", "restore"} => c.tool \in WorkTool \cup {"end_session"}
  /\ c.step \notin {"idle", "find", "insert", "refind"} => c.sid \in Ids
  /\ c.step = "charge" =>
       /\ c.seen + c.amount <= Limit
       /\ c.tool # "end_session" => c.seen + c.amount <= Limit - Reserve
  /\ c.step = "restore" =>
       /\ c.seen <= Limit
       /\ ~w[c.sid] => c.seen <= Limit - Reserve
  /\ c.step = "hand over" => y[c.sid] = "completed"

CallsAreLegal == \A r \in Slots : Legal(calls[r], winding, reason)

EndedHasReason == \A s \in Ids : endedAt[s] = 0 => reason[s] = None

Columns == EndedHasReason /\ ReserveIsKept /\ HandoverMeansCompleted

\* The types of the columns; the calls, and the history variables, are apart.
ColumnsType ==
  /\ count \in 0..MaxSessions
  /\ endedAt \in [Ids -> Nat]
  /\ reason \in [Ids -> {None, "completed", "interrupted"}]
  /\ digested \in [Ids -> BOOLEAN]
  /\ stale \in [Ids -> BOOLEAN]
  /\ endings \in Nat
  /\ used \in [Ids -> 0..Limit]
  /\ winding \in [Ids -> BOOLEAN]
  /\ work \in [Ids -> 0..MaxWork]
  /\ handed \in [Ids -> BOOLEAN]
  /\ told \in [Ids -> 0..MaxSessions \cup {None}]
  /\ crashes \in 0..MaxCrashes

Types == ColumnsType /\ calls \in [Slots -> Calls]

IInv == Types /\ CallsAreLegal /\ Columns

-----------------------------------------------------------------------------
(* Lemmas about costs and about calls. *)

\* The cost of a tool is a natural number.
LEMMA CostType ==
  ASSUME NEW tool \in Tools
  PROVE  CostOf(tool) \in Nat
  BY SessionConstants DEF CostOf, Tools

\* The lesser of two numbers is one of them and at most either.
LEMMA LeastBound ==
  ASSUME NEW m \in Int, NEW n \in Int
  PROVE  Least(m, n) \in {m, n} /\ Least(m, n) <= m /\ Least(m, n) <= n
  BY DEF Least

LEMMA IdleIsLegal == Idle \in Calls /\ \A w, y : Legal(Idle, w, y)
  BY DEF Idle, Calls, Steps, Legal

\* What a call carries stays legal while end_session charges are remembered and
\* completed sessions stay completed.
LEMMA StaysLegal ==
  ASSUME NEW c, NEW w, NEW y, NEW w2, NEW y2, Legal(c, w, y),
         \A s \in Ids : w[s] => w2[s],
         \A s \in Ids : y[s] = "completed" => y2[s] = "completed"
  PROVE  Legal(c, w2, y2)
  BY DEF Legal

\* A step that stores a legal call and leaves the others alone.
LEMMA BecomeLegal ==
  ASSUME Types, CallsAreLegal, NEW r \in Slots, NEW c \in Calls, Become(r, c),
         Legal(c, winding', reason'),
         \A s \in Ids : winding[s] => winding'[s],
         \A s \in Ids : reason[s] = "completed" => reason'[s] = "completed"
  PROVE  calls' \in [Slots -> Calls] /\ CallsAreLegal'
<1>1. calls' \in [Slots -> Calls]
  BY DEF Become, Types, ColumnsType
<1>2. ASSUME NEW q \in Slots PROVE Legal(calls'[q], winding', reason')
  <2>1. CASE q = r
    BY <2>1 DEF Become, Types, ColumnsType
  <2>2. CASE q # r
    <3>1. calls'[q] = calls[q]
      BY <2>2 DEF Become, Types, ColumnsType
    <3>2. Legal(calls[q], winding, reason)
      BY DEF CallsAreLegal
    <3>3. QED
      BY <3>1, <3>2, StaysLegal
  <2>3. QED
    BY <2>1, <2>2
<1>3. QED
  BY <1>1, <1>2 DEF CallsAreLegal

\* A step that reads the columns and writes none of them.
LEMMA ReadKeeps ==
  ASSUME IInv, NEW r \in Slots, NEW c \in Calls, Become(r, c),
         Legal(c, winding, reason),
         UNCHANGED <<lifecycle, budget, memory, crashes>>
  PROVE  IInv'
<1>1. winding' = winding /\ reason' = reason
  BY DEF lifecycle, budget
<1>2. calls' \in [Slots -> Calls] /\ CallsAreLegal'
  BY <1>1, BecomeLegal DEF IInv
<1>3. Types'
  BY <1>2 DEF IInv, Types, ColumnsType, lifecycle, budget, memory
<1>4. Columns'
  BY DEF IInv, Columns, EndedHasReason, ReserveIsKept, HandoverMeansCompleted,
         Remaining, lifecycle, budget, memory
<1>5. QED
  BY <1>2, <1>3, <1>4 DEF IInv

\* A step that writes columns too.
LEMMA WriteKeeps ==
  ASSUME IInv, NEW r \in Slots, NEW c \in Calls, Become(r, c),
         Legal(c, winding', reason'), ColumnsType', Columns',
         \A s \in Ids : winding[s] => winding'[s],
         \A s \in Ids : reason[s] = "completed" => reason'[s] = "completed"
  PROVE  IInv'
<1>1. calls' \in [Slots -> Calls] /\ CallsAreLegal'
  BY BecomeLegal DEF IInv
<1>2. Types'
  BY <1>1 DEF ColumnsType, Types
<1>3. QED
  BY <1>1, <1>2 DEF IInv

\* A step that ends what a call does, and writes columns.
LEMMA FinishKeeps ==
  ASSUME IInv, NEW r \in Slots, Finish(r), ColumnsType', Columns',
         \A s \in Ids : winding[s] => winding'[s],
         \A s \in Ids : reason[s] = "completed" => reason'[s] = "completed"
  PROVE  IInv'
  BY IdleIsLegal, WriteKeeps DEF Finish

\* A step that moves a call on, with what it has read, and writes no column.
LEMMA GotoKeeps ==
  ASSUME IInv, NEW r \in Slots, NEW step \in Steps, Goto(r, step),
         Legal([calls[r] EXCEPT !.step = step], winding, reason),
         UNCHANGED <<lifecycle, budget, memory, crashes>>
  PROVE  IInv'
<1>1. calls[r] \in Calls
  BY DEF IInv, Types, ColumnsType
<1>2. [calls[r] EXCEPT !.step = step] \in Calls
  BY <1>1 DEF Calls
<1>3. QED
  BY <1>2, ReadKeeps DEF Goto

\* A step that ends what a call does and writes no column.
LEMMA LeaveKeeps ==
  ASSUME IInv, NEW r \in Slots, Finish(r),
         UNCHANGED <<lifecycle, budget, memory, crashes>>
  PROVE  IInv'
  BY IdleIsLegal, ReadKeeps DEF Finish

\* The invariant of one call, and its type.
LEMMA CallFacts ==
  ASSUME IInv, NEW r \in Slots
  PROVE  calls[r] \in Calls /\ Legal(calls[r], winding, reason)
  BY DEF IInv, Types, ColumnsType, CallsAreLegal

\* An open session is one of the sessions.
LEMMA OpenIsId == ASSUME Types PROVE Open \subseteq Ids
  BY SessionConstants DEF Open, Types, ColumnsType, Ids

-----------------------------------------------------------------------------
(* Requests, and looking the session up. *)

LEMMA RequestsKeep == ASSUME IInv, Requests PROVE IInv'
<1> PICK r \in Call :
      \/ \E tool \in Tools : Request(r, tool)
      \/ StartSession(r)
      \/ \E s \in Ids, n \in Tokens : ReportTokens(r, s, n)
  BY DEF Requests
<1>r. r \in Slots
  BY DEF Slots
<1>1. ASSUME NEW tool \in Tools, Request(r, tool) PROVE IInv'
  <2> DEFINE c == [Idle EXCEPT !.step = "find", !.tool = tool]
  <2>1. c \in Calls /\ Legal(c, winding, reason)
    BY DEF Idle, Calls, Steps, Legal
  <2>2. QED
    BY <1>1, <1>r, <2>1, ReadKeeps DEF Request
<1>2. CASE StartSession(r)
  <2> DEFINE c == [Idle EXCEPT !.step = "find", !.tool = "session.start", !.again = TRUE]
  <2>1. c \in Calls /\ Legal(c, winding, reason)
    BY DEF Idle, Calls, Steps, Legal
  <2>2. QED
    BY <1>2, <1>r, <2>1, ReadKeeps DEF StartSession
<1>3. ASSUME NEW s \in Ids, NEW n \in Tokens, ReportTokens(r, s, n) PROVE IInv'
  <2> DEFINE c == [Idle EXCEPT !.step = "check", !.tool = "token_usage",
                               !.sid = s, !.tokens = n]
  <2>1. s \in Nat /\ n \in Nat
    BY SessionConstants DEF Ids
  <2>2. c \in Calls /\ Legal(c, winding, reason)
    BY <2>1 DEF Idle, Calls, Steps, Legal
  <2>3. QED
    BY <1>3, <1>r, <2>2, ReadKeeps DEF ReportTokens
<1>4. QED
  BY <1>1, <1>2, <1>3

\* Whatever session a call found, what it carries next is legal.
LEMMA ProceedIsLegal ==
  ASSUME IInv, NEW r \in Slots, calls[r].step \in {"find", "insert", "refind"},
         NEW s \in Ids
  PROVE  Proceed(r, s) \in Calls /\ Legal(Proceed(r, s), winding, reason)
<1>1. calls[r] \in Calls /\ calls[r].tool \in Tools \cup {"session.start"}
  BY CallFacts DEF Legal
<1>2. s \in Nat
  BY SessionConstants DEF Ids
<1>3. \/ Proceed(r, s) = Idle
      \/ Proceed(r, s) = [calls[r] EXCEPT !.step = "find", !.again = TRUE]
      \/ /\ calls[r].tool = "get_briefing"
         /\ Proceed(r, s) = [calls[r] EXCEPT !.step = "digest", !.sid = s]
      \/ /\ calls[r].tool # "session.start"
         /\ Proceed(r, s) = [calls[r] EXCEPT !.step = "check", !.sid = s]
  BY DEF Proceed
<1>4. CASE Proceed(r, s) = Idle
  BY <1>4, IdleIsLegal
<1>5. CASE Proceed(r, s) = [calls[r] EXCEPT !.step = "find", !.again = TRUE]
  BY <1>1, <1>5 DEF Calls, Steps, Legal
<1>6. CASE calls[r].tool = "get_briefing"
           /\ Proceed(r, s) = [calls[r] EXCEPT !.step = "digest", !.sid = s]
  BY <1>1, <1>2, <1>6 DEF Calls, Steps, Legal
<1>7. CASE calls[r].tool # "session.start"
           /\ Proceed(r, s) = [calls[r] EXCEPT !.step = "check", !.sid = s]
  BY <1>1, <1>2, <1>7 DEF Calls, Steps, Legal
<1>8. QED
  BY <1>3, <1>4, <1>5, <1>6, <1>7

LEMMA FindKeeps == ASSUME IInv, NEW r \in Slots, FindSession(r) PROVE IInv'
<1>1. CASE Open = {}
  <2>1. Goto(r, "insert") /\ UNCHANGED <<lifecycle, budget, memory, crashes>>
    BY <1>1 DEF FindSession
  <2>2. Legal([calls[r] EXCEPT !.step = "insert"], winding, reason)
    BY CallFacts DEF FindSession, At, Legal, Calls
  <2>3. QED
    BY <2>1, <2>2, GotoKeeps DEF Steps
<1>2. ASSUME NEW s \in Open, Become(r, Proceed(r, s)) PROVE IInv'
  BY <1>2, OpenIsId, ProceedIsLegal, ReadKeeps DEF FindSession, At, IInv
<1>3. QED
  BY <1>1, <1>2 DEF FindSession

LEMMA InsertKeeps == ASSUME IInv, NEW r \in Slots, InsertSession(r) PROVE IInv'
<1>1. CASE Open = {}
  <2>1. count \in Nat /\ count < MaxSessions /\ count' = count + 1
    BY <1>1, SessionConstants DEF InsertSession, IInv, Types, ColumnsType
  <2>2. count + 1 \in Ids
    BY <2>1, SessionConstants DEF Ids
  <2>3. UNCHANGED <<endedAt, reason, digested, stale, endings, budget, memory, crashes>>
    BY DEF InsertSession
  <2>4. ColumnsType'
    BY <2>1, <2>3, SessionConstants DEF IInv, Types, ColumnsType, budget, memory
  <2>5. Columns'
    BY <2>3 DEF IInv, Columns, EndedHasReason, ReserveIsKept, HandoverMeansCompleted,
                Remaining, budget, memory
  <2>6. Legal(Proceed(r, count + 1), winding, reason) /\ Proceed(r, count + 1) \in Calls
    BY <2>2, ProceedIsLegal DEF InsertSession, At
  <2>7. Become(r, Proceed(r, count + 1)) /\ winding' = winding /\ reason' = reason
    BY <1>1, <2>3 DEF InsertSession, budget
  <2>8. QED
    BY <2>4, <2>5, <2>6, <2>7, WriteKeeps
<1>2. CASE Open # {}
  <2>1. Goto(r, "refind") /\ UNCHANGED <<lifecycle, budget, memory, crashes>>
    BY <1>2 DEF InsertSession, lifecycle
  <2>2. Legal([calls[r] EXCEPT !.step = "refind"], winding, reason)
    BY CallFacts DEF InsertSession, At, Legal, Calls
  <2>3. QED
    BY <2>1, <2>2, GotoKeeps DEF Steps
<1>3. QED
  BY <1>1, <1>2

LEMMA RefindKeeps == ASSUME IInv, NEW r \in Slots, RefindSession(r) PROVE IInv'
<1>1. ASSUME NEW s \in Open, Become(r, Proceed(r, s)) PROVE IInv'
  BY <1>1, OpenIsId, ProceedIsLegal, ReadKeeps DEF RefindSession, At, IInv
<1>2. CASE Become(r, [calls[r] EXCEPT !.step = "find", !.again = TRUE])
  <2> DEFINE c == [calls[r] EXCEPT !.step = "find", !.again = TRUE]
  <2>1. c \in Calls /\ Legal(c, winding, reason)
    BY CallFacts DEF RefindSession, At, Legal, Calls, Steps
  <2>2. QED
    BY <1>2, <2>1, ReadKeeps DEF RefindSession
<1>3. CASE Finish(r)
  BY <1>3, LeaveKeeps DEF RefindSession
<1>4. QED
  BY <1>1, <1>2, <1>3 DEF RefindSession

-----------------------------------------------------------------------------
(* The briefing. *)

LEMMA DigestKeeps == ASSUME IInv, NEW r \in Slots, Digest(r) PROVE IInv'
<1> DEFINE c == [calls[r] EXCEPT !.step = "recall"]
<1>1. c \in Calls /\ Legal(c, winding, reason)
  BY CallFacts DEF Digest, At, Legal, Calls, Steps
<1>2. Become(r, c) /\ UNCHANGED <<count, endedAt, reason, endings, budget, memory, crashes>>
  BY DEF Digest, Goto
<1>3. winding' = winding /\ reason' = reason
  BY <1>2 DEF budget
<1>4. ColumnsType'
  BY <1>2 DEF Digest, IInv, Types, ColumnsType, budget, memory
<1>5. Columns'
  BY <1>2 DEF IInv, Columns, EndedHasReason, ReserveIsKept, HandoverMeansCompleted,
              Remaining, budget, memory
<1>6. QED
  BY <1>1, <1>2, <1>3, <1>4, <1>5, WriteKeeps

LEMMA RecallKeeps == ASSUME IInv, NEW r \in Slots, Recall(r) PROVE IInv'
<1> DEFINE c == [calls[r] EXCEPT !.step = "check"]
<1>1. c \in Calls /\ Legal(c, winding, reason)
  BY CallFacts DEF Recall, At, Legal, Calls, Steps, Tools
<1>2. Become(r, c) /\ UNCHANGED <<lifecycle, budget, handed, crashes>>
  BY DEF Recall, Goto
<1>3. winding' = winding /\ reason' = reason
  BY <1>2 DEF lifecycle, budget
<1>4. told' \in [Ids -> 0..MaxSessions \cup {None}]
  BY DEF Recall, IInv, Types, ColumnsType
<1>5. ColumnsType'
  BY <1>2, <1>4 DEF IInv, Types, ColumnsType, lifecycle, budget
<1>6. Columns'
  BY <1>2 DEF IInv, Columns, EndedHasReason, ReserveIsKept, HandoverMeansCompleted,
              Remaining, lifecycle, budget
<1>7. QED
  BY <1>1, <1>2, <1>3, <1>5, <1>6, WriteKeeps

-----------------------------------------------------------------------------
(* The budget. *)

\* What a call that is not over budget is charged fits the row it was read from,
\* and leaves the reserve to end_session.
LEMMA ChargeFits ==
  ASSUME IInv, NEW call \in Calls, NEW s \in Ids,
         call.tool \in Tools \cup {"token_usage"}, ~OverBudget(call.tool, s)
  PROVE  /\ Charge(call, s) \in Nat
         /\ Charge(call, s) = 0 \/ used[s] + Charge(call, s) <= Limit
         /\ \/ Charge(call, s) = 0
            \/ call.tool = "end_session"
            \/ used[s] + Charge(call, s) <= Limit - Reserve
<1>1. used[s] \in 0..Limit /\ Limit \in Nat /\ Reserve \in Nat
  BY SessionConstants DEF IInv, Types, ColumnsType
<1>2. Remaining(s) \in Nat /\ Usable(s) \in Int /\ Usable(s) = Limit - used[s] - Reserve
  BY <1>1 DEF Remaining, Usable
<1>3. CASE call.tool = "token_usage"
  <2>1. call.tokens \in Nat
    BY DEF Calls
  <2>2. Charge(call, s) = IF Usable(s) <= 0 THEN 0 ELSE Least(call.tokens, Usable(s))
    BY <1>3 DEF Charge
  <2>3. Charge(call, s) = 0 \/ (Charge(call, s) \in Nat /\ Charge(call, s) <= Usable(s))
    BY <1>2, <2>1, <2>2, LeastBound
  <2>4. QED
    BY <1>1, <1>2, <2>3
<1>4. CASE call.tool = "end_session"
  <2>1. CostOf("end_session") \in Nat
    BY CostType DEF Tools
  <2>2. Charge(call, s) = Least(CostOf("end_session"), Remaining(s))
    BY <1>4 DEF Charge
  <2>3. Charge(call, s) \in Nat /\ Charge(call, s) <= Remaining(s)
    BY <1>2, <2>1, <2>2, LeastBound
  <2>4. QED
    BY <1>1, <1>4, <2>3 DEF Remaining
<1>5. CASE call.tool \in WorkTool \cup {"get_briefing"}
  <2>1. call.tool \in Tools /\ call.tool \notin {"token_usage", "end_session"}
    BY <1>5, SessionConstants DEF Tools
  <2>2. Charge(call, s) = CostOf(call.tool) /\ CostOf(call.tool) \in Nat
    BY <2>1, CostType DEF Charge
  <2>3. ~(CostOf(call.tool) > Usable(s))
    BY <1>5 DEF OverBudget
  <2>4. QED
    BY <1>1, <1>2, <2>2, <2>3
<1>6. QED
  BY <1>3, <1>4, <1>5 DEF Tools

\* Once paid for, a call is over or an ordinary tool or end_session acts.
LEMMA PaidIsLegal ==
  ASSUME NEW w, NEW y, NEW c \in Calls, c.tool \in Tools \cup {"token_usage"},
         c.sid \in Ids
  PROVE  Paid(c) \in Calls /\ Legal(Paid(c), w, y)
<1>1. CASE c.tool \in {"token_usage", "get_briefing"}
  BY <1>1, IdleIsLegal DEF Paid
<1>2. CASE c.tool \notin {"token_usage", "get_briefing"}
  BY <1>2 DEF Paid, Calls, Steps, Legal, Tools
<1>3. QED
  BY <1>1, <1>2

LEMMA CheckBudgetKeeps == ASSUME IInv, NEW r \in Slots, CheckBudget(r) PROVE IInv'
<1> DEFINE call == calls[r]
           s == call.sid
           amount == Charge(call, s)
           paying == [call EXCEPT !.step = "charge", !.seen = used[s], !.amount = amount]
<1>1. call \in Calls /\ call.tool \in Tools \cup {"token_usage"} /\ s \in Ids
  BY CallFacts DEF CheckBudget, At, Legal
<1>2. UNCHANGED <<lifecycle, budget, memory, crashes>>
  BY DEF CheckBudget
<1>3. CASE endedAt[s] # 0 \/ OverBudget(call.tool, s)
  BY <1>2, <1>3, LeaveKeeps DEF CheckBudget, Finish
<1>4. CASE ~(endedAt[s] # 0 \/ OverBudget(call.tool, s)) /\ amount = 0
  <2>1. Become(r, Paid(call))
    BY <1>4 DEF CheckBudget
  <2>2. Paid(call) \in Calls /\ Legal(Paid(call), winding, reason)
    BY <1>1, PaidIsLegal
  <2>3. QED
    BY <1>2, <2>1, <2>2, ReadKeeps
<1>5. CASE ~(endedAt[s] # 0 \/ OverBudget(call.tool, s)) /\ amount # 0
  <2>1. Become(r, paying)
    BY <1>5 DEF CheckBudget
  <2>2. /\ amount \in Nat
        /\ used[s] + amount <= Limit
        /\ call.tool # "end_session" => used[s] + amount <= Limit - Reserve
    BY <1>1, <1>5, ChargeFits
  <2>3. used[s] \in Nat
    BY <1>1, SessionConstants DEF IInv, Types, ColumnsType
  <2> HIDE DEF amount
  <2>4. paying \in Calls /\ Legal(paying, winding, reason)
    BY <1>1, <2>2, <2>3 DEF Calls, Steps, Legal
  <2>5. QED
    BY <1>2, <2>1, <2>4, ReadKeeps
<1>6. QED
  BY <1>3, <1>4, <1>5

\* Work is counted up to its bound.
LEMMA CountedType == ASSUME NEW n \in Nat PROVE Counted(n) \in 0..MaxWork
  BY SessionConstants, LeastBound DEF Counted

LEMMA WriteChargeKeeps == ASSUME IInv, NEW r \in Slots, WriteCharge(r) PROVE IInv'
<1> DEFINE call == calls[r]
           s == call.sid
           sum == call.seen + call.amount
<1>1. call \in Calls /\ call.tool \in Tools \cup {"token_usage"} /\ s \in Ids
  BY CallFacts DEF WriteCharge, At, Legal
<1>2. /\ sum \in Nat /\ sum <= Limit
      /\ call.tool # "end_session" => sum <= Limit - Reserve
  <2>1. call.seen \in Nat /\ call.amount \in Nat
    BY <1>1 DEF Calls
  <2>2. sum <= Limit /\ (call.tool # "end_session" => sum <= Limit - Reserve)
    BY CallFacts DEF WriteCharge, At, Legal
  <2>3. QED
    BY <2>1, <2>2
<1>3. /\ used' = [used EXCEPT ![s] = sum]
      /\ winding' = [winding EXCEPT ![s] = @ \/ call.tool = "end_session"]
      /\ stale' = [stale EXCEPT ![s] = FALSE]
      /\ Become(r, Paid(call))
      /\ UNCHANGED <<count, endedAt, reason, digested, endings, memory, crashes>>
  BY DEF WriteCharge
<1>4. Paid(call) \in Calls /\ Legal(Paid(call), winding', reason')
  BY <1>1, PaidIsLegal
<1>5. work' \in [Ids -> 0..MaxWork]
  <2>1. CASE call.tool = "token_usage"
    <3>1. work[s] + call.amount \in Nat
      BY <1>1, SessionConstants DEF IInv, Types, ColumnsType, Calls
    <3>2. work' = [work EXCEPT ![s] = Counted(work[s] + call.amount)]
      BY <2>1 DEF WriteCharge
    <3>3. QED
      BY <3>1, <3>2, CountedType DEF IInv, Types, ColumnsType
  <2>2. CASE call.tool # "token_usage"
    BY <2>2 DEF WriteCharge, IInv, Types, ColumnsType
  <2>3. QED
    BY <2>1, <2>2
<1> HIDE DEF sum
<1>6. used' \in [Ids -> 0..Limit]
  <2>1. sum \in 0..Limit
    BY <1>2, SessionConstants
  <2>2. used' = [used EXCEPT ![s] = sum]
    BY <1>3
  <2>3. QED
    BY <2>1, <2>2 DEF IInv, Types, ColumnsType
<1>7. winding' \in [Ids -> BOOLEAN] /\ \A i \in Ids : winding[i] => winding'[i]
  <2>1. winding \in [Ids -> BOOLEAN]
    BY DEF IInv, Types, ColumnsType
  <2>2. ASSUME NEW i \in Ids
        PROVE  winding'[i] \in BOOLEAN /\ (winding[i] => winding'[i])
    <3>1. winding'[i] = IF i = s THEN winding[i] \/ call.tool = "end_session"
                                 ELSE winding[i]
      BY <1>3, <2>1, Zenon
    <3>2. winding[i] \in BOOLEAN
      BY <2>1
    <3>3. QED
      BY <3>1, <3>2
  <2>3. winding' = [i \in Ids |-> winding'[i]]
    BY <1>3, <2>1
  <2>4. QED
    BY <2>2, <2>3
<1>8. ColumnsType'
  BY <1>3, <1>5, <1>6, <1>7 DEF IInv, Types, ColumnsType, memory
<1>9. ReserveIsKept'
  <2> SUFFICES ASSUME NEW i \in Ids, ~winding'[i]
               PROVE  Limit - used'[i] >= Reserve
    BY DEF ReserveIsKept, Remaining
  <2>1. CASE i = s
    <3>1. call.tool # "end_session" /\ used'[i] = sum
      BY <1>3, <2>1 DEF IInv, Types, ColumnsType
    <3>2. QED
      BY <1>2, <3>1, SessionConstants
  <2>2. CASE i # s
    <3>1. ~winding[i] /\ used'[i] = used[i]
      BY <1>3, <2>2 DEF IInv, Types, ColumnsType
    <3>2. QED
      BY <3>1 DEF IInv, Columns, ReserveIsKept, Remaining
  <2>3. QED
    BY <2>1, <2>2
<1>10. Columns'
  BY <1>3, <1>9 DEF IInv, Columns, EndedHasReason, HandoverMeansCompleted, memory
<1>11. QED
  BY <1>3, <1>4, <1>7, <1>8, <1>10, WriteKeeps

-----------------------------------------------------------------------------
(* What a tool does, and its refund. *)

LEMMA SucceedKeeps == ASSUME IInv, NEW r \in Slots, Succeed(r) PROVE IInv'
<1> DEFINE call == calls[r]
<1>1. call.sid \in Ids /\ call.tool \in WorkTool
  BY CallFacts DEF Succeed, At, Legal
<1>2. Finish(r) /\ UNCHANGED <<lifecycle, used, winding, memory, crashes>>
  BY DEF Succeed
<1>3. work[call.sid] + CostOf(call.tool) \in Nat
  BY <1>1, CostType, SessionConstants DEF IInv, Types, ColumnsType, Tools
<1>4. work' \in [Ids -> 0..MaxWork]
  BY <1>1, <1>3, CountedType DEF Succeed, IInv, Types, ColumnsType
<1>5. ColumnsType'
  BY <1>2, <1>4 DEF IInv, Types, ColumnsType, lifecycle, memory
<1>6. Columns'
  BY <1>2 DEF IInv, Columns, EndedHasReason, ReserveIsKept, HandoverMeansCompleted,
              Remaining, lifecycle, memory
<1>7. QED
  BY <1>2, <1>5, <1>6, FinishKeeps DEF lifecycle

\* An undone call has an ordinary tool or end_session to refund.
LEMMA UndoKeeps ==
  ASSUME IInv, NEW r \in Slots, At(r, "act"), Undo(r),
         UNCHANGED <<lifecycle, budget, memory, crashes>>
  PROVE  IInv'
<1>1. CASE Finish(r)
  BY <1>1, LeaveKeeps
<1>2. CASE Goto(r, "refund")
  <2>1. Legal([calls[r] EXCEPT !.step = "refund"], winding, reason)
    BY CallFacts DEF At, Legal, Calls
  <2>2. QED
    BY <1>2, <2>1, GotoKeeps DEF Steps
<1>3. QED
  BY <1>1, <1>2 DEF Undo

LEMMA ReadRefundKeeps == ASSUME IInv, NEW r \in Slots, ReadRefund(r) PROVE IInv'
<1> DEFINE s == calls[r].sid
           c == [calls[r] EXCEPT !.step = "restore", !.seen = used[s]]
<1>1. calls[r] \in Calls /\ s \in Ids /\ calls[r].tool \in WorkTool \cup {"end_session"}
  BY CallFacts DEF ReadRefund, At, Legal
<1>2. used[s] \in Nat /\ used[s] <= Limit /\ (~winding[s] => used[s] <= Limit - Reserve)
  BY <1>1, SessionConstants DEF IInv, Types, ColumnsType, Columns, ReserveIsKept, Remaining
<1>3. c \in Calls /\ Legal(c, winding, reason)
  BY <1>1, <1>2 DEF Calls, Steps, Legal
<1>4. QED
  BY <1>3, ReadKeeps DEF ReadRefund

LEMMA WriteRefundKeeps == ASSUME IInv, NEW r \in Slots, WriteRefund(r) PROVE IInv'
<1> DEFINE call == calls[r]
           s == call.sid
           cost == CostOf(call.tool)
           rest == IF call.seen > cost THEN call.seen - cost ELSE 0
<1>1. call \in Calls /\ s \in Ids /\ call.tool \in WorkTool \cup {"end_session"}
  BY CallFacts DEF WriteRefund, At, Legal
<1>2. call.seen <= Limit /\ (~winding[s] => call.seen <= Limit - Reserve)
  BY CallFacts DEF WriteRefund, At, Legal
<1>3. cost \in Nat /\ call.seen \in Nat
  BY <1>1, CostType DEF Tools, Calls
<1> HIDE DEF cost
<1>4. rest \in 0..Limit /\ (~winding[s] => Limit - rest >= Reserve)
  BY <1>2, <1>3, SessionConstants
<1>5. /\ used' = [used EXCEPT ![s] = rest]
      /\ Finish(r)
      /\ UNCHANGED <<lifecycle, winding, work, memory, crashes>>
  BY DEF WriteRefund, cost
<1> HIDE DEF rest
<1>6. used' \in [Ids -> 0..Limit]
  BY <1>4, <1>5 DEF IInv, Types, ColumnsType
<1>7. ColumnsType'
  BY <1>5, <1>6 DEF IInv, Types, ColumnsType, lifecycle, memory
<1>8. \A i \in Ids : used'[i] = IF i = s THEN rest ELSE used[i]
  BY <1>5 DEF IInv, Types, ColumnsType
<1>9. Columns'
  BY <1>4, <1>5, <1>8 DEF IInv, Columns, EndedHasReason, ReserveIsKept,
     HandoverMeansCompleted, Remaining, lifecycle, memory
<1>10. QED
  BY <1>5, <1>7, <1>9, FinishKeeps DEF lifecycle

-----------------------------------------------------------------------------
(* Ending, and being interrupted. *)

LEMMA CheckEndKeeps == ASSUME IInv, NEW r \in Slots, CheckEnd(r) PROVE IInv'
<1>1. CASE Goto(r, "close")
  <2>1. Legal([calls[r] EXCEPT !.step = "close"], winding, reason)
    BY CallFacts DEF CheckEnd, At, Legal, Calls
  <2>2. QED
    BY <1>1, <2>1, GotoKeeps DEF CheckEnd, Steps
<1>2. CASE Undo(r)
  BY <1>2, UndoKeeps DEF CheckEnd
<1>3. QED
  BY <1>1, <1>2 DEF CheckEnd

\* An ending is stamped, so that its session is not open; a reason that was
\* "completed" is not lost as long as an open session has none.
LEMMA EndingKeepsColumns ==
  ASSUME Types, Columns, NEW s \in Ids, NEW why \in {"completed", "interrupted"},
         EndSession(s, why), why = "completed" \/ endedAt[s] = 0,
         UNCHANGED <<count, digested, stale, budget, memory, crashes>>
  PROVE  /\ ColumnsType' /\ Columns'
         /\ \A i \in Ids : reason[i] = "completed" => reason'[i] = "completed"
         /\ reason'[s] = why
         /\ UNCHANGED winding
<1>1. endings \in Nat /\ endings + 1 \in Nat /\ endings + 1 # 0
  BY DEF Types, ColumnsType
<1>2. endings' = endings + 1 /\ endedAt' \in [Ids -> Nat]
  BY <1>1 DEF EndSession, Types, ColumnsType
<1>3. reason' \in [Ids -> {None, "completed", "interrupted"}]
  BY DEF EndSession, Types, ColumnsType
<1>4. \A i \in Ids : /\ endedAt'[i] = IF i = s THEN endings + 1 ELSE endedAt[i]
                     /\ reason'[i] = IF i = s THEN why ELSE reason[i]
  BY DEF EndSession, Types, ColumnsType
<1>5. ColumnsType'
  BY <1>1, <1>2, <1>3 DEF ColumnsType, Types, budget, memory
<1>6. \A i \in Ids : reason[i] = "completed" => reason'[i] = "completed"
  BY <1>4, SessionConstants DEF Columns, EndedHasReason
<1>7. Columns'
  <2>1. EndedHasReason'
    BY <1>1, <1>4 DEF Columns, EndedHasReason
  <2>2. ReserveIsKept'
    BY DEF Columns, ReserveIsKept, Remaining, budget
  <2>3. HandoverMeansCompleted'
    BY <1>6 DEF Columns, HandoverMeansCompleted, memory
  <2>4. QED
    BY <2>1, <2>2, <2>3 DEF Columns
<1>8. QED
  BY <1>4, <1>5, <1>6, <1>7 DEF budget

LEMMA CloseKeeps == ASSUME IInv, NEW r \in Slots, CloseSession(r) PROVE IInv'
<1> DEFINE s == calls[r].sid
           c == [calls[r] EXCEPT !.step = "hand over"]
<1>1. calls[r] \in Calls /\ s \in Ids
  BY CallFacts DEF CloseSession, At, Legal
<1>2. EndSession(s, "completed") /\ Become(r, c)
  BY DEF CloseSession, Goto
<1>3. /\ ColumnsType' /\ Columns'
      /\ \A i \in Ids : reason[i] = "completed" => reason'[i] = "completed"
      /\ reason'[s] = "completed"
      /\ UNCHANGED winding
  BY <1>1, <1>2, EndingKeepsColumns DEF CloseSession, IInv
<1>4. c \in Calls /\ Legal(c, winding', reason')
  BY <1>1, <1>3 DEF Calls, Steps, Legal
<1>5. QED
  BY <1>2, <1>3, <1>4, WriteKeeps

LEMMA HandOverKeeps == ASSUME IInv, NEW r \in Slots, HandOver(r) PROVE IInv'
<1> DEFINE s == calls[r].sid
<1>1. s \in Ids /\ reason[s] = "completed"
  BY CallFacts DEF HandOver, At, Legal
<1>2. /\ handed' = [handed EXCEPT ![s] = TRUE]
      /\ Finish(r)
      /\ UNCHANGED <<lifecycle, budget, told, crashes>>
  BY DEF HandOver
<1>3. ColumnsType'
  BY <1>2 DEF IInv, Types, ColumnsType, lifecycle, budget
<1>4. \A i \in Ids : i # s => handed'[i] = handed[i]
  BY <1>2 DEF IInv, Types, ColumnsType
<1>5. Columns'
  BY <1>1, <1>2, <1>4 DEF IInv, Columns, EndedHasReason, ReserveIsKept,
     HandoverMeansCompleted, Remaining, lifecycle, budget
<1>6. QED
  BY <1>2, <1>3, <1>5, FinishKeeps DEF lifecycle, budget

LEMMA ReadStaleKeeps == ASSUME IInv, ReadStale PROVE IInv'
<1> PICK s \in Open : Become(Loop, [Idle EXCEPT !.step = "interrupt", !.sid = s])
  BY DEF ReadStale
<1> DEFINE c == [Idle EXCEPT !.step = "interrupt", !.sid = s]
<1>1. s \in Ids /\ s \in Nat
  BY OpenIsId DEF IInv, Ids
<1>2. c \in Calls /\ Legal(c, winding, reason)
  BY <1>1 DEF Idle, Calls, Steps, Legal
<1>3. QED
  BY <1>2, ReadKeeps DEF ReadStale, Slots

LEMMA InterruptKeeps == ASSUME IInv, InterruptSession PROVE IInv'
<1> DEFINE s == calls[Loop].sid
<1>1. Loop \in Slots
  BY DEF Slots
<1>2. s \in Ids
  BY <1>1, CallFacts DEF InterruptSession, At, Legal
<1>3. Finish(Loop) /\ UNCHANGED <<count, digested, stale, budget, memory, crashes>>
  BY DEF InterruptSession
<1>4. CASE endedAt[s] = 0
  <2>1. EndSession(s, "interrupted")
    BY <1>4 DEF InterruptSession
  <2>2. /\ ColumnsType' /\ Columns'
        /\ \A i \in Ids : reason[i] = "completed" => reason'[i] = "completed"
        /\ UNCHANGED winding
    BY <1>2, <1>3, <1>4, <2>1, EndingKeepsColumns DEF IInv
  <2>3. QED
    BY <1>1, <1>3, <2>2, FinishKeeps
<1>5. CASE endedAt[s] # 0
  BY <1>1, <1>3, <1>5, LeaveKeeps DEF InterruptSession, lifecycle
<1>6. QED
  BY <1>4, <1>5

-----------------------------------------------------------------------------
(* Time, and crashes. *)

LEMMA FallSilentKeeps == ASSUME IInv, NEW s \in Ids, FallSilent(s) PROVE IInv'
<1>1. UNCHANGED <<count, endedAt, reason, digested, endings, budget, memory, calls, crashes>>
  BY DEF FallSilent
<1>2. Types'
  BY <1>1 DEF FallSilent, IInv, Types, ColumnsType, budget, memory
<1>3. CallsAreLegal' /\ Columns'
  BY <1>1 DEF IInv, CallsAreLegal, Columns, EndedHasReason, ReserveIsKept,
              HandoverMeansCompleted, Remaining, Legal, budget, memory
<1>4. QED
  BY <1>2, <1>3 DEF IInv

LEMMA CrashKeeps == ASSUME IInv, Crash PROVE IInv'
<1>1. UNCHANGED <<lifecycle, budget, memory>>
  BY DEF Crash
<1>2. calls' = [r \in Slots |-> Idle] /\ crashes' \in 0..MaxCrashes
  BY SessionConstants DEF Crash, IInv, Types, ColumnsType
<1>3. Types'
  BY <1>1, <1>2, IdleIsLegal DEF IInv, Types, ColumnsType, lifecycle, budget, memory
<1>4. CallsAreLegal'
  BY <1>2, IdleIsLegal DEF CallsAreLegal
<1>5. Columns'
  BY <1>1 DEF IInv, Columns, EndedHasReason, ReserveIsKept, HandoverMeansCompleted,
              Remaining, lifecycle, budget, memory
<1>6. QED
  BY <1>3, <1>4, <1>5 DEF IInv

-----------------------------------------------------------------------------
(* The theorems. *)

LEMMA InitIInv == Init => IInv
<1> SUFFICES ASSUME Init PROVE IInv
  OBVIOUS
<1>1. Types
  BY IdleIsLegal, SessionConstants DEF Init, Types, ColumnsType
<1>2. CallsAreLegal
  BY IdleIsLegal DEF Init, CallsAreLegal
<1>3. Columns
  BY SessionConstants DEF Init, Columns, EndedHasReason, ReserveIsKept,
     HandoverMeansCompleted, Remaining
<1>4. QED
  BY <1>1, <1>2, <1>3 DEF IInv

LEMMA ServeKeeps == ASSUME IInv, NEW r \in Slots, Serve(r) PROVE IInv'
<1>1. CASE FindSession(r) \/ InsertSession(r) \/ RefindSession(r)
  BY <1>1, FindKeeps, InsertKeeps, RefindKeeps
<1>2. CASE Digest(r) \/ Recall(r)
  BY <1>2, DigestKeeps, RecallKeeps
<1>3. CASE CheckBudget(r) \/ WriteCharge(r)
  BY <1>3, CheckBudgetKeeps, WriteChargeKeeps
<1>4. CASE Succeed(r)
  BY <1>4, SucceedKeeps
<1>5. CASE FailWithDomainError(r)
  BY <1>5, UndoKeeps DEF FailWithDomainError
<1>6. CASE FailUnexpectedly(r)
  BY <1>6, LeaveKeeps DEF FailUnexpectedly
<1>7. CASE ReadRefund(r) \/ WriteRefund(r)
  BY <1>7, ReadRefundKeeps, WriteRefundKeeps
<1>8. CASE CheckEnd(r) \/ CloseSession(r) \/ HandOver(r)
  BY <1>8, CheckEndKeeps, CloseKeeps, HandOverKeeps
<1>9. QED
  BY <1>1, <1>2, <1>3, <1>4, <1>5, <1>6, <1>7, <1>8 DEF Serve

LEMMA StutterKeeps == ASSUME IInv, UNCHANGED vars PROVE IInv'
<1>1. UNCHANGED <<lifecycle, budget, memory, calls, crashes>>
  BY DEF vars
<1>2. Types'
  BY <1>1 DEF IInv, Types, ColumnsType, lifecycle, budget, memory
<1>3. CallsAreLegal' /\ Columns'
  BY <1>1 DEF IInv, CallsAreLegal, Columns, EndedHasReason, ReserveIsKept,
              HandoverMeansCompleted, Remaining, Legal, lifecycle, budget, memory
<1>4. QED
  BY <1>2, <1>3 DEF IInv

LEMMA NextIInv == IInv /\ [Next]_vars => IInv'
<1> SUFFICES ASSUME IInv, [Next]_vars PROVE IInv'
  OBVIOUS
<1>1. CASE Requests
  BY <1>1, RequestsKeep
<1>2. ASSUME NEW r \in Call, Serve(r) PROVE IInv'
  BY <1>2, ServeKeeps DEF Slots
<1>3. CASE ReadStale \/ InterruptSession
  BY <1>3, ReadStaleKeeps, InterruptKeeps
<1>4. ASSUME NEW s \in Ids, FallSilent(s) PROVE IInv'
  BY <1>4, FallSilentKeeps
<1>5. CASE Crash
  BY <1>5, CrashKeeps
<1>6. CASE UNCHANGED vars
  BY <1>6, StutterKeeps
<1>7. QED
  BY <1>1, <1>2, <1>3, <1>4, <1>5, <1>6 DEF Next

\* In every reachable state, however requests overlap and whenever the server
\* dies: the types hold, and every call carries only what its row still allows.
THEOREM SessionInvariant == Spec => []IInv
  BY InitIInv, NextIInv, PTL DEF Spec

\* Until an end_session is charged, the wind-down reserve is untouched, whatever
\* spend, addTokenUsage and refundSpend overwrite of each other (activity.ts).
THEOREM ReserveStands == Spec => []ReserveIsKept
<1>1. IInv => ReserveIsKept
  BY DEF IInv, Columns
<1>2. QED
  BY <1>1, SessionInvariant, PTL

\* A session with a handover is a completed one, for ever: interruptStaleSessions
\* never takes over a session that endSession has closed (sessions.ts).
THEOREM HandoversStand == Spec => []HandoverMeansCompleted
<1>1. IInv => HandoverMeansCompleted
  BY DEF IInv, Columns
<1>2. QED
  BY <1>1, SessionInvariant, PTL

-----------------------------------------------------------------------------
(* The history variables, written by three steps only. *)

HistoryType == miscounted \in [Ids -> BOOLEAN] /\ overrun \in BOOLEAN

LEMMA HistoryStays ==
  ASSUME HistoryType, [Next]_vars
  PROVE  HistoryType'
<1>1. CASE UNCHANGED history
  BY <1>1 DEF HistoryType, history
<1>2. ASSUME NEW r \in Call, WriteCharge(r) PROVE HistoryType'
  <2>1. overrun' = overrun
    BY <1>2 DEF WriteCharge
  <2>2. miscounted' \in [Ids -> BOOLEAN]
    BY <1>2 DEF WriteCharge, HistoryType
  <2>3. QED
    BY <2>1, <2>2 DEF HistoryType
<1>3. ASSUME NEW r \in Call, WriteRefund(r) PROVE HistoryType'
  <2>1. overrun' = overrun
    BY <1>3 DEF WriteRefund
  <2>2. miscounted' \in [Ids -> BOOLEAN]
    BY <1>3 DEF WriteRefund, HistoryType
  <2>3. QED
    BY <2>1, <2>2 DEF HistoryType
<1>4. ASSUME NEW r \in Call, CloseSession(r) PROVE HistoryType'
  <2>1. miscounted' = miscounted
    BY <1>4 DEF CloseSession
  <2>2. overrun' \in BOOLEAN
    BY <1>4 DEF CloseSession, HistoryType
  <2>3. QED
    BY <2>1, <2>2 DEF HistoryType
<1>5. \/ UNCHANGED history
      \/ \E r \in Call : WriteCharge(r) \/ WriteRefund(r) \/ CloseSession(r)
  BY DEF Next, vars, Requests, Request, StartSession, ReportTokens, Serve, FindSession,
     InsertSession, RefindSession, Digest, Recall, CheckBudget, Succeed,
     FailWithDomainError, FailUnexpectedly, ReadRefund, CheckEnd, HandOver,
     ReadStale, InterruptSession, FallSilent, Crash
<1>6. QED
  BY <1>1, <1>2, <1>3, <1>4, <1>5

\* The columns of a session keep their types; the budget used is never negative
\* and never beyond DEFAULT_SESSION_BUDGET (activity.ts).
THEOREM SessionTypes == Spec => []TypeOK
<1>1. Init => HistoryType
  BY DEF Init, HistoryType
<1>2. HistoryType /\ [Next]_vars => HistoryType'
  BY HistoryStays
<1>3. IInv /\ HistoryType => TypeOK
  BY DEF IInv, Types, ColumnsType, HistoryType, TypeOK
<1>4. QED
  BY <1>1, <1>2, <1>3, SessionInvariant, PTL DEF Spec

-----------------------------------------------------------------------------
(***************************************************************************)
(* The day before.  Sessions are opened one after the other: all but the   *)
(* last have ended, and a call never names a later one.  They also end in  *)
(* that order, until one is ended again; and a completed session has its   *)
(* handover, or the call that closed it is about to write it, or a crash   *)
(* took that call.                                                         *)
(***************************************************************************)

\* A call that has found its session.
Working(c) == c.step \notin {"idle", "find", "insert", "refind"}

InTurn ==
  /\ \A s \in Ids : (s < count => endedAt[s] # 0) /\ (s > count => endedAt[s] = 0)
  /\ \A r \in Slots : Working(calls[r]) => calls[r].sid \in 1..count

EndInOrder ==
  /\ \A s \in Ids : endedAt[s] <= endings
  /\ ~overrun => \A i, j \in Ids : i < j /\ endedAt[j] # 0 => endedAt[i] < endedAt[j]

HandedOver ==
  \A s \in Ids : reason[s] = "completed" => handed[s] \/ crashes > 0 \/ HandingOver(s)

Days == InTurn /\ EndInOrder /\ HandedOver

\* What the days are told by.
daybook == <<count, endedAt, reason, endings, handed, crashes, overrun>>

\* Only the last session can be open.
LEMMA OpenIsLast ==
  ASSUME IInv, Days, NEW s \in 1..count, endedAt[s] = 0
  PROVE  s = count /\ s \in Ids
  BY SessionConstants DEF IInv, Types, ColumnsType, Days, InTurn, Ids

\* A step that writes nothing of the days, by a call that does not hand over.
LEMMA DaysStay ==
  ASSUME IInv, Days, NEW r \in Slots, NEW c, Become(r, c), UNCHANGED daybook,
         ~At(r, "hand over"), Working(c) => c.sid \in 1..count
  PROVE  Days'
<1>1. calls'[r] = c /\ \A q \in Slots \ {r} : calls'[q] = calls[q]
  BY DEF IInv, Types, Become
<1>2. InTurn'
  BY <1>1 DEF Days, InTurn, daybook
<1>3. EndInOrder'
  BY DEF Days, EndInOrder, daybook
<1>4. ASSUME NEW s \in Ids, HandingOver(s) PROVE HandingOver(s)'
  BY <1>1, <1>4 DEF HandingOver, At, Slots
<1>5. HandedOver'
  BY <1>4 DEF Days, HandedOver, daybook
<1>6. QED
  BY <1>2, <1>3, <1>5 DEF Days

\* Going on with the same session, or with none.
LEMMA GoOn ==
  ASSUME IInv, Days, NEW r \in Slots, NEW c, Become(r, c), UNCHANGED daybook,
         ~At(r, "hand over"),
         Working(c) => Working(calls[r]) /\ c.sid = calls[r].sid
  PROVE  Days'
<1>1. Working(c) => c.sid \in 1..count
  BY DEF Days, InTurn
<1>2. QED
  BY <1>1, DaysStay

LEMMA RequestsInTurn ==
  ASSUME IInv, Days, Requests
  PROVE  Days'
<1> PICK r \in Call :
      \/ \E tool \in Tools : Request(r, tool)
      \/ StartSession(r)
      \/ \E s \in Ids, n \in Tokens : ReportTokens(r, s, n)
  BY DEF Requests
<1>1. r \in Slots /\ ~At(r, "hand over") /\ UNCHANGED daybook
  BY DEF Slots, At, Request, StartSession, ReportTokens, Free, daybook, lifecycle,
         memory, history
<1>2. ASSUME NEW tool \in Tools, Request(r, tool) PROVE Days'
  <2> DEFINE c == [Idle EXCEPT !.step = "find", !.tool = tool]
  <2>1. ~Working(c) /\ Become(r, c)
    BY <1>2 DEF Request, Working, Idle
  <2>2. QED
    BY <1>1, <2>1, DaysStay
<1>3. CASE StartSession(r)
  <2> DEFINE c == [Idle EXCEPT !.step = "find", !.tool = "session.start", !.again = TRUE]
  <2>1. ~Working(c) /\ Become(r, c)
    BY <1>3 DEF StartSession, Working, Idle
  <2>2. QED
    BY <1>1, <2>1, DaysStay
<1>4. ASSUME NEW s \in Ids, NEW n \in Tokens, ReportTokens(r, s, n) PROVE Days'
  <2> DEFINE c == [Idle EXCEPT !.step = "check", !.tool = "token_usage",
                               !.sid = s, !.tokens = n]
  <2>1. c.sid \in 1..count /\ Become(r, c)
    BY <1>4 DEF ReportTokens, Idle
  <2>2. QED
    BY <1>1, <2>1, DaysStay
<1>5. QED
  BY <1>2, <1>3, <1>4

\* Moving to a step that works on no session.
LEMMA LooksOn ==
  ASSUME NEW r \in Slots, calls[r] \in Calls, NEW step \in {"find", "insert", "refind"}
  PROVE  /\ ~Working([calls[r] EXCEPT !.step = step])
         /\ ~Working([calls[r] EXCEPT !.step = step, !.again = TRUE])
  BY DEF Working, Calls

LEMMA IdleWorksNot == ~Working(Idle)
  BY DEF Working, Idle

\* The session a call goes on with is the one it found.
LEMMA ProceedWith ==
  ASSUME NEW r \in Slots, calls[r] \in Calls, NEW s
  PROVE  Working(Proceed(r, s)) => Proceed(r, s).sid = s
<1>1. \/ Proceed(r, s) = Idle
      \/ Proceed(r, s) = [calls[r] EXCEPT !.step = "find", !.again = TRUE]
      \/ Proceed(r, s) = [calls[r] EXCEPT !.step = "digest", !.sid = s]
      \/ Proceed(r, s) = [calls[r] EXCEPT !.step = "check", !.sid = s]
  BY DEF Proceed
<1>2. CASE Proceed(r, s) = Idle
  BY <1>2, IdleWorksNot
<1>3. CASE Proceed(r, s) = [calls[r] EXCEPT !.step = "find", !.again = TRUE]
  BY <1>3, LooksOn
<1>4. CASE \/ Proceed(r, s) = [calls[r] EXCEPT !.step = "digest", !.sid = s]
           \/ Proceed(r, s) = [calls[r] EXCEPT !.step = "check", !.sid = s]
  BY <1>4 DEF Calls
<1>5. QED
  BY <1>1, <1>2, <1>3, <1>4

LEMMA FindInTurn ==
  ASSUME IInv, Days, NEW r \in Call, FindSession(r) \/ RefindSession(r)
  PROVE  Days'
<1>1. /\ r \in Slots /\ calls[r] \in Calls /\ ~At(r, "hand over")
      /\ UNCHANGED daybook
  BY DEF Slots, IInv, Types, At, FindSession, RefindSession, daybook, lifecycle, memory,
         history
<1>2. \/ Goto(r, "insert")
      \/ Finish(r)
      \/ Become(r, [calls[r] EXCEPT !.step = "find", !.again = TRUE])
      \/ \E s \in Open : Become(r, Proceed(r, s))
  BY DEF FindSession, RefindSession
<1>3. CASE Goto(r, "insert")
  BY <1>1, <1>3, LooksOn, DaysStay DEF Goto
<1>4. CASE Finish(r)
  BY <1>1, <1>4, IdleWorksNot, DaysStay DEF Finish
<1>5. CASE Become(r, [calls[r] EXCEPT !.step = "find", !.again = TRUE])
  BY <1>1, <1>5, LooksOn, DaysStay
<1>6. ASSUME NEW s \in Open, Become(r, Proceed(r, s)) PROVE Days'
  <2>1. s \in 1..count
    BY DEF Open
  <2>2. Working(Proceed(r, s)) => Proceed(r, s).sid \in 1..count
    BY <1>1, <2>1, ProceedWith
  <2>3. QED
    BY <1>1, <1>6, <2>2, DaysStay
<1>7. QED
  BY <1>2, <1>3, <1>4, <1>5, <1>6

\* A session is opened only when all before it have ended.
LEMMA InsertInTurn ==
  ASSUME IInv, Days, NEW r \in Call, InsertSession(r)
  PROVE  Days'
<1>1. r \in Slots /\ calls[r] \in Calls /\ At(r, "insert")
  BY DEF Slots, IInv, Types, InsertSession
<1>2. CASE Open # {}
  <2>1. Goto(r, "refind") /\ UNCHANGED daybook
    BY <1>2 DEF InsertSession, daybook, memory, history
  <2>2. QED
    BY <1>1, <2>1, LooksOn, DaysStay DEF Goto, At
<1>3. CASE Open = {}
  <2>1. /\ count \in Nat /\ count' = count + 1
        /\ Become(r, Proceed(r, count + 1))
        /\ UNCHANGED <<endedAt, reason, endings, handed, crashes, overrun>>
    BY <1>3, SessionConstants DEF InsertSession, memory, history, IInv, Types, ColumnsType
  <2>2. calls'[r] = Proceed(r, count + 1)
        /\ \A q \in Slots \ {r} : calls'[q] = calls[q]
    BY <1>1, <2>1 DEF IInv, Types, Become
  <2>3. \A s \in Ids : s < count' => endedAt'[s] # 0
    BY <1>3, <2>1 DEF Open, Ids
  <2>4. \A s \in Ids : s > count' => endedAt'[s] = 0
    BY <2>1 DEF Days, InTurn, Ids
  <2>5. Working(calls'[r]) => calls'[r].sid \in 1..count'
    <3>1. count + 1 \in 1..count'
      BY <2>1
    <3>2. QED
      BY <1>1, <2>2, <3>1, ProceedWith
  <2>6. \A q \in Slots \ {r} : Working(calls'[q]) => calls'[q].sid \in 1..count'
    <3>1. \A q \in Slots \ {r} : Working(calls[q]) => calls[q].sid \in 1..count
      BY DEF Days, InTurn
    <3>2. 1..count \subseteq 1..count'
      BY <2>1
    <3>3. QED
      BY <2>2, <3>1, <3>2
  <2>7. InTurn'
    BY <2>3, <2>4, <2>5, <2>6 DEF InTurn
  <2>8. EndInOrder'
    BY <2>1 DEF Days, EndInOrder
  <2>9. ASSUME NEW s \in Ids, HandingOver(s) PROVE HandingOver(s)'
    BY <1>1, <2>2, <2>9 DEF HandingOver, At, Slots
  <2>10. HandedOver'
    BY <2>1, <2>9 DEF Days, HandedOver
  <2>11. QED
    BY <2>7, <2>8, <2>10 DEF Days
<1>4. QED
  BY <1>2, <1>3

\* What a paid call carries.
LEMMA PaidWorks ==
  ASSUME NEW c \in Calls, NEW step \in Steps
  PROVE  /\ Working(Paid(c)) => Paid(c).sid = c.sid
         /\ [c EXCEPT !.step = step].sid = c.sid
  BY IdleWorksNot DEF Paid, Calls

LEMMA BriefingInTurn ==
  ASSUME IInv, Days, NEW r \in Call, Digest(r) \/ Recall(r)
  PROVE  Days'
<1>1. /\ r \in Slots /\ calls[r] \in Calls /\ ~At(r, "hand over") /\ Working(calls[r])
      /\ UNCHANGED daybook
  BY DEF Slots, IInv, Types, At, Working, Digest, Recall, daybook, lifecycle, memory, history
<1>2. PICK step \in Steps : Become(r, [calls[r] EXCEPT !.step = step])
  BY DEF Digest, Recall, Goto, Steps
<1>3. QED
  BY <1>1, <1>2, PaidWorks, GoOn

LEMMA BudgetInTurn ==
  ASSUME IInv, Days, NEW r \in Call,
         CheckBudget(r) \/ WriteCharge(r) \/ ReadRefund(r) \/ WriteRefund(r)
  PROVE  Days'
<1>1. /\ r \in Slots /\ calls[r] \in Calls /\ ~At(r, "hand over") /\ Working(calls[r])
      /\ UNCHANGED daybook
  BY DEF Slots, IInv, Types, At, Working, CheckBudget, WriteCharge, ReadRefund, WriteRefund,
         daybook, lifecycle, memory, history
<1>2. PICK c : Become(r, c) /\ (Working(c) => c.sid = calls[r].sid)
  <2>1. CASE Finish(r)
    BY <2>1, IdleWorksNot DEF Finish
  <2>2. CASE Become(r, Paid(calls[r]))
    BY <1>1, <2>2, PaidWorks DEF Steps
  <2>3. ASSUME NEW n, NEW m, Become(r, [calls[r] EXCEPT !.step = "charge", !.seen = n, !.amount = m])
        PROVE  \E c : Become(r, c) /\ (Working(c) => c.sid = calls[r].sid)
    <3>1. [calls[r] EXCEPT !.step = "charge", !.seen = n, !.amount = m].sid = calls[r].sid
      BY <1>1 DEF Calls
    <3>2. QED
      BY <2>3, <3>1
  <2>4. ASSUME NEW n, Become(r, [calls[r] EXCEPT !.step = "restore", !.seen = n])
        PROVE  \E c : Become(r, c) /\ (Working(c) => c.sid = calls[r].sid)
    <3>1. [calls[r] EXCEPT !.step = "restore", !.seen = n].sid = calls[r].sid
      BY <1>1 DEF Calls
    <3>2. QED
      BY <2>4, <3>1
  <2>5. \/ Finish(r)
        \/ Become(r, Paid(calls[r]))
        \/ \E n, m : Become(r, [calls[r] EXCEPT !.step = "charge", !.seen = n, !.amount = m])
        \/ \E n : Become(r, [calls[r] EXCEPT !.step = "restore", !.seen = n])
    BY DEF CheckBudget, WriteCharge, ReadRefund, WriteRefund, Finish
  <2>6. QED
    BY <2>1, <2>2, <2>3, <2>4, <2>5
<1>3. QED
  BY <1>1, <1>2, GoOn

LEMMA ActingInTurn ==
  ASSUME IInv, Days, NEW r \in Call,
         Succeed(r) \/ FailWithDomainError(r) \/ FailUnexpectedly(r) \/ CheckEnd(r)
  PROVE  Days'
<1>1. /\ r \in Slots /\ calls[r] \in Calls /\ ~At(r, "hand over") /\ Working(calls[r])
      /\ UNCHANGED daybook
  BY DEF Slots, IInv, Types, At, Working, Succeed, FailWithDomainError, FailUnexpectedly,
         CheckEnd, daybook, lifecycle, memory, history
<1>2. \/ Finish(r)
      \/ \E step \in Steps : Become(r, [calls[r] EXCEPT !.step = step])
  BY DEF Succeed, FailWithDomainError, FailUnexpectedly, CheckEnd, Undo, Goto, Steps
<1>3. CASE Finish(r)
  BY <1>1, <1>3, IdleWorksNot, GoOn DEF Finish
<1>4. ASSUME NEW step \in Steps, Become(r, [calls[r] EXCEPT !.step = step]) PROVE Days'
  BY <1>1, <1>4, PaidWorks, GoOn
<1>5. QED
  BY <1>2, <1>3, <1>4

\* An ending later than all others, of a session after which none has ended unless
\* that is remembered.
LEMMA EndingInOrder ==
  ASSUME IInv, Days, NEW s \in 1..count, NEW why, EndSession(s, why), count' = count,
         overrun' \in BOOLEAN, overrun \in BOOLEAN,
         ~overrun' => ~overrun /\ \A f \in Ids : f > s => endedAt[f] = 0
  PROVE  /\ EndInOrder'
         /\ \A i \in Ids : (i < count' => endedAt'[i] # 0) /\ (i > count' => endedAt'[i] = 0)
<1>1. /\ endings \in Nat /\ endings' = endings + 1
      /\ count \in Nat /\ s \in Ids /\ endedAt \in [Ids -> Nat]
      /\ count <= MaxSessions /\ Ids \subseteq Nat
  <2>1. /\ endings \in Nat /\ count \in 0..MaxSessions /\ MaxSessions \in Nat
        /\ endedAt \in [Ids -> Nat]
    BY SessionConstants DEF IInv, Types, ColumnsType
  <2>2. endings' = endings + 1
    BY DEF EndSession
  <2>3. QED
    BY <2>1, <2>2 DEF Ids
<1>2. \A i \in Ids : endedAt'[i] = IF i = s THEN endings + 1 ELSE endedAt[i]
  BY <1>1 DEF EndSession
<1>3. \A i \in Ids : endedAt[i] \in Nat /\ endedAt[i] <= endings
  BY <1>1 DEF Days, EndInOrder
<1>4. \A i \in Ids : endedAt'[i] <= endings'
  BY <1>1, <1>2, <1>3
<1>5. ASSUME ~overrun', NEW i \in Ids, NEW j \in Ids, i < j, endedAt'[j] # 0
      PROVE  endedAt'[i] < endedAt'[j]
  <2>1. CASE j = s
    <3>1. i # s /\ endedAt'[j] = endings + 1 /\ endedAt'[i] = endedAt[i]
      BY <1>1, <1>2, <1>5, <2>1
    <3>2. QED
      BY <1>1, <1>3, <3>1
  <2>2. CASE j # s
    <3>1. endedAt[j] # 0
      BY <1>2, <1>5, <2>2
    <3>2. i # s
      BY <1>5, <3>1
    <3>3. endedAt[i] < endedAt[j]
      BY <1>5, <3>1 DEF Days, EndInOrder
    <3>4. QED
      BY <1>2, <2>2, <3>2, <3>3
  <2>3. QED
    BY <2>1, <2>2
<1>6. EndInOrder'
  BY <1>4, <1>5 DEF EndInOrder
<1>7. ASSUME NEW i \in Ids
      PROVE  (i < count' => endedAt'[i] # 0) /\ (i > count' => endedAt'[i] = 0)
  BY <1>1, <1>2 DEF Days, InTurn
<1>8. QED
  BY <1>6, <1>7

\* end_session closes its session, open or not, and is about to hand over.
LEMMA CloseInTurn ==
  ASSUME IInv, HistoryType, Days, NEW r \in Call, CloseSession(r)
  PROVE  Days'
<1> DEFINE s == calls[r].sid
           c == [calls[r] EXCEPT !.step = "hand over"]
<1>1. r \in Slots /\ calls[r] \in Calls /\ At(r, "close")
  BY DEF Slots, IInv, Types, CloseSession
<1>2. s \in 1..count
  BY <1>1 DEF At, Working, Days, InTurn
<1>3. /\ EndSession(s, "completed") /\ Become(r, c)
      /\ overrun' = (overrun \/ \E f \in Ids : f > s /\ endedAt[f] # 0)
      /\ UNCHANGED <<count, handed, crashes>>
  BY DEF CloseSession, Goto, memory
<1>4. overrun' \in BOOLEAN /\ overrun \in BOOLEAN
      /\ (~overrun' => ~overrun /\ \A f \in Ids : f > s => endedAt[f] = 0)
  BY <1>3 DEF HistoryType
<1>5. /\ EndInOrder'
      /\ \A i \in Ids : (i < count' => endedAt'[i] # 0) /\ (i > count' => endedAt'[i] = 0)
  BY <1>2, <1>3, <1>4, EndingInOrder
<1>6. calls'[r] = c /\ \A q \in Slots \ {r} : calls'[q] = calls[q]
  BY <1>1, <1>3 DEF IInv, Types, Become
<1>7. c.sid = s /\ c.step = "hand over"
  BY <1>1 DEF Calls
<1>8. InTurn'
  BY <1>2, <1>3, <1>5, <1>6, <1>7 DEF Days, InTurn
<1>9. ASSUME NEW i \in Ids, reason'[i] = "completed"
      PROVE  handed'[i] \/ crashes' > 0 \/ HandingOver(i)'
  <2>1. CASE i = s
    BY <1>6, <1>7, <2>1 DEF HandingOver, At
  <2>2. CASE i # s
    <3>1. reason[i] = "completed"
      BY <1>3, <1>9, <2>2 DEF EndSession, IInv, Types, ColumnsType
    <3>2. HandingOver(i) => HandingOver(i)'
      BY <1>1, <1>6 DEF HandingOver, At, Slots
    <3>3. QED
      BY <1>3, <3>1, <3>2 DEF Days, HandedOver
  <2>3. QED
    BY <2>1, <2>2
<1>10. QED
  BY <1>5, <1>8, <1>9 DEF Days, HandedOver

LEMMA HandOverInTurn ==
  ASSUME IInv, Days, NEW r \in Call, HandOver(r)
  PROVE  Days'
<1>1. r \in Slots /\ calls[r].sid \in Ids
  BY CallFacts DEF Slots, HandOver, At, Legal
<1>2. /\ handed' = [handed EXCEPT ![calls[r].sid] = TRUE]
      /\ UNCHANGED <<count, endedAt, reason, endings, crashes, overrun>>
  BY DEF HandOver, lifecycle, history
<1>3. calls'[r] = Idle /\ \A q \in Slots \ {r} : calls'[q] = calls[q]
  BY <1>1 DEF HandOver, Finish, Become, IInv, Types
<1>4. InTurn'
  BY <1>2, <1>3, IdleWorksNot DEF Days, InTurn
<1>5. EndInOrder'
  BY <1>2 DEF Days, EndInOrder
<1>6. ASSUME NEW i \in Ids, reason'[i] = "completed"
      PROVE  handed'[i] \/ crashes' > 0 \/ HandingOver(i)'
  <2>1. CASE i = calls[r].sid
    BY <1>1, <1>2, <2>1 DEF IInv, Types, ColumnsType
  <2>2. CASE i # calls[r].sid
    <3>1. handed[i] \/ crashes > 0 \/ HandingOver(i)
      BY <1>2, <1>6 DEF Days, HandedOver
    <3>2. HandingOver(i) => HandingOver(i)'
      BY <1>1, <1>3, <2>2 DEF HandingOver, At, Slots
    <3>3. handed'[i] = handed[i]
      BY <1>1, <1>2, <2>2 DEF IInv, Types, ColumnsType
    <3>4. QED
      BY <1>2, <3>1, <3>2, <3>3
  <2>3. QED
    BY <2>1, <2>2
<1>7. QED
  BY <1>4, <1>5, <1>6 DEF Days, HandedOver

\* The loop reads one session after the other, and interrupts what is open still.
LEMMA LoopInTurn ==
  ASSUME IInv, HistoryType, Days, ReadStale \/ InterruptSession
  PROVE  Days'
<1>1. Loop \in Slots /\ Loop \notin Call /\ ~At(Loop, "hand over")
  BY SessionConstants DEF Slots, ReadStale, InterruptSession, At, Free
<1>2. CASE ReadStale
  <2>1. UNCHANGED daybook
    BY <1>2 DEF ReadStale, daybook, lifecycle, memory, history
  <2>2. PICK s \in Open : Become(Loop, [Idle EXCEPT !.step = "interrupt", !.sid = s])
    BY <1>2 DEF ReadStale
  <2>3. [Idle EXCEPT !.step = "interrupt", !.sid = s].sid \in 1..count
    BY DEF Idle, Open
  <2>4. QED
    BY <1>1, <2>1, <2>2, <2>3, DaysStay
<1>3. CASE InterruptSession /\ endedAt[calls[Loop].sid] # 0
  <2>1. Become(Loop, Idle) /\ UNCHANGED daybook
    BY <1>3 DEF InterruptSession, Finish, daybook, memory, history
  <2>2. QED
    BY <1>1, <2>1, IdleWorksNot, DaysStay
<1>4. CASE InterruptSession /\ endedAt[calls[Loop].sid] = 0
  <2> DEFINE s == calls[Loop].sid
  <2>1. s \in 1..count
    BY <1>1, <1>4 DEF InterruptSession, At, Working, Days, InTurn
  <2>2. /\ EndSession(s, "interrupted") /\ Become(Loop, Idle)
        /\ UNCHANGED <<count, handed, crashes, overrun>>
    BY <1>4 DEF InterruptSession, Finish, memory, history
  <2>3. s = count /\ s \in Ids
    BY <1>4, <2>1, OpenIsLast
  <2>4. \A f \in Ids : f > s => endedAt[f] = 0
    BY <2>3 DEF Days, InTurn
  <2>5. /\ EndInOrder'
        /\ \A i \in Ids : (i < count' => endedAt'[i] # 0) /\ (i > count' => endedAt'[i] = 0)
    BY <2>1, <2>2, <2>4, EndingInOrder DEF HistoryType
  <2>6. calls'[Loop] = Idle /\ \A q \in Slots \ {Loop} : calls'[q] = calls[q]
    BY <1>1, <2>2 DEF IInv, Types, Become
  <2>7. InTurn'
    BY <2>2, <2>5, <2>6, IdleWorksNot DEF Days, InTurn
  <2>8. ASSUME NEW i \in Ids, reason'[i] = "completed"
        PROVE  handed'[i] \/ crashes' > 0 \/ HandingOver(i)'
    <3>1. reason[i] = "completed"
      BY <2>2, <2>3, <2>8 DEF EndSession, IInv, Types, ColumnsType
    <3>2. HandingOver(i) => HandingOver(i)'
      BY <1>1, <2>6 DEF HandingOver, At, Slots
    <3>3. QED
      BY <2>2, <3>1, <3>2 DEF Days, HandedOver
  <2>9. QED
    BY <2>5, <2>7, <2>8 DEF Days, HandedOver
<1>5. QED
  BY <1>2, <1>3, <1>4

\* Silence writes nothing of the days; a crash takes the calls and is counted.
LEMMA TimeInTurn ==
  ASSUME IInv, Days, (\E s \in Ids : FallSilent(s)) \/ UNCHANGED vars
  PROVE  Days'
<1>1. UNCHANGED daybook /\ calls' = calls
  BY DEF FallSilent, vars, lifecycle, memory, history, daybook
<1>2. QED
  BY <1>1 DEF Days, InTurn, EndInOrder, HandedOver, HandingOver, At, daybook

LEMMA CrashInTurn ==
  ASSUME IInv, Days, Crash
  PROVE  Days'
<1>1. /\ UNCHANGED <<count, endedAt, reason, endings, handed, overrun>>
      /\ crashes' = crashes + 1 /\ \A r \in Slots : calls'[r] = Idle
  BY DEF Crash, lifecycle, memory, history
<1>2. InTurn'
  BY <1>1, IdleWorksNot DEF Days, InTurn
<1>3. EndInOrder'
  BY <1>1 DEF Days, EndInOrder
<1>4. crashes' > 0
  BY <1>1, SessionConstants DEF IInv, Types, ColumnsType
<1>5. QED
  BY <1>2, <1>3, <1>4 DEF Days, HandedOver

LEMMA InitDays == Init => Days
<1> SUFFICES ASSUME Init PROVE Days
  OBVIOUS
<1>1. InTurn
  BY IdleWorksNot, SessionConstants DEF Init, InTurn, Ids
<1>2. EndInOrder
  BY DEF Init, EndInOrder
<1>3. HandedOver
  BY SessionConstants DEF Init, HandedOver
<1>4. QED
  BY <1>1, <1>2, <1>3 DEF Days

LEMMA NextDays == IInv /\ HistoryType /\ Days /\ [Next]_vars => Days'
<1> SUFFICES ASSUME IInv, HistoryType, Days, [Next]_vars PROVE Days'
  OBVIOUS
<1>1. CASE Requests
  BY <1>1, RequestsInTurn
<1>2. ASSUME NEW r \in Call, Serve(r) PROVE Days'
  BY <1>2, FindInTurn, InsertInTurn, BriefingInTurn, BudgetInTurn, ActingInTurn,
     CloseInTurn, HandOverInTurn DEF Serve
<1>3. CASE ReadStale \/ InterruptSession
  BY <1>3, LoopInTurn
<1>4. CASE (\E s \in Ids : FallSilent(s)) \/ UNCHANGED vars
  BY <1>4, TimeInTurn
<1>5. CASE Crash
  BY <1>5, CrashInTurn
<1>6. QED
  BY <1>1, <1>2, <1>3, <1>4, <1>5 DEF Next

\* What a briefing of the open session tells, in sessions that ended in order.
LEMMA RecallTellsDayBefore ==
  ASSUME IInv, Days, NEW r \in Call, Recall(r), ~overrun,
         NEW s, s = calls[r].sid, endedAt[s] = 0, s > 1
  PROVE  /\ handed[s - 1] => told'[s] = s - 1
         /\ reason[s - 1] = "interrupted" => told'[s] = 0
         /\ reason[s - 1] = "completed" =>
              told'[s] = s - 1 \/ crashes > 0 \/ HandingOver(s - 1)
<1>1. s \in 1..count
  BY DEF Recall, At, Working, Days, InTurn, Slots
<1>2. s = count /\ s \in Ids
  BY <1>1, OpenIsLast
<1>3. s \in Nat /\ s - 1 \in Ids /\ s - 1 < s /\ Ids \subseteq Nat
  BY <1>2, SessionConstants DEF Ids
<1> DEFINE d == s - 1
           earlier == Ended \ {s}
           left == {e \in earlier : handed[e]}
<1>4. d \in earlier
  BY <1>2, <1>3 DEF Ended, Days, InTurn
<1>5. \A f \in earlier : f \in Ids /\ (f # d => f < d /\ endedAt[f] < endedAt[d])
  <2>1. \A f \in earlier : f \in Ids /\ endedAt[f] # 0 /\ f # s
    BY DEF Ended
  <2>2. endedAt[d] # 0
    BY <1>4 DEF Ended
  <2>3. \A i \in Ids : i > count => endedAt[i] = 0
    BY DEF Days, InTurn
  <2> SUFFICES ASSUME NEW f \in earlier
               PROVE  f \in Ids /\ (f # d => f < d /\ endedAt[f] < endedAt[d])
    OBVIOUS
  <2>4. f \in Nat /\ f \in Ids /\ f # s /\ ~(f > s)
    BY <1>2, <1>3, <2>1, <2>3
  <2>5. f # d => f < d
    BY <1>3, <2>4
  <2>6. QED
    BY <1>3, <2>2, <2>4, <2>5 DEF Days, EndInOrder
<1>6. endedAt \in [Ids -> Nat] /\ \A f \in earlier : endedAt[f] \in Nat
  BY <1>5 DEF IInv, Types, ColumnsType
<1>7. Latest(d, earlier) /\ \A e : Latest(e, earlier) => e = d
  <2>1. \A f \in earlier : endedAt[f] <= endedAt[d]
    BY <1>4, <1>5, <1>6
  <2>2. ASSUME NEW e, Latest(e, earlier) PROVE e = d
    <3>1. e \in earlier /\ endedAt[d] <= endedAt[e]
      BY <1>4, <2>2 DEF Latest
    <3>2. QED
      BY <1>4, <1>5, <1>6, <3>1
  <2>3. QED
    BY <1>4, <2>1, <2>2 DEF Latest
<1>8. PICK n \in 0..MaxSessions : Tells(s, n) /\ told' = [told EXCEPT ![s] = n]
  BY DEF Recall
<1>9. told'[s] = n
  BY <1>2, <1>8 DEF IInv, Types, ColumnsType
<1>10. ASSUME reason[d] = "interrupted" PROVE n = 0
  BY <1>3, <1>7, <1>8, <1>10 DEF Tells
<1>11. ASSUME handed[d] PROVE n = d
  <2>1. reason[d] = "completed"
    BY <1>3, <1>11 DEF IInv, Columns, HandoverMeansCompleted
  <2>2. ~ \E e \in Ids : Latest(e, earlier) /\ reason[e] = "interrupted"
    BY <1>7, <2>1
  <2>3. d \in left
    BY <1>4, <1>11
  <2>4. Latest(n, left)
    BY <1>8, <2>2, <2>3 DEF Tells
  <2>5. n \in left /\ endedAt[d] <= endedAt[n]
    BY <2>3, <2>4 DEF Latest
  <2>6. n \in earlier
    BY <2>5
  <2> HIDE DEF earlier, left, d
  <2>7. QED
    BY <1>4, <1>5, <1>6, <2>5, <2>6
<1>12. reason[d] = "completed" => handed[d] \/ crashes > 0 \/ HandingOver(d)
  BY <1>3 DEF Days, HandedOver
<1>13. QED
  BY <1>9, <1>10, <1>11, <1>12

\* A briefing hands on the day just before, however requests, the loop and crashes
\* interleave: the handover when there is one, nothing after an interruption, and a
\* completed session is passed over only while its handover is still to be written or
\* was lost in a crash; until a session is ended again after a later one
\* (wasLatestPreviousSessionInterrupted and getLatestPreviousHandover, sessions.ts).
THEOREM DaysFollow == Spec => BriefingTellsDayBefore
<1> DEFINE Told == \A r \in Call : LET s == calls[r].sid IN
             Recall(r) /\ endedAt[s] = 0 /\ s > 1 /\ ~overrun =>
               /\ handed[s - 1] => told'[s] = s - 1
               /\ reason[s - 1] = "interrupted" => told'[s] = 0
               /\ reason[s - 1] = "completed" =>
                    told'[s] = s - 1 \/ crashes > 0 \/ HandingOver(s - 1)
<1>1. IInv /\ Days => Told
  BY RecallTellsDayBefore
<1>2. Init => IInv /\ HistoryType /\ Days
  BY InitIInv, InitDays DEF Init, HistoryType
<1>3. IInv /\ HistoryType /\ Days /\ [Next]_vars => (IInv /\ HistoryType /\ Days)'
  BY NextIInv, HistoryStays, NextDays
<1>4. IInv /\ HistoryType /\ Days /\ [Next]_vars => [Told]_vars
  BY <1>1
<1>5. QED
  BY <1>2, <1>3, <1>4, PTL DEF Spec, BriefingTellsDayBefore
=============================================================================
