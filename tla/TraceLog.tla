------------------------------ MODULE TraceLog ------------------------------
(***************************************************************************)
(* The way of a session's trace from the agent to the page of its owner.   *)
(*                                                                         *)
(* The adapter emits events, gathers them into batches and uploads these   *)
(* one after the other, each with a few attempts (packages/agent/src:      *)
(* trace-format.ts, trace-coalesce.ts, board-upload.ts).  The board        *)
(* numbers what it stores, among it the records of its own tool calls and  *)
(* of the interruption (packages/board/src/domain: trace.ts, sessions.ts). *)
(* The page loads the trace page by page and then polls for what is new    *)
(* (packages/web/src/pages/SessionLogPage.tsx).                            *)
(*                                                                         *)
(* An event is its number in the order of emission.  The chat log takes    *)
(* the same events along a second chain of the same kind, left out here.   *)
(***************************************************************************)
EXTENDS Integers, Sequences, FiniteSets

CONSTANTS
  Writer,       \* transactions on the session's trace that can be under way
  Fetch,        \* requests of the page that can be under way
  None,         \* null
  Attempts,     \* UPLOAD_RETRY_ATTEMPTS
  MaxEvents,    \* TRACE_COALESCE_DEFAULTS.maxEvents
  LoadPage,     \* rows in a page while the page loads
  PollPage,     \* rows in the answer to a poll
  Bounds        \* bounds: choices of how often each of Counted happens at most

\* What is bounded: events the adapter emits, tool calls the board records, uploads
\* that fail and answers to them that are lost, crashes of the adapter and resets of
\* the page, and loads and polls the page begins.
Counted == {"emissions", "calls", "faults", "restarts", "requests"}

ASSUME ConstantsOK ==
  /\ None \notin Writer /\ None \notin Seq(Nat)
  /\ {Attempts, MaxEvents, LoadPage, PollPage} \subseteq Nat \ {0}
  /\ Bounds \subseteq [Counted -> Nat]

VARIABLES
  emitted,    \* the events emitted so far are 1 .. emitted
  pending,    \* events that wait for their batch
  chain,      \* batches in the order of upload; the first is being uploaded
  tries,      \* attempts made for the first batch
  waiting,    \* the writer whose answer the uploader awaits, or None
  dropped,    \* events given up, or lost with the adapter
  writer,     \* the transactions
  lock,       \* the writer that holds the lock of the session's row, or None
  rows,       \* session_trace_entries of the session, by seq
  refused,    \* an insert has met a seq that was taken
  ended,      \* sessions.ended_at is set, by the interruption
  view,       \* the seqs the page shows in their order; None before the first
  mark,       \* lastTraceSeqRef
  fetch,      \* the page's requests
  left,       \* how often each of Counted may happen still
  overtaken   \* history: what is shown was replaced while a poll was under way

adapter == <<emitted, pending, chain, tries, waiting, dropped>>
board == <<writer, lock, rows, refused, ended>>
page == <<view, mark, fetch>>
vars == <<adapter, board, page, left, overtaken>>

-----------------------------------------------------------------------------
\* kind: of the tool_call and tool_result rows the page prefers those of the adapter.
Row == [source : {"adapter"}, event : Nat, kind : {"tool", "text"}]
       \cup [source : {"mcp", "interruption"}, event : {0}, kind : {"tool", "text"}]
Steps == {"idle", "sent", "locked", "counted", "done"}
WriterRecord == [step : Steps, entries : Seq(Row), base : Nat]
IdleWriter == [step |-> "idle", entries |-> <<>>, base |-> 0]

FetchRecord == [step : {"idle", "asked", "answered"}, kind : {"load", "poll"},
                after : Nat, got : Seq(Nat), answer : Seq(Nat), more : BOOLEAN]
IdleFetch == [step |-> "idle", kind |-> "load", after |-> 0,
              got |-> <<>>, answer |-> <<>>, more |-> FALSE]

Use(what) == left[what] > 0 /\ left' = [left EXCEPT ![what] = @ - 1]

Init ==
  /\ emitted = 0 /\ pending = <<>> /\ chain = <<>>
  /\ tries = 0 /\ waiting = None /\ dropped = {}
  /\ writer = [w \in Writer |-> IdleWriter]
  /\ lock = None
  /\ rows = <<>> /\ refused = FALSE /\ ended = FALSE
  /\ view = None /\ mark = 0
  /\ fetch = [f \in Fetch |-> IdleFetch]
  /\ left \in Bounds
  /\ overtaken = FALSE

-----------------------------------------------------------------------------
(* The adapter: emit, flushPending, postAuthorizedWithRetry. *)

MarkOf(kind, n) == [source |-> "adapter", event |-> n, kind |-> kind]

\* Events of a tool go at once, others when there are enough or time is up.
Emit(kind) ==
  /\ Use("emissions")
  /\ emitted' = emitted + 1
  /\ LET batch == Append(pending, MarkOf(kind, emitted + 1))
     IN  IF kind = "tool" \/ Len(batch) >= MaxEvents
         THEN pending' = <<>> /\ chain' = Append(chain, batch)
         ELSE pending' = batch /\ chain' = chain
  /\ UNCHANGED <<tries, waiting, dropped, board, page>>

FlushPending ==
  /\ pending # <<>>
  /\ pending' = <<>> /\ chain' = Append(chain, pending)
  /\ UNCHANGED <<emitted, tries, waiting, dropped, board, page, left>>

\* A request gets a transaction of its own.
Request(w, entries) ==
  /\ writer[w].step = "idle"
  /\ writer' = [writer EXCEPT ![w] = [IdleWriter EXCEPT !.step = "sent", !.entries = entries]]

\* Mutated form: the next batch is sent without the answer to the one before.
PostAhead(w) ==
  /\ chain # <<>>
  /\ Request(w, Head(chain))
  /\ chain' = Tail(chain)
  /\ UNCHANGED <<emitted, pending, tries, waiting, dropped, lock, rows, refused, ended, page, left>>

Post(w) ==
  /\ chain # <<>> /\ waiting = None
  /\ Request(w, Head(chain))
  /\ waiting' = w /\ tries' = tries + 1
  /\ UNCHANGED <<emitted, pending, chain, dropped, lock, rows, refused, ended, page, left>>

Receive(w) ==
  /\ waiting = w /\ writer[w].step = "done"
  /\ writer' = [writer EXCEPT ![w] = IdleWriter]
  /\ waiting' = None /\ tries' = 0
  /\ chain' = Tail(chain)
  /\ UNCHANGED <<emitted, pending, dropped, lock, rows, refused, ended, page, left>>

EventsOf(batch) == {batch[i].event : i \in DOMAIN batch}

\* After the last attempt, or an answer that no attempt would change, the batch is
\* logged and left out, and the chain goes on.
AfterFailure(final) ==
  /\ waiting' = None
  /\ IF tries < Attempts /\ ~final
     THEN UNCHANGED <<tries, chain, dropped>>
     ELSE /\ tries' = 0 /\ chain' = Tail(chain)
          /\ dropped' = dropped \cup EventsOf(Head(chain))

\* The request is answered with an error (4xx other than 429 is final), or never
\* arrives.
FailUpload(w, final) ==
  /\ waiting = w /\ writer[w].step = "sent"
  /\ Use("faults")
  /\ writer' = [writer EXCEPT ![w] = IdleWriter]
  /\ AfterFailure(final)
  /\ UNCHANGED <<emitted, pending, lock, rows, refused, ended, page>>

\* The connection breaks while the board is at work on the request.
LoseAnswer(w) ==
  /\ waiting = w
  /\ Use("faults")
  /\ writer' = [writer EXCEPT ![w] = IF @.step = "done" THEN IdleWriter ELSE @]
  /\ AfterFailure(FALSE)
  /\ UNCHANGED <<emitted, pending, lock, rows, refused, ended, page>>

\* The process ends: what it has not uploaded is gone.
Crash ==
  /\ Use("restarts")
  /\ dropped' = dropped \cup EventsOf(pending) \cup UNION {EventsOf(chain[i]) : i \in DOMAIN chain}
  /\ pending' = <<>> /\ chain' = <<>> /\ tries' = 0 /\ waiting' = None
  /\ writer' = [w \in Writer |-> IF w = waiting /\ writer[w].step = "done"
                                 THEN IdleWriter ELSE writer[w]]
  /\ UNCHANGED <<emitted, lock, rows, refused, ended, page>>

-----------------------------------------------------------------------------
(* The board: appendSessionTraceEntries, and the two writers it has itself.  *)

\* recordMcpToolTrace, at the end of a tool call.
RecordCall(w) ==
  /\ Use("calls")
  /\ Request(w, <<[source |-> "mcp", event |-> 0, kind |-> "tool"]>>)
  /\ UNCHANGED <<adapter, lock, rows, refused, ended, page>>

\* interruptStaleSessions: its update takes the lock of the row.
Interrupt(w) ==
  /\ ~ended /\ lock = None
  /\ writer[w].step = "idle"
  /\ ended' = TRUE /\ lock' = w
  /\ writer' = [writer EXCEPT ![w] = [IdleWriter EXCEPT !.step = "locked",
                  !.entries = <<[source |-> "interruption", event |-> 0, kind |-> "text"]>>]]
  /\ UNCHANGED <<adapter, rows, refused, page, left>>

\* Mutated form: the maximum is read without the lock.
ForUpdateNot(w) ==
  /\ writer[w].step = "sent"
  /\ writer' = [writer EXCEPT ![w].step = "locked"]
  /\ UNCHANGED <<adapter, lock, rows, refused, ended, page, left>>

ForUpdate(w) ==
  /\ writer[w].step = "sent" /\ lock = None
  /\ lock' = w
  /\ writer' = [writer EXCEPT ![w].step = "locked"]
  /\ UNCHANGED <<adapter, rows, refused, ended, page, left>>

ReadMaxSeq(w) ==
  /\ writer[w].step = "locked"
  /\ writer' = [writer EXCEPT ![w].step = "counted", ![w].base = Len(rows)]
  /\ UNCHANGED <<adapter, lock, rows, refused, ended, page, left>>

\* The insert and the commit; the unique index refuses a seq that is taken.
InsertEntries(w) ==
  /\ writer[w].step = "counted"
  /\ IF writer[w].base = Len(rows)
     THEN rows' = rows \o writer[w].entries /\ UNCHANGED refused
     ELSE refused' = TRUE /\ UNCHANGED rows
  /\ lock' = IF lock = w THEN None ELSE lock
  /\ writer' = [writer EXCEPT ![w] = IF waiting = w THEN [@ EXCEPT !.step = "done"]
                                     ELSE IdleWriter]
  /\ UNCHANGED <<adapter, ended, page, left>>

-----------------------------------------------------------------------------
(* getOwnerSessionTrace: the rows of the board's own tool calls are left out *)
(* as soon as the adapter has told of one.                                   *)

shouldOmitMcpToolDuplicates ==
  \E s \in DOMAIN rows : rows[s].source = "adapter" /\ rows[s].kind = "tool"

Visible == {s \in DOMAIN rows : rows[s].source = "mcp" => ~shouldOmitMcpToolDuplicates}

\* The first n of a set of seqs.
FirstOf(S, n) == {s \in S : Cardinality({t \in S : t < s}) < n}

\* A set of seqs in the order of the query: there is one such sequence.
Ascending(S) ==
  {q \in [1 .. Cardinality(S) -> S] :
     /\ \A s \in S : \E i \in DOMAIN q : q[i] = s
     /\ \A i, j \in DOMAIN q : i < j => q[i] < q[j]}

ServeFetch(f) ==
  /\ fetch[f].step = "asked"
  /\ LET newer == {s \in Visible : s > fetch[f].after}
         limit == IF fetch[f].kind = "load" THEN LoadPage ELSE PollPage
     IN  \E answer \in Ascending(FirstOf(newer, limit)) :
           fetch' = [fetch EXCEPT ![f].step = "answered", ![f].answer = answer,
                                  ![f].more = Cardinality(newer) > limit]
  /\ UNCHANGED <<adapter, board, view, mark, left>>

-----------------------------------------------------------------------------
(* The page. *)

Ask(f, kind, after, got) ==
  fetch' = [fetch EXCEPT ![f] = [IdleFetch EXCEPT !.step = "asked", !.kind = kind,
                                   !.after = after, !.got = got]]

\* load: when the page opens, by the timer while there is no trace to show, and
\* by the timer once the session is known to have ended.
Load(f) ==
  /\ fetch[f].step = "idle"
  /\ view = None \/ ended
  /\ Use("requests")
  /\ Ask(f, "load", 0, <<>>)
  /\ UNCHANGED <<adapter, board, view, mark>>

\* pollTrace, by the timer; the page may not know yet that the session has ended.
Poll(f) ==
  /\ fetch[f].step = "idle"
  /\ view # None
  /\ Use("requests")
  /\ Ask(f, "poll", mark, <<>>)
  /\ UNCHANGED <<adapter, board, view, mark>>

\* Another view of the log is chosen: reset, and load.
Reset(f) ==
  /\ fetch[f].step = "idle"
  /\ Use("restarts")
  /\ view' = None /\ mark' = 0
  /\ Ask(f, "load", 0, <<>>)
  /\ UNCHANGED <<adapter, board>>

LastOf(got) == got[Len(got)]
Done(f) == fetch' = [fetch EXCEPT ![f] = IdleFetch]

\* A page of the load replaces what is shown by all that was loaded so far.
ApplyLoad(f) ==
  /\ fetch[f].step = "answered" /\ fetch[f].kind = "load"
  /\ LET got == fetch[f].got \o fetch[f].answer
     IN  IF fetch[f].answer = <<>>
         THEN /\ view' = IF got = <<>> THEN None ELSE view
              /\ mark' = mark
              /\ Done(f)
         ELSE /\ view' = got /\ mark' = LastOf(got)
              /\ IF fetch[f].more THEN Ask(f, "load", LastOf(got), got) ELSE Done(f)
  /\ UNCHANGED <<adapter, board, left>>

\* Mutated form: the page counts on from the end of the table.
ApplyPollToEnd(f) ==
  /\ fetch[f].step = "answered" /\ fetch[f].kind = "poll"
  /\ fetch[f].answer # <<>>
  /\ view' = (IF view = None THEN <<>> ELSE view) \o fetch[f].answer
  /\ mark' = Len(rows)
  /\ Done(f)
  /\ UNCHANGED <<adapter, board, left>>

\* The answer to a poll is put behind what is shown.
ApplyPoll(f) ==
  /\ fetch[f].step = "answered" /\ fetch[f].kind = "poll"
  /\ IF fetch[f].answer = <<>>
     THEN UNCHANGED <<view, mark>>
     ELSE /\ view' = (IF view = None THEN <<>> ELSE view) \o fetch[f].answer
          /\ mark' = LastOf(fetch[f].answer)
  /\ Done(f)
  /\ UNCHANGED <<adapter, board, left>>

FailFetch(f) ==
  /\ fetch[f].step = "asked"
  /\ Done(f)
  /\ UNCHANGED <<adapter, board, view, mark, left>>

Step ==
  \/ \E kind \in {"tool", "text"} : Emit(kind)
  \/ FlushPending \/ Crash
  \/ \E w \in Writer :
       \/ Post(w) \/ Receive(w) \/ LoseAnswer(w)
       \/ \E final \in BOOLEAN : FailUpload(w, final)
       \/ RecordCall(w) \/ Interrupt(w)
       \/ ForUpdate(w) \/ ReadMaxSeq(w) \/ InsertEntries(w)
  \/ \E f \in Fetch :
       \/ Load(f) \/ Poll(f) \/ Reset(f) \/ FailFetch(f)
       \/ ServeFetch(f) \/ ApplyLoad(f) \/ ApplyPoll(f)

-----------------------------------------------------------------------------
(* History, read by the properties alone. *)

PollUnderWay == \E f \in Fetch : fetch[f].step # "idle" /\ fetch[f].kind = "poll"

\* What was shown makes place for something else; an answer to a poll adds to it.
Replaced == view' # view /\ \E f \in Fetch : Reset(f) \/ ApplyLoad(f)

Remember == overtaken' = IF Replaced THEN PollUnderWay ELSE overtaken

Next == Step /\ Remember

Spec == Init /\ [][Next]_vars

-----------------------------------------------------------------------------
(* Properties *)

\* Types: the records have their fields, the lock is held by one who works.
TypeOK ==
  /\ emitted \in Nat
  /\ pending \in Seq(Row) /\ chain \in Seq(Seq(Row))
  /\ tries \in 0 .. Attempts /\ waiting \in Writer \cup {None}
  /\ dropped \subseteq 1 .. emitted
  /\ writer \in [Writer -> WriterRecord] /\ lock \in Writer \cup {None}
  /\ rows \in Seq(Row) /\ refused \in BOOLEAN /\ ended \in BOOLEAN
  /\ view = None \/ view \in Seq(Nat)
  /\ mark \in Nat
  /\ fetch \in [Fetch -> FetchRecord]
  /\ left \in [Counted -> Nat]
  /\ overtaken \in BOOLEAN

\* No record is lost to a number that another transaction took first: uploads,
\* their late repetitions, the board's own records and the interruption all
\* number their rows under the lock of the session
\* (appendSessionTraceEntries, interruptStaleSessions).
NothingRefused == ~refused

Stored(n) == {s \in DOMAIN rows : rows[s].source = "adapter" /\ rows[s].event = n}

\* The trace has no silent hole and no disorder: when an event is on the board,
\* each earlier one was stored before it or was given up by the adapter, however
\* many attempts were repeated (TraceEntriesCoalescingUploader).
StoredInOrder ==
  \A n \in 1 .. emitted : \A m \in 1 .. n - 1 :
    m \notin dropped => \A s \in Stored(n) : \E r \in Stored(m) : r < s

\* What the page was to show, it shows.
UpToMark ==
  view # None => \A s \in Visible : s <= mark => \E k \in DOMAIN view : view[k] = s

\* Whatever polls and loads of the page are under way together, fail or overtake each
\* other, and whatever is stored, hidden or repeated meanwhile, the page has skipped
\* no row up to its mark, as long as a load or a reset did not replace what is shown
\* while a poll was under way (SessionLogPage, load and pollTrace).
NothingSkipped == overtaken \/ UpToMark

\* The page shows each row once (refuted, as UpToMark is: see README.md).
ShownOnce ==
  view # None => \A i, j \in DOMAIN view : view[i] = view[j] => i = j
=============================================================================
