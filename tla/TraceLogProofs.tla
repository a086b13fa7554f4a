----------------------------- MODULE TraceLogProofs -----------------------------
(***************************************************************************)
(* What is proved about TraceLog for any number of transactions, events,   *)
(* attempts and faults: the lock of the session keeps the numbers of its   *)
(* trace apart, so that no insert is refused; what is stored is in the     *)
(* order of emission, with no hole that the adapter did not make; and the  *)
(* page, whose polls and loads may overlap, skips nothing up to its mark,  *)
(* unless it replaced what it showed while a poll was under way.           *)
(***************************************************************************)
EXTENDS TraceLog, SequenceTheorems, FiniteSetTheorems, TLAPS

-----------------------------------------------------------------------------
(* The inductive invariant.                                                 *)

\* What the adapter has: an upload under way is of the first batch.
Batches ==
  /\ emitted \in Nat
  /\ pending \in Seq(Row) /\ chain \in Seq(Seq(Row))
  /\ waiting # None => chain # <<>>

\* The types of what a number depends on: batches, transactions and rows.
Types ==
  /\ Batches
  /\ writer \in [Writer -> WriterRecord] /\ lock \in Writer \cup {None}
  /\ rows \in Seq(Row) /\ refused \in BOOLEAN

\* Between its reading of the maximum and its insert a transaction has the lock
\* of the session, which makes what it has read remain true.
Numbered(w) ==
  /\ writer[w].step \in {"locked", "counted"} => lock = w
  /\ writer[w].step = "counted" => writer[w].base = Len(rows)

Locked == \A w \in Writer : Numbered(w)

IInv == Types /\ Locked /\ NothingRefused

-----------------------------------------------------------------------------
(* Lemmas.                                                                  *)

\* A transaction that has not begun.
LEMMA IdleWriterType == IdleWriter \in WriterRecord /\ IdleWriter.step = "idle"
<1>1. <<>> \in Seq(Row)
  OBVIOUS
<1>2. QED
  BY <1>1 DEF IdleWriter, WriterRecord, Steps

\* The rows that the adapter and the board write are rows.
LEMMA RowTypes ==
  /\ \A kind \in {"tool", "text"}, n \in Nat : MarkOf(kind, n) \in Row
  /\ [source |-> "mcp", event |-> 0, kind |-> "tool"] \in Row
  /\ [source |-> "interruption", event |-> 0, kind |-> "text"] \in Row
  BY DEF MarkOf, Row

\* Every way in which one transaction changes and the others do not: it has
\* neither taken nor left the lock, nor come to hold a number.
LEMMA KeepsNumbers ==
  ASSUME IInv, NEW w \in Writer, NEW tx \in WriterRecord,
         writer' = [writer EXCEPT ![w] = tx],
         tx.step \in {"idle", "sent", "done"},
         UNCHANGED <<lock, rows, refused>>
  PROVE  /\ writer' \in [Writer -> WriterRecord] /\ lock' \in Writer \cup {None}
         /\ rows' \in Seq(Row) /\ refused' \in BOOLEAN
         /\ Locked' /\ NothingRefused'
<1>1. writer' \in [Writer -> WriterRecord] /\ writer'[w] = tx
  BY DEF IInv, Types
<1>2. \A u \in Writer \ {w} : writer'[u] = writer[u]
  BY DEF IInv, Types
<1>3. \A u \in Writer : Numbered(u)'
  BY <1>1, <1>2 DEF IInv, Locked, Numbered
<1>4. QED
  BY <1>1, <1>3 DEF IInv, Types, Locked, NothingRefused

\* A request that begins, and one that is over for its sender.
LEMMA RequestKeeps ==
  ASSUME IInv, NEW w \in Writer, NEW entries \in Seq(Row), Request(w, entries),
         UNCHANGED <<lock, rows, refused>>,
         Batches'
  PROVE  IInv'
<1> DEFINE tx == [IdleWriter EXCEPT !.step = "sent", !.entries = entries]
<1>1. tx \in WriterRecord /\ tx.step = "sent"
  BY DEF IdleWriter, WriterRecord, Steps
<1>2. writer' = [writer EXCEPT ![w] = tx]
  BY DEF Request
<1> HIDE DEF tx
<1>3. QED
  BY <1>1, <1>2, KeepsNumbers DEF IInv, Types

\* A transaction that is over.
LEMMA ForgetKeeps ==
  ASSUME IInv, NEW w \in Writer, writer' = [writer EXCEPT ![w] = IdleWriter],
         UNCHANGED <<lock, rows, refused>>,
         Batches'
  PROVE  IInv'
<1>1. QED
  BY IdleWriterType, KeepsNumbers DEF IInv, Types

\* Whatever the adapter does to its batches alone.
LEMMA AdapterKeeps ==
  ASSUME IInv, UNCHANGED <<writer, lock, rows, refused>>,
         Batches'
  PROVE  IInv'
  BY DEF IInv, Types, Locked, Numbered, NothingRefused

\* Taking the first batch off the chain.
LEMMA TailType ==
  ASSUME NEW s \in Seq(Seq(Row)), s # <<>>
  PROVE  Tail(s) \in Seq(Seq(Row)) /\ Head(s) \in Seq(Row)
  OBVIOUS

-----------------------------------------------------------------------------
(* The steps.                                                               *)

\* At first nothing is stored, sent or locked.
LEMMA InitLocked == Init => IInv
<1> SUFFICES ASSUME Init PROVE IInv
  OBVIOUS
<1>1. Batches
  BY DEF Init, Batches
<1>2. writer \in [Writer -> WriterRecord] /\ \A w \in Writer : writer[w].step = "idle"
  BY IdleWriterType DEF Init
<1>3. rows \in Seq(Row)
  BY DEF Init
<1>4. QED
  BY <1>1, <1>2, <1>3 DEF Init, IInv, Types, Locked, Numbered, NothingRefused

\* What is left of the batches when an attempt has failed.
LEMMA AfterFailureBatches ==
  ASSUME Batches, waiting # None, NEW final \in BOOLEAN, AfterFailure(final),
         UNCHANGED <<emitted, pending>>
  PROVE  Batches'
<1>1. Tail(chain) \in Seq(Seq(Row))
  BY TailType DEF Batches
<1>2. QED
  BY <1>1 DEF Batches, AfterFailure

\* An event that is emitted joins the batch being filled, or a full batch joins the
\* chain.
LEMMA EmitBatches ==
  ASSUME Batches, NEW kind \in {"tool", "text"}, Emit(kind)
  PROVE  Batches'
<1> DEFINE batch == Append(pending, MarkOf(kind, emitted + 1))
<1>1. emitted' = emitted + 1 /\ emitted' \in Nat
  BY DEF Emit, Batches
<1>2. batch \in Seq(Row)
  BY <1>1, RowTypes DEF Batches
<1>3. \/ pending' = <<>> /\ chain' = Append(chain, batch)
      \/ pending' = batch /\ chain' = chain
  BY DEF Emit
<1> HIDE DEF batch
<1>4. Append(chain, batch) \in Seq(Seq(Row)) /\ Append(chain, batch) # <<>>
  BY <1>2 DEF Batches
<1>5. <<>> \in Seq(Row)
  OBVIOUS
<1>6. waiting' = waiting
  BY DEF Emit
<1>7. QED
  BY <1>1, <1>2, <1>3, <1>4, <1>5, <1>6 DEF Batches

\* The insert: no other transaction has read a maximum, so the rows may grow.
LEMMA InsertKeeps ==
  ASSUME IInv, NEW w \in Writer, InsertEntries(w)
  PROVE  IInv'
<1>1. lock = w /\ writer[w].base = Len(rows)
  BY DEF InsertEntries, IInv, Locked, Numbered
<1>2. rows' = rows \o writer[w].entries /\ refused' = refused
  BY <1>1 DEF InsertEntries
<1>3. writer[w].entries \in Seq(Row)
  BY DEF IInv, Types, WriterRecord
<1>4. rows' \in Seq(Row)
  BY <1>2, <1>3 DEF IInv, Types
<1>5. lock' = None
  BY <1>1 DEF InsertEntries
<1>6. PICK tx \in WriterRecord : tx.step \in {"idle", "done"}
                                 /\ writer' = [writer EXCEPT ![w] = tx]
  <2>1. [writer[w] EXCEPT !.step = "done"] \in WriterRecord
        /\ [writer[w] EXCEPT !.step = "done"].step = "done"
    BY DEF IInv, Types, WriterRecord, Steps
  <2>2. QED
    BY <2>1, IdleWriterType DEF InsertEntries, IInv, Types
<1>7. writer' \in [Writer -> WriterRecord] /\ writer'[w] = tx
      /\ \A u \in Writer \ {w} : writer'[u] = writer[u]
  BY <1>6 DEF IInv, Types
<1>8. \A u \in Writer : writer'[u].step \notin {"locked", "counted"}
  BY <1>1, <1>6, <1>7 DEF IInv, Locked, Numbered
<1>9. Batches'
  BY DEF InsertEntries, adapter, IInv, Types, Batches
<1>10. QED
  BY <1>2, <1>4, <1>5, <1>7, <1>8, <1>9
     DEF IInv, Types, Locked, Numbered, NothingRefused

\* The reading of the maximum, and the taking of a lock that is free.
LEMMA ReadMaxKeeps ==
  ASSUME IInv, NEW w \in Writer, ReadMaxSeq(w)
  PROVE  IInv'
<1>1. Len(rows) \in Nat
  BY DEF IInv, Types
<1>2. writer' \in [Writer -> WriterRecord]
      /\ writer'[w].step = "counted" /\ writer'[w].base = Len(rows)
      /\ \A u \in Writer \ {w} : writer'[u] = writer[u]
  BY <1>1 DEF ReadMaxSeq, IInv, Types, WriterRecord, Steps
<1>3. lock = w
  BY DEF ReadMaxSeq, IInv, Locked, Numbered
<1>4. UNCHANGED <<lock, rows, refused>> /\ Batches'
  BY DEF ReadMaxSeq, adapter, IInv, Types, Batches
<1>5. QED
  BY <1>2, <1>3, <1>4 DEF IInv, Types, Locked, Numbered, NothingRefused

\* Who takes the lock holds it alone, and has not counted yet.
LEMMA LockKeeps ==
  ASSUME IInv, NEW w \in Writer, lock = None, lock' = w,
         NEW tx \in WriterRecord, tx.step = "locked",
         writer' = [writer EXCEPT ![w] = tx], UNCHANGED <<rows, refused>>, Batches'
  PROVE  IInv'
<1>1. writer' \in [Writer -> WriterRecord] /\ writer'[w] = tx
      /\ \A u \in Writer \ {w} : writer'[u] = writer[u]
  BY DEF IInv, Types
<1>2. \A u \in Writer : writer[u].step \notin {"locked", "counted"}
  BY ConstantsOK DEF IInv, Locked, Numbered
<1>3. QED
  BY <1>1, <1>2 DEF IInv, Types, Locked, Numbered, NothingRefused

\* Every step keeps numbers apart, one case per action.
LEMMA NextLocked == IInv /\ [Next]_vars => IInv'
<1> SUFFICES ASSUME IInv, [Next]_vars PROVE IInv'
  OBVIOUS
<1> USE DEF adapter, board, page
<1>0. Batches
  BY DEF IInv, Types
<1>1. ASSUME NEW kind \in {"tool", "text"}, Emit(kind) PROVE IInv'
  BY <1>0, <1>1, EmitBatches, AdapterKeeps DEF Emit
<1>2. CASE FlushPending
  <2>1. Batches'
    BY <1>0, <1>2 DEF FlushPending, Batches
  <2>2. QED
    BY <1>2, <2>1, AdapterKeeps DEF FlushPending
<1>3. CASE Crash
  <2>1. Batches'
    BY <1>3, <1>0 DEF Crash, Batches
  <2>2. writer' \in [Writer -> WriterRecord]
        /\ \A w \in Writer : writer'[w] = writer[w] \/ writer'[w].step = "idle"
    BY <1>3, IdleWriterType DEF Crash, IInv, Types
  <2>3. UNCHANGED <<lock, rows, refused>>
    BY <1>3 DEF Crash
  <2>4. QED
    BY <2>1, <2>2, <2>3 DEF IInv, Types, Locked, Numbered, NothingRefused
<1>4. ASSUME NEW w \in Writer, Post(w) PROVE IInv'
  <2>1. Head(chain) \in Seq(Row)
    BY <1>0, <1>4, TailType DEF Post, Batches
  <2>2. Batches'
    BY <1>0, <1>4 DEF Post, Batches
  <2>3. QED
    BY <1>4, <2>1, <2>2, RequestKeeps DEF Post
<1>5. ASSUME NEW w \in Writer, Receive(w) PROVE IInv'
  <2>1. Tail(chain) \in Seq(Seq(Row))
    BY <1>0, <1>5, ConstantsOK, TailType DEF Receive, Batches
  <2>2. Batches'
    BY <1>0, <1>5, <2>1 DEF Receive, Batches
  <2>3. QED
    BY <1>5, <2>2, ForgetKeeps DEF Receive
<1>6. ASSUME NEW w \in Writer, NEW final \in BOOLEAN, FailUpload(w, final) PROVE IInv'
  <2>1. Batches'
    BY <1>0, <1>6, ConstantsOK, AfterFailureBatches DEF FailUpload
  <2>2. QED
    BY <1>6, <2>1, ForgetKeeps DEF FailUpload
<1>7. ASSUME NEW w \in Writer, LoseAnswer(w) PROVE IInv'
  <2>1. Batches'
    BY <1>0, <1>7, ConstantsOK, AfterFailureBatches DEF LoseAnswer
  <2>2. UNCHANGED <<lock, rows, refused>>
    BY <1>7 DEF LoseAnswer
  <2>3. CASE writer[w].step = "done"
    <3>1. writer' = [writer EXCEPT ![w] = IdleWriter]
      BY <1>7, <2>3 DEF LoseAnswer, IInv, Types
    <3>2. QED
      BY <2>1, <2>2, <3>1, ForgetKeeps
  <2>4. CASE writer[w].step # "done"
    <3>1. writer' = writer
      BY <1>7, <2>4 DEF LoseAnswer, IInv, Types
    <3>2. QED
      BY <2>1, <2>2, <3>1, AdapterKeeps
  <2>5. QED
    BY <2>3, <2>4
<1>8. ASSUME NEW w \in Writer, RecordCall(w) PROVE IInv'
  <2>1. <<[source |-> "mcp", event |-> 0, kind |-> "tool"]>> \in Seq(Row)
    BY RowTypes
  <2>2. Batches'
    BY <1>0, <1>8 DEF RecordCall, Batches
  <2>3. QED
    BY <1>8, <2>1, <2>2, RequestKeeps DEF RecordCall
<1>9. ASSUME NEW w \in Writer, Interrupt(w) PROVE IInv'
  <2> DEFINE row == [source |-> "interruption", event |-> 0, kind |-> "text"]
             tx == [IdleWriter EXCEPT !.step = "locked", !.entries = <<row>>]
  <2>1. <<row>> \in Seq(Row)
    BY RowTypes
  <2>2. tx \in WriterRecord /\ tx.step = "locked"
    BY <2>1 DEF IdleWriter, WriterRecord, Steps
  <2>3. Batches'
    BY <1>0, <1>9 DEF Interrupt, Batches
  <2>4. writer' = [writer EXCEPT ![w] = tx]
    BY <1>9 DEF Interrupt
  <2> HIDE DEF tx
  <2>5. QED
    BY <1>9, <2>2, <2>3, <2>4, LockKeeps DEF Interrupt
<1>10. ASSUME NEW w \in Writer, ForUpdate(w) PROVE IInv'
  <2> DEFINE tx == [writer[w] EXCEPT !.step = "locked"]
  <2>1. tx \in WriterRecord /\ tx.step = "locked"
    BY DEF IInv, Types, WriterRecord, Steps
  <2>2. PICK t \in WriterRecord : t = tx
    BY <2>1
  <2>3. Batches'
    BY <1>0, <1>10 DEF ForUpdate, Batches
  <2>4. writer' = [writer EXCEPT ![w] = t]
    BY <1>10, <2>2 DEF ForUpdate, IInv, Types
  <2>5. t.step = "locked"
    BY <2>1, <2>2
  <2> HIDE DEF tx
  <2>6. QED
    BY <1>10, <2>3, <2>4, <2>5, LockKeeps DEF ForUpdate
<1>11. ASSUME NEW w \in Writer, ReadMaxSeq(w) PROVE IInv'
  BY <1>11, ReadMaxKeeps
<1>12. ASSUME NEW w \in Writer, InsertEntries(w) PROVE IInv'
  BY <1>12, InsertKeeps
<1>13. ASSUME UNCHANGED <<adapter, board>> PROVE IInv'
  <2>1. Batches'
    BY <1>0, <1>13 DEF Batches
  <2>2. QED
    BY <1>13, <2>1, AdapterKeeps
<1>14. QED
  BY <1>1, <1>2, <1>3, <1>4, <1>5, <1>6, <1>7, <1>8, <1>9, <1>10, <1>11, <1>12, <1>13
     DEF Next, Step, vars, Load, Poll, Reset, FailFetch, ServeFetch, ApplyLoad, ApplyPoll

\* No insert into a trace is refused, whoever writes, however often an upload is
\* repeated after its answer was lost, and whenever the session is interrupted.
THEOREM NumbersAreKept == Spec => []NothingRefused
<1>1. IInv => NothingRefused
  BY DEF IInv
<1>2. QED
  BY <1>1, InitLocked, NextLocked, PTL DEF Spec
-----------------------------------------------------------------------------
(* The order of what is stored.                                             *)

\* Each row of the sequence comes after every earlier event that is not settled.
Follows(s, settled) ==
  \A i \in DOMAIN s : \A m \in 1 .. s[i].event - 1 :
    m \in settled \/ \E j \in 1 .. i - 1 : s[j].event = m

\* The events of the first k batches.
FirstBatches(batches, k) == UNION {EventsOf(batches[h]) : h \in 1 .. k}

\* What an event need not wait for: it was given up or it is stored.
Settled == dropped \cup EventsOf(rows)

\* The adapter has every event that is not settled, in the order of emission.
InLine ==
  /\ \A k \in DOMAIN chain : Follows(chain[k], Settled \cup FirstBatches(chain, k - 1))
  /\ Follows(pending, Settled \cup FirstBatches(chain, Len(chain)))
  /\ 1 .. emitted \subseteq
       Settled \cup FirstBatches(chain, Len(chain)) \cup EventsOf(pending)

\* The attempt whose answer the adapter awaits is of the first batch.
Awaited ==
  /\ waiting \in Writer \cup {None}
  /\ waiting # None =>
       /\ writer[waiting].step # "idle"
       /\ writer[waiting].step = "done" => EventsOf(Head(chain)) \subseteq EventsOf(rows)
       /\ writer[waiting].step # "done" => writer[waiting].entries = Head(chain)

\* A transaction may store its rows whenever it comes to it, late attempts too.
Storable(w) ==
  writer[w].step \in {"sent", "locked", "counted"} => Follows(writer[w].entries, Settled)

OrderInv ==
  /\ InLine /\ Awaited
  /\ \A w \in Writer : Storable(w)
  /\ Follows(rows, dropped)

-----------------------------------------------------------------------------
(* Lemmas about sequences of rows.                                          *)

\* What is settled more is followed the sooner.
LEMMA FollowsMore ==
  ASSUME NEW s, NEW less, NEW more, Follows(s, less), less \subseteq more
  PROVE  Follows(s, more)
  BY DEF Follows

\* The events of a sequence and of its parts.
LEMMA EventsOfConcat ==
  ASSUME NEW s \in Seq(Row), NEW t \in Seq(Row)
  PROVE  EventsOf(s \o t) = EventsOf(s) \cup EventsOf(t)
<1>1. /\ Len(s \o t) = Len(s) + Len(t)
      /\ \A i \in 1 .. Len(s) : (s \o t)[i] = s[i]
      /\ \A i \in 1 .. Len(t) : (s \o t)[Len(s) + i] = t[i]
  BY ConcatProperties
<1>2. DOMAIN s = 1 .. Len(s) /\ DOMAIN t = 1 .. Len(t) /\ Len(s) \in Nat /\ Len(t) \in Nat
  OBVIOUS
<1>3. DOMAIN (s \o t) = 1 .. Len(s) + Len(t)
  BY <1>1, ConcatProperties
<1>4. ASSUME NEW e \in EventsOf(s \o t) PROVE e \in EventsOf(s) \cup EventsOf(t)
  <2>1. PICK i \in 1 .. Len(s) + Len(t) : e = (s \o t)[i].event
    BY <1>3 DEF EventsOf
  <2>2. CASE i <= Len(s)
    BY <1>1, <1>2, <2>1, <2>2 DEF EventsOf
  <2>3. CASE i > Len(s)
    <3>1. i - Len(s) \in 1 .. Len(t) /\ i = Len(s) + (i - Len(s))
      BY <1>2, <2>1, <2>3
    <3>2. (s \o t)[i] = t[i - Len(s)]
      BY <1>1, <3>1
    <3>3. QED
      BY <1>2, <2>1, <3>1, <3>2 DEF EventsOf
  <2>4. QED
    BY <1>2, <2>1, <2>2, <2>3
<1>5. ASSUME NEW e \in EventsOf(s) PROVE e \in EventsOf(s \o t)
  <2>1. PICK i \in 1 .. Len(s) : e = s[i].event
    BY <1>2, <1>5 DEF EventsOf
  <2>2. i \in DOMAIN (s \o t) /\ (s \o t)[i] = s[i]
    BY <1>1, <1>2, <1>3, <2>1
  <2>3. QED
    BY <2>1, <2>2 DEF EventsOf
<1>6. ASSUME NEW e \in EventsOf(t) PROVE e \in EventsOf(s \o t)
  <2>1. PICK i \in 1 .. Len(t) : e = t[i].event
    BY <1>2, <1>6 DEF EventsOf
  <2>2. Len(s) + i \in DOMAIN (s \o t) /\ (s \o t)[Len(s) + i] = t[i]
    BY <1>1, <1>2, <1>3, <2>1
  <2>3. QED
    BY <2>1, <2>2 DEF EventsOf
<1>7. QED
  BY <1>4, <1>5, <1>6

\* Rows whose earlier events are settled or in a sequence may be put behind it.
LEMMA FollowsConcat ==
  ASSUME NEW s \in Seq(Row), NEW t \in Seq(Row), NEW settled,
         Follows(s, settled), Follows(t, settled \cup EventsOf(s))
  PROVE  Follows(s \o t, settled)
<1>1. /\ Len(s \o t) = Len(s) + Len(t)
      /\ \A i \in 1 .. Len(s) : (s \o t)[i] = s[i]
      /\ \A i \in 1 .. Len(t) : (s \o t)[Len(s) + i] = t[i]
      /\ s \o t \in Seq(Row)
  BY ConcatProperties
<1>2. DOMAIN s = 1 .. Len(s) /\ DOMAIN t = 1 .. Len(t) /\ Len(s) \in Nat /\ Len(t) \in Nat
  OBVIOUS
<1>3. DOMAIN (s \o t) = 1 .. Len(s) + Len(t)
  BY <1>1
<1> SUFFICES ASSUME NEW i \in 1 .. Len(s) + Len(t), NEW m \in 1 .. (s \o t)[i].event - 1,
                    m \notin settled
             PROVE  \E j \in 1 .. i - 1 : (s \o t)[j].event = m
  BY <1>3 DEF Follows
<1>4. CASE i <= Len(s)
  <2>1. i \in DOMAIN s /\ (s \o t)[i] = s[i]
    BY <1>1, <1>2, <1>4
  <2>2. PICK j \in 1 .. i - 1 : s[j].event = m
    BY <2>1 DEF Follows
  <2>3. (s \o t)[j] = s[j]
    BY <1>1, <1>2, <1>4, <2>2
  <2>4. QED
    BY <2>2, <2>3
<1>5. CASE i > Len(s)
  <2>1. i - Len(s) \in 1 .. Len(t) /\ i = Len(s) + (i - Len(s))
    BY <1>2, <1>5
  <2>2. (s \o t)[i] = t[i - Len(s)]
    BY <1>1, <2>1
  <2>3. m \in EventsOf(s) \/ \E j \in 1 .. (i - Len(s)) - 1 : t[j].event = m
    BY <1>2, <2>1, <2>2 DEF Follows
  <2>4. CASE m \in EventsOf(s)
    <3>1. PICK j \in 1 .. Len(s) : s[j].event = m
      BY <1>2, <2>4 DEF EventsOf
    <3>2. (s \o t)[j] = s[j] /\ j \in 1 .. i - 1
      BY <1>1, <1>2, <1>5, <3>1
    <3>3. QED
      BY <3>1, <3>2
  <2>5. CASE \E j \in 1 .. (i - Len(s)) - 1 : t[j].event = m
    <3>1. PICK j \in 1 .. (i - Len(s)) - 1 : t[j].event = m
      BY <2>5
    <3>2. j \in 1 .. Len(t) /\ Len(s) + j \in 1 .. i - 1
      BY <1>2, <2>1, <3>1
    <3>3. (s \o t)[Len(s) + j] = t[j]
      BY <1>1, <3>2
    <3>4. QED
      BY <3>1, <3>2, <3>3
  <2>6. QED
    BY <2>3, <2>4, <2>5
<1>6. QED
  BY <1>2, <1>4, <1>5

\* A row behind a sequence is a sequence of one row behind it.
LEMMA FollowsAppend ==
  ASSUME NEW s \in Seq(Row), NEW row \in Row, NEW settled, Follows(s, settled),
         1 .. row.event - 1 \subseteq settled \cup EventsOf(s)
  PROVE  /\ Follows(Append(s, row), settled)
         /\ EventsOf(Append(s, row)) = EventsOf(s) \cup {row.event}
<1>1. <<row>> \in Seq(Row) /\ DOMAIN <<row>> = {1} /\ <<row>>[1] = row
      /\ Append(s, row) = s \o <<row>>
  OBVIOUS
<1>2. PICK one \in Seq(Row) : one = <<row>>
  BY <1>1
<1>3. Follows(one, settled \cup EventsOf(s)) /\ EventsOf(one) = {row.event}
  BY <1>1, <1>2 DEF Follows, EventsOf
<1>4. Follows(s \o one, settled)
  BY <1>3, FollowsConcat
<1>5. EventsOf(s \o one) = EventsOf(s) \cup EventsOf(one)
  BY EventsOfConcat
<1>6. QED
  BY <1>1, <1>2, <1>3, <1>4, <1>5

\* A batch put behind the others.
LEMMA BatchAppended ==
  ASSUME NEW batches \in Seq(Seq(Row)), NEW batch \in Seq(Row)
  PROVE  /\ \A k \in 0 .. Len(batches) :
              FirstBatches(Append(batches, batch), k) = FirstBatches(batches, k)
         /\ FirstBatches(Append(batches, batch), Len(batches) + 1)
              = FirstBatches(batches, Len(batches)) \cup EventsOf(batch)
<1> DEFINE more == Append(batches, batch)
<1>1. /\ Len(batches) \in Nat /\ more[Len(batches) + 1] = batch
      /\ \A h \in 1 .. Len(batches) : more[h] = batches[h]
  OBVIOUS
<1> HIDE DEF more
<1>2. \A k \in 0 .. Len(batches) : \A h \in 1 .. k : more[h] = batches[h]
  BY <1>1
<1>3. \A k \in 0 .. Len(batches) : FirstBatches(more, k) = FirstBatches(batches, k)
  BY <1>2 DEF FirstBatches
<1>4. 1 .. Len(batches) + 1 = 1 .. Len(batches) \cup {Len(batches) + 1}
  BY <1>1
<1>5. FirstBatches(more, Len(batches) + 1)
        = FirstBatches(batches, Len(batches)) \cup EventsOf(batch)
  BY <1>1, <1>4 DEF FirstBatches
<1>6. QED
  BY <1>3, <1>5 DEF more

\* The first batch taken off the others.
LEMMA BatchTaken ==
  ASSUME NEW batches \in Seq(Seq(Row)), batches # <<>>, NEW k \in 0 .. Len(batches) - 1
  PROVE  FirstBatches(batches, k + 1) = EventsOf(Head(batches)) \cup FirstBatches(Tail(batches), k)
<1> DEFINE rest == Tail(batches)
<1>1. /\ Head(batches) = batches[1] /\ Len(batches) \in Nat
      /\ \A h \in 1 .. Len(batches) - 1 : rest[h] = batches[h + 1]
  OBVIOUS
<1> HIDE DEF rest
<1>2. ASSUME NEW e \in FirstBatches(batches, k + 1)
      PROVE  e \in EventsOf(Head(batches)) \cup FirstBatches(rest, k)
  <2>1. PICK g \in 1 .. k + 1 : e \in EventsOf(batches[g])
    BY <1>2 DEF FirstBatches
  <2>2. CASE g = 1
    BY <1>1, <2>1, <2>2
  <2>3. CASE g # 1
    <3>1. g - 1 \in 1 .. k /\ g - 1 \in 1 .. Len(batches) - 1 /\ (g - 1) + 1 = g
      BY <1>1, <2>1, <2>3
    <3>2. rest[g - 1] = batches[g]
      BY <1>1, <3>1
    <3>3. QED
      BY <2>1, <3>1, <3>2 DEF FirstBatches
  <2>4. QED
    BY <2>2, <2>3
<1>3. ASSUME NEW e \in EventsOf(Head(batches)) PROVE e \in FirstBatches(batches, k + 1)
  BY <1>1, <1>3, 1 \in 1 .. k + 1 DEF FirstBatches
<1>4. ASSUME NEW e \in FirstBatches(rest, k) PROVE e \in FirstBatches(batches, k + 1)
  <2>1. PICK h \in 1 .. k : e \in EventsOf(rest[h])
    BY <1>4 DEF FirstBatches
  <2>2. h + 1 \in 1 .. k + 1 /\ rest[h] = batches[h + 1]
    BY <1>1, <2>1
  <2>3. QED
    BY <2>1, <2>2 DEF FirstBatches
<1>5. QED
  BY <1>2, <1>3, <1>4 DEF rest

-----------------------------------------------------------------------------
(* The steps of the order.                                                  *)

\* At first there is nothing to put in order.
LEMMA InitOrder == Init => OrderInv
<1> SUFFICES ASSUME Init PROVE OrderInv
  OBVIOUS
<1>1. rows = <<>> /\ chain = <<>> /\ pending = <<>> /\ 1 .. emitted = {}
  BY DEF Init
<1>2. InLine /\ Follows(rows, dropped)
  BY <1>1 DEF InLine, Follows
<1>3. Awaited
  BY DEF Init, Awaited
<1>4. \A w \in Writer : Storable(w)
  BY IdleWriterType DEF Init, Storable
<1>5. QED
  BY <1>2, <1>3, <1>4 DEF OrderInv

\* A batch that comes after what is in line joins the chain.
LEMMA ChainGrows ==
  ASSUME IInv, InLine, NEW batch \in Seq(Row),
         Follows(batch, Settled \cup FirstBatches(chain, Len(chain))),
         1 .. emitted' \subseteq
           Settled \cup FirstBatches(chain, Len(chain)) \cup EventsOf(batch),
         pending' = <<>>, chain' = Append(chain, batch), Settled' = Settled
  PROVE  InLine'
<1>1. chain \in Seq(Seq(Row))
  BY DEF IInv, Types, Batches
<1>2. /\ \A k \in 0 .. Len(chain) : FirstBatches(chain', k) = FirstBatches(chain, k)
      /\ FirstBatches(chain', Len(chain) + 1)
           = FirstBatches(chain, Len(chain)) \cup EventsOf(batch)
  BY <1>1, BatchAppended
<1>3. /\ Len(chain) \in Nat /\ DOMAIN chain = 1 .. Len(chain)
      /\ DOMAIN chain' = 1 .. Len(chain) + 1 /\ Len(chain') = Len(chain) + 1
      /\ chain'[Len(chain) + 1] = batch
      /\ \A k \in 1 .. Len(chain) : chain'[k] = chain[k]
  BY <1>1
<1>4. ASSUME NEW k \in DOMAIN chain'
      PROVE  Follows(chain'[k], Settled \cup FirstBatches(chain', k - 1))
  <2>1. CASE k = Len(chain) + 1
    <3>1. k - 1 = Len(chain) /\ Len(chain) \in 0 .. Len(chain) /\ chain'[k] = batch
      BY <1>3, <2>1
    <3>2. FirstBatches(chain', Len(chain)) = FirstBatches(chain, Len(chain))
      BY <1>2, <3>1
    <3>3. QED
      BY <3>1, <3>2
  <2>2. CASE k # Len(chain) + 1
    <3>1. k \in DOMAIN chain /\ k - 1 \in 0 .. Len(chain) /\ chain'[k] = chain[k]
      BY <1>3, <2>2
    <3>2. Follows(chain[k], Settled \cup FirstBatches(chain, k - 1))
      BY <3>1 DEF InLine
    <3>3. FirstBatches(chain', k - 1) = FirstBatches(chain, k - 1)
      BY <1>2, <3>1
    <3>4. QED
      BY <3>1, <3>2, <3>3
  <2>3. QED
    BY <2>1, <2>2
<1>5. Follows(<<>>, Settled \cup FirstBatches(chain', Len(chain')))
  BY DEF Follows
<1>6. QED
  BY <1>2, <1>3, <1>4, <1>5 DEF InLine

\* An event is emitted after all the others.
LEMMA EmitInLine ==
  ASSUME IInv, InLine, NEW kind \in {"tool", "text"}, Emit(kind)
  PROVE  InLine'
<1> DEFINE row == MarkOf(kind, emitted + 1)
           ahead == Settled \cup FirstBatches(chain, Len(chain))
<1>1. emitted \in Nat /\ pending \in Seq(Row) /\ chain \in Seq(Seq(Row))
  BY DEF IInv, Types, Batches
<1>2. row \in Row /\ row.event = emitted + 1
  BY <1>1, RowTypes DEF MarkOf
<1>3. PICK r \in Row : r = row
  BY <1>2
<1>4. emitted' = emitted + 1 /\ Settled' = Settled
  BY DEF Emit, board, Settled, EventsOf
<1>5. \/ pending' = <<>> /\ chain' = Append(chain, Append(pending, r))
      \/ pending' = Append(pending, r) /\ chain' = chain
  BY <1>3 DEF Emit
<1>6. 1 .. r.event - 1 \subseteq ahead \cup EventsOf(pending)
  BY <1>1, <1>2, <1>3 DEF InLine
<1>7. Follows(pending, ahead)
  BY DEF InLine
<1> HIDE DEF row, ahead
<1>8. PICK batch \in Seq(Row) : batch = Append(pending, r)
  <2>1. Append(pending, r) \in Seq(Row)
    BY <1>1
  <2>2. QED
    BY <2>1
<1>9. Follows(batch, ahead) /\ EventsOf(batch) = EventsOf(pending) \cup {emitted + 1}
  BY <1>1, <1>2, <1>3, <1>6, <1>7, <1>8, FollowsAppend
<1>10. 1 .. emitted' \subseteq ahead \cup EventsOf(batch)
  BY <1>1, <1>4, <1>9 DEF InLine, ahead
<1>11. CASE pending' = batch /\ chain' = chain
  BY <1>4, <1>9, <1>10, <1>11 DEF InLine, ahead
<1>12. CASE pending' = <<>> /\ chain' = Append(chain, batch)
  <2>1. /\ Follows(batch, Settled \cup FirstBatches(chain, Len(chain)))
        /\ 1 .. emitted' \subseteq
             Settled \cup FirstBatches(chain, Len(chain)) \cup EventsOf(batch)
    BY <1>9, <1>10 DEF ahead
  <2>2. QED
    BY <1>1, <1>4, <1>12, <2>1, ChainGrows
<1>13. QED
  BY <1>5, <1>8, <1>11, <1>12

\* What is settled more keeps the line.
LEMMA InLineKept ==
  ASSUME IInv, InLine, Settled \subseteq Settled', UNCHANGED <<emitted, pending, chain>>
  PROVE  InLine'
<1>1. ASSUME NEW k \in DOMAIN chain
      PROVE  Follows(chain[k], Settled' \cup FirstBatches(chain, k - 1))
  <2>1. Follows(chain[k], Settled \cup FirstBatches(chain, k - 1))
    BY DEF InLine
  <2>2. QED
    BY <2>1, FollowsMore
<1>2. Follows(pending, Settled' \cup FirstBatches(chain, Len(chain)))
  <2>1. Follows(pending, Settled \cup FirstBatches(chain, Len(chain)))
    BY DEF InLine
  <2>2. QED
    BY <2>1, FollowsMore
<1>3. QED
  BY <1>1, <1>2 DEF InLine

\* The first batch leaves the chain once its events are settled.
LEMMA ChainShrinks ==
  ASSUME IInv, InLine, chain # <<>>, chain' = Tail(chain), UNCHANGED <<emitted, pending>>,
         Settled \subseteq Settled', EventsOf(Head(chain)) \subseteq Settled'
  PROVE  InLine'
<1>1. chain \in Seq(Seq(Row))
  BY DEF IInv, Types, Batches
<1>2. /\ Len(chain) \in Nat /\ Len(chain) >= 1 /\ DOMAIN chain = 1 .. Len(chain)
      /\ DOMAIN chain' = 1 .. Len(chain) - 1 /\ Len(chain') = Len(chain) - 1
      /\ \A k \in 1 .. Len(chain) - 1 : chain'[k] = chain[k + 1]
  BY <1>1
<1>3. ASSUME NEW k \in 0 .. Len(chain) - 1
      PROVE  Settled \cup FirstBatches(chain, k + 1) \subseteq Settled' \cup FirstBatches(chain', k)
  <2>1. FirstBatches(chain, k + 1) = EventsOf(Head(chain)) \cup FirstBatches(chain', k)
    BY <1>1, BatchTaken
  <2>2. QED
    BY <2>1
<1>4. ASSUME NEW k \in DOMAIN chain'
      PROVE  Follows(chain'[k], Settled' \cup FirstBatches(chain', k - 1))
  <2>1. k + 1 \in DOMAIN chain /\ k - 1 \in 0 .. Len(chain) - 1 /\ (k + 1) - 1 = (k - 1) + 1
        /\ chain'[k] = chain[k + 1]
    BY <1>2
  <2>2. Follows(chain[k + 1], Settled \cup FirstBatches(chain, (k + 1) - 1))
    BY <2>1 DEF InLine
  <2>3. Settled \cup FirstBatches(chain, (k - 1) + 1) \subseteq Settled' \cup FirstBatches(chain', k - 1)
    BY <1>3, <2>1
  <2>4. QED
    BY <2>1, <2>2, <2>3, FollowsMore
<1>5. Settled \cup FirstBatches(chain, Len(chain)) \subseteq Settled' \cup FirstBatches(chain', Len(chain'))
  <2>1. Len(chain') \in 0 .. Len(chain) - 1 /\ Len(chain') + 1 = Len(chain)
    BY <1>2
  <2>2. Settled \cup FirstBatches(chain, Len(chain') + 1)
          \subseteq Settled' \cup FirstBatches(chain', Len(chain'))
    BY <1>3, <2>1
  <2>3. QED
    BY <2>1, <2>2
<1>6. Follows(pending, Settled' \cup FirstBatches(chain', Len(chain')))
  <2>1. Follows(pending, Settled \cup FirstBatches(chain, Len(chain)))
    BY DEF InLine
  <2>2. QED
    BY <1>5, <2>1, FollowsMore
<1>7. 1 .. emitted \subseteq
        Settled' \cup FirstBatches(chain', Len(chain')) \cup EventsOf(pending)
  BY <1>5 DEF InLine
<1>8. QED
  BY <1>4, <1>6, <1>7 DEF InLine

\* One transaction moves on, the adapter keeps what it has.
LEMMA WriterMoves ==
  ASSUME IInv, OrderInv, NEW w \in Writer, NEW tx \in WriterRecord,
         writer' = [writer EXCEPT ![w] = tx],
         tx.entries = writer[w].entries, tx.step \in {"sent", "locked", "counted"},
         writer[w].step \in {"sent", "locked", "counted"},
         UNCHANGED <<adapter, rows>>
  PROVE  OrderInv'
<1>1. writer'[w] = tx /\ \A u \in Writer \ {w} : writer'[u] = writer[u]
  BY DEF IInv, Types
<1>2. Settled' = Settled /\ UNCHANGED <<emitted, pending, chain, waiting, dropped, rows>>
  BY DEF Settled, EventsOf, adapter
<1>3. InLine'
  BY <1>2, InLineKept DEF OrderInv
<1>4. Awaited'
  BY <1>1, <1>2, ConstantsOK DEF OrderInv, Awaited, IInv, Types
<1>5. \A u \in Writer : Storable(u)'
  <2>1. Storable(w)'
    BY <1>1, <1>2 DEF OrderInv, Storable
  <2>2. \A u \in Writer \ {w} : Storable(u)'
    BY <1>1, <1>2 DEF OrderInv, Storable
  <2>3. QED
    BY <2>1, <2>2
<1>6. Follows(rows, dropped)'
  BY <1>2 DEF OrderInv
<1>7. QED
  BY <1>3, <1>4, <1>5, <1>6 DEF OrderInv

\* A transaction begins with rows that are storable; an upload is of the first batch.
LEMMA WriterBegins ==
  ASSUME IInv, OrderInv, NEW w \in Writer, NEW tx \in WriterRecord,
         writer' = [writer EXCEPT ![w] = tx],
         tx.step \in {"sent", "locked"}, Follows(tx.entries, Settled),
         writer[w].step = "idle",
         UNCHANGED <<emitted, pending, chain, dropped, rows>>,
         \/ waiting' = waiting
         \/ waiting' = w /\ tx.entries = Head(chain)
  PROVE  OrderInv'
<1>1. writer'[w] = tx /\ \A u \in Writer \ {w} : writer'[u] = writer[u]
  BY DEF IInv, Types
<1>2. Settled' = Settled
  BY DEF Settled, EventsOf
<1>3. InLine'
  BY <1>2, InLineKept DEF OrderInv
<1>4. Awaited'
  <2>1. CASE waiting' = w /\ tx.entries = Head(chain)
    BY <1>1, <2>1 DEF Awaited
  <2>2. CASE waiting' = waiting
    <3>1. waiting # w
      BY ConstantsOK DEF OrderInv, Awaited
    <3>2. waiting # None => waiting \in Writer
      BY DEF OrderInv, Awaited
    <3>3. QED
      BY <1>1, <2>2, <3>1, <3>2 DEF OrderInv, Awaited
  <2>3. QED
    BY <2>1, <2>2
<1>5. \A u \in Writer : Storable(u)'
  BY <1>1, <1>2 DEF OrderInv, Storable
<1>6. Follows(rows, dropped)'
  BY DEF OrderInv
<1>7. QED
  BY <1>3, <1>4, <1>5, <1>6 DEF OrderInv

\* The adapter is done with an attempt: it keeps the first batch, or this is settled.
LEMMA AttemptEnds ==
  ASSUME IInv, OrderInv, waiting' = None,
         \A u \in Writer : writer'[u] = writer[u] \/ writer'[u].step = "idle",
         UNCHANGED <<emitted, pending, rows>>, dropped \subseteq dropped',
         \/ chain' = chain
         \/ /\ chain # <<>> /\ chain' = Tail(chain)
            /\ EventsOf(Head(chain)) \subseteq dropped' \cup EventsOf(rows)
  PROVE  OrderInv'
<1>1. Settled \subseteq Settled' /\ Settled' = dropped' \cup EventsOf(rows)
  BY DEF Settled
<1>2. InLine'
  BY <1>1, InLineKept, ChainShrinks DEF OrderInv
<1>3. Awaited'
  BY DEF Awaited
<1>4. ASSUME NEW u \in Writer PROVE Storable(u)'
  <2>1. Storable(u)
    BY DEF OrderInv
  <2>2. CASE writer'[u].step = "idle"
    BY <2>2 DEF Storable
  <2>3. CASE writer'[u] = writer[u]
    <3>1. Follows(writer[u].entries, Settled) => Follows(writer[u].entries, Settled')
      BY <1>1, FollowsMore
    <3>2. QED
      BY <2>1, <2>3, <3>1 DEF Storable
  <2>4. QED
    BY <2>2, <2>3
<1>5. Follows(rows, dropped')
  BY FollowsMore DEF OrderInv
<1>6. QED
  BY <1>2, <1>3, <1>4, <1>5 DEF OrderInv

\* After a failed attempt the first batch is tried again, or it is given up.
LEMMA FailureSettles ==
  ASSUME IInv, NEW final \in BOOLEAN, AfterFailure(final), waiting # None
  PROVE  /\ waiting' = None /\ dropped \subseteq dropped'
         /\ \/ chain' = chain
            \/ /\ chain # <<>> /\ chain' = Tail(chain)
               /\ EventsOf(Head(chain)) \subseteq dropped'
  BY DEF AfterFailure, IInv, Types, Batches

\* What a transaction stores comes after all that it must come after.
LEMMA InsertOrder ==
  ASSUME IInv, OrderInv, NEW w \in Writer, InsertEntries(w)
  PROVE  OrderInv'
<1>1. writer[w].base = Len(rows) /\ writer[w].step = "counted"
  BY DEF InsertEntries, IInv, Locked, Numbered
<1>2. rows' = rows \o writer[w].entries /\ UNCHANGED <<emitted, pending, chain, waiting, dropped>>
  BY <1>1 DEF InsertEntries, adapter
<1>3. rows \in Seq(Row) /\ writer[w].entries \in Seq(Row)
  BY DEF IInv, Types, WriterRecord
<1>4. EventsOf(rows') = EventsOf(rows) \cup EventsOf(writer[w].entries)
  BY <1>2, <1>3, EventsOfConcat
<1>5. Settled' = Settled \cup EventsOf(writer[w].entries)
  BY <1>2, <1>4 DEF Settled
<1>6. Follows(rows', dropped)
  <2>1. Follows(writer[w].entries, dropped \cup EventsOf(rows))
    BY <1>1 DEF OrderInv, Storable, Settled
  <2>2. Follows(rows, dropped)
    BY DEF OrderInv
  <2>3. QED
    BY <1>2, <1>3, <2>1, <2>2, FollowsConcat
<1>7. InLine'
  BY <1>2, <1>5, InLineKept DEF OrderInv
<1>8. /\ \A u \in Writer \ {w} : writer'[u] = writer[u]
      /\ IF waiting = w THEN writer'[w].step = "done" ELSE writer'[w].step = "idle"
  BY IdleWriterType DEF InsertEntries, IInv, Types, WriterRecord
<1>9. Awaited'
  <2>1. CASE waiting = w
    BY <1>1, <1>2, <1>4, <1>8, <2>1 DEF OrderInv, Awaited
  <2>2. CASE waiting # w
    <3>1. waiting # None => waiting \in Writer
      BY DEF OrderInv, Awaited
    <3>2. QED
      BY <1>2, <1>4, <1>8, <2>2, <3>1 DEF OrderInv, Awaited
  <2>3. QED
    BY <2>1, <2>2
<1>10. ASSUME NEW u \in Writer PROVE Storable(u)'
  <2>1. CASE u = w
    BY <1>8, <2>1 DEF Storable
  <2>2. CASE u # w
    <3>1. Follows(writer[u].entries, Settled) => Follows(writer[u].entries, Settled')
      BY <1>5, FollowsMore
    <3>2. QED
      BY <1>8, <2>2, <3>1 DEF OrderInv, Storable
  <2>3. QED
    BY <2>1, <2>2
<1>11. QED
  BY <1>2, <1>6, <1>7, <1>9, <1>10 DEF OrderInv

\* What is lost with the adapter is given up, all of it.
LEMMA CrashOrder ==
  ASSUME IInv, OrderInv, Crash
  PROVE  OrderInv'
<1>1. /\ dropped' = dropped \cup EventsOf(pending) \cup UNION {EventsOf(chain[i]) : i \in DOMAIN chain}
      /\ pending' = <<>> /\ chain' = <<>> /\ waiting' = None
      /\ UNCHANGED <<emitted, rows>>
  BY DEF Crash
<1>2. DOMAIN chain = 1 .. Len(chain)
  BY DEF IInv, Types, Batches
<1>3. Settled' = Settled \cup EventsOf(pending) \cup FirstBatches(chain, Len(chain))
  BY <1>1, <1>2 DEF Settled, FirstBatches
<1>4. InLine'
  <2>1. 1 .. emitted' \subseteq Settled'
    BY <1>1, <1>3 DEF OrderInv, InLine
  <2>2. Follows(pending', Settled' \cup FirstBatches(chain', Len(chain')))
    BY <1>1 DEF Follows
  <2>3. QED
    BY <1>1, <2>1, <2>2 DEF InLine
<1>5. Awaited'
  BY <1>1 DEF Awaited
<1>6. ASSUME NEW u \in Writer PROVE Storable(u)'
  <2>1. writer'[u] = writer[u] \/ writer'[u].step = "idle"
    BY IdleWriterType DEF Crash
  <2>2. Follows(writer[u].entries, Settled) => Follows(writer[u].entries, Settled')
    BY <1>3, FollowsMore
  <2>3. QED
    BY <2>1, <2>2 DEF OrderInv, Storable
<1>7. Follows(rows, dropped')
  <2>1. dropped \subseteq dropped'
    BY <1>1
  <2>2. QED
    BY <2>1, FollowsMore DEF OrderInv
<1>8. QED
  BY <1>1, <1>4, <1>5, <1>6, <1>7 DEF OrderInv

\* Every step keeps the order, one case per action.
LEMMA NextOrder == IInv /\ OrderInv /\ [Next]_vars => OrderInv'
<1> SUFFICES ASSUME IInv, OrderInv, [Next]_vars PROVE OrderInv'
  OBVIOUS
<1>0. rows \in Seq(Row) /\ chain \in Seq(Seq(Row)) /\ writer \in [Writer -> WriterRecord]
  BY DEF IInv, Types, Batches
<1>1. ASSUME NEW kind \in {"tool", "text"}, Emit(kind) PROVE OrderInv'
  <2>1. InLine'
    BY <1>1, EmitInLine DEF OrderInv
  <2>2. UNCHANGED <<writer, waiting, dropped, rows>> /\ Settled' = Settled
    BY <1>1 DEF Emit, board, Settled, EventsOf
  <2>3. Awaited'
    <3>1. waiting # None => Head(chain') = Head(chain)
      <4>1. waiting # None => chain # <<>>
        BY DEF IInv, Types, Batches
      <4>2. chain' = chain \/ chain' = Append(chain, Append(pending, MarkOf(kind, emitted + 1)))
        BY <1>1 DEF Emit
      <4>3. Append(pending, MarkOf(kind, emitted + 1)) \in Seq(Row)
        BY RowTypes DEF IInv, Types, Batches
      <4>4. PICK batch \in Seq(Row) : batch = Append(pending, MarkOf(kind, emitted + 1))
        BY <4>3
      <4>5. chain # <<>> => Head(Append(chain, batch)) = Head(chain)
        BY <1>0
      <4>6. QED
        BY <4>1, <4>2, <4>4, <4>5
    <3>2. QED
      BY <2>2, <3>1 DEF OrderInv, Awaited
  <2>4. \A w \in Writer : Storable(w)'
    BY <2>2 DEF OrderInv, Storable
  <2>5. QED
    BY <2>1, <2>2, <2>3, <2>4 DEF OrderInv
<1>2. CASE FlushPending
  <2>1. /\ UNCHANGED <<emitted, writer, waiting, dropped, rows>> /\ Settled' = Settled
        /\ pending' = <<>> /\ chain' = Append(chain, pending) /\ pending \in Seq(Row)
    BY <1>2 DEF FlushPending, board, Settled, EventsOf, IInv, Types, Batches
  <2>2. InLine'
    BY <2>1, ChainGrows DEF OrderInv, InLine
  <2>3. Awaited'
    <3>1. waiting # None => chain # <<>>
      BY DEF IInv, Types, Batches
    <3>2. chain # <<>> => Head(chain') = Head(chain)
      BY <1>0, <2>1
    <3>3. QED
      BY <2>1, <3>1, <3>2 DEF OrderInv, Awaited
  <2>4. \A w \in Writer : Storable(w)'
    BY <2>1 DEF OrderInv, Storable
  <2>5. QED
    BY <2>1, <2>2, <2>3, <2>4 DEF OrderInv
<1>3. CASE Crash
  BY <1>3, CrashOrder
<1>4. ASSUME NEW w \in Writer, Post(w) PROVE OrderInv'
  <2>1. Head(chain) \in Seq(Row) /\ Head(chain) = chain[1] /\ 1 \in DOMAIN chain
    BY <1>0, <1>4 DEF Post
  <2>2. Follows(Head(chain), Settled)
    <3>1. Follows(chain[1], Settled \cup FirstBatches(chain, 1 - 1))
      BY <2>1 DEF OrderInv, InLine
    <3>2. FirstBatches(chain, 1 - 1) = {}
      BY DEF FirstBatches
    <3>3. QED
      BY <2>1, <3>1, <3>2
  <2>3. [IdleWriter EXCEPT !.step = "sent", !.entries = Head(chain)] \in WriterRecord
    BY <2>1 DEF IdleWriter, WriterRecord, Steps
  <2>4. PICK tx \in WriterRecord :
          tx = [IdleWriter EXCEPT !.step = "sent", !.entries = Head(chain)]
    BY <2>3
  <2>5. tx.step = "sent" /\ tx.entries = Head(chain)
    BY <2>4 DEF IdleWriter
  <2>6. writer' = [writer EXCEPT ![w] = tx] /\ writer[w].step = "idle" /\ waiting' = w
        /\ UNCHANGED <<emitted, pending, chain, dropped, rows>>
    BY <1>4, <2>4 DEF Post, Request
  <2>7. QED
    BY <2>2, <2>5, <2>6, WriterBegins
<1>5. ASSUME NEW w \in Writer, Receive(w) PROVE OrderInv'
  <2>1. waiting = w /\ writer[w].step = "done" /\ chain # <<>>
    BY <1>5, ConstantsOK DEF Receive, IInv, Types, Batches
  <2>2. EventsOf(Head(chain)) \subseteq EventsOf(rows)
    BY <2>1, ConstantsOK DEF OrderInv, Awaited
  <2>3. \A u \in Writer : writer'[u] = writer[u] \/ writer'[u].step = "idle"
    BY <1>0, <1>5, IdleWriterType DEF Receive
  <2>4. waiting' = None /\ chain' = Tail(chain) /\ UNCHANGED <<emitted, pending, dropped, rows>>
    BY <1>5 DEF Receive
  <2>5. QED
    BY <2>1, <2>2, <2>3, <2>4, AttemptEnds
<1>6. ASSUME NEW w \in Writer,
             LoseAnswer(w) \/ \E final \in BOOLEAN : FailUpload(w, final)
      PROVE  OrderInv'
  <2>1. PICK final \in BOOLEAN : waiting # None /\ AfterFailure(final)
                               /\ UNCHANGED <<emitted, pending, rows>>
    BY <1>6, ConstantsOK DEF FailUpload, LoseAnswer
  <2>2. \A u \in Writer : writer'[u] = writer[u] \/ writer'[u].step = "idle"
    BY <1>0, <1>6, IdleWriterType DEF FailUpload, LoseAnswer
  <2>3. QED
    BY <2>1, <2>2, FailureSettles, AttemptEnds
<1>7. ASSUME NEW w \in Writer, RecordCall(w) PROVE OrderInv'
  <2> DEFINE entries == <<[source |-> "mcp", event |-> 0, kind |-> "tool"]>>
  <2>1. entries \in Seq(Row) /\ Follows(entries, Settled)
    BY RowTypes DEF Follows
  <2>2. PICK e \in Seq(Row) : e = entries
    BY <2>1
  <2>3. [IdleWriter EXCEPT !.step = "sent", !.entries = e] \in WriterRecord
    BY DEF IdleWriter, WriterRecord, Steps
  <2>4. PICK tx \in WriterRecord : tx = [IdleWriter EXCEPT !.step = "sent", !.entries = e]
    BY <2>3
  <2>5. tx.step = "sent" /\ tx.entries = e
    BY <2>4 DEF IdleWriter
  <2>6. writer' = [writer EXCEPT ![w] = tx] /\ writer[w].step = "idle"
        /\ UNCHANGED <<emitted, pending, chain, dropped, rows, waiting>>
    BY <1>7, <2>2, <2>4 DEF RecordCall, Request, adapter
  <2>7. QED
    BY <2>1, <2>2, <2>5, <2>6, WriterBegins
<1>8. ASSUME NEW w \in Writer, Interrupt(w) PROVE OrderInv'
  <2> DEFINE entries == <<[source |-> "interruption", event |-> 0, kind |-> "text"]>>
  <2>1. entries \in Seq(Row) /\ Follows(entries, Settled)
    BY RowTypes DEF Follows
  <2>2. PICK e \in Seq(Row) : e = entries
    BY <2>1
  <2>3. [IdleWriter EXCEPT !.step = "locked", !.entries = e] \in WriterRecord
    BY DEF IdleWriter, WriterRecord, Steps
  <2>4. PICK tx \in WriterRecord : tx = [IdleWriter EXCEPT !.step = "locked", !.entries = e]
    BY <2>3
  <2>5. tx.step = "locked" /\ tx.entries = e
    BY <2>4 DEF IdleWriter
  <2>6. writer' = [writer EXCEPT ![w] = tx] /\ writer[w].step = "idle"
        /\ UNCHANGED <<emitted, pending, chain, dropped, rows, waiting>>
    BY <1>8, <2>2, <2>4 DEF Interrupt, adapter
  <2>7. QED
    BY <2>1, <2>2, <2>5, <2>6, WriterBegins
<1>9. ASSUME NEW w \in Writer, ForUpdate(w) \/ ReadMaxSeq(w) PROVE OrderInv'
  <2>1. Len(rows) \in Nat /\ writer[w].step \in {"sent", "locked"}
        /\ UNCHANGED <<adapter, rows>>
    BY <1>0, <1>9 DEF ForUpdate, ReadMaxSeq
  <2>2. PICK tx \in WriterRecord : /\ writer' = [writer EXCEPT ![w] = tx]
                                   /\ tx.entries = writer[w].entries
                                   /\ tx.step \in {"locked", "counted"}
    <3>1. CASE ForUpdate(w)
      <4>1. [writer[w] EXCEPT !.step = "locked"] \in WriterRecord
        BY <1>0 DEF WriterRecord, Steps
      <4>2. writer' = [writer EXCEPT ![w] = [writer[w] EXCEPT !.step = "locked"]]
        BY <1>0, <3>1 DEF ForUpdate
      <4>3. QED
        BY <1>0, <4>1, <4>2 DEF WriterRecord
    <3>2. CASE ReadMaxSeq(w)
      <4>1. [writer[w] EXCEPT !.step = "counted", !.base = Len(rows)] \in WriterRecord
        BY <1>0, <2>1 DEF WriterRecord, Steps
      <4>2. writer' = [writer EXCEPT ![w] = [writer[w] EXCEPT !.step = "counted",
                                                             !.base = Len(rows)]]
        BY <1>0, <3>2 DEF ReadMaxSeq
      <4>3. QED
        BY <1>0, <4>1, <4>2 DEF WriterRecord
    <3>3. QED
      BY <1>9, <3>1, <3>2
  <2>3. QED
    BY <2>1, <2>2, WriterMoves
<1>10. ASSUME NEW w \in Writer, InsertEntries(w) PROVE OrderInv'
  BY <1>10, InsertOrder
<1>11. ASSUME UNCHANGED <<adapter, board>> PROVE OrderInv'
  <2>1. /\ UNCHANGED <<emitted, pending, chain, waiting, dropped, writer, rows>>
        /\ Settled' = Settled
    BY <1>11 DEF adapter, board, Settled, EventsOf
  <2>2. InLine'
    BY <2>1, InLineKept DEF OrderInv
  <2>3. Awaited' /\ \A w \in Writer : Storable(w)'
    BY <2>1 DEF OrderInv, Awaited, Storable
  <2>4. QED
    BY <2>1, <2>2, <2>3 DEF OrderInv
<1>12. QED
  BY <1>1, <1>2, <1>3, <1>4, <1>5, <1>6, <1>7, <1>8, <1>9, <1>10, <1>11
     DEF Next, Step, vars, Load, Poll, Reset, FailFetch, ServeFetch, ApplyLoad, ApplyPoll

\* What has been stored tells nothing before what came earlier, unless the adapter
\* gave this up: however many attempts of one batch arrive, and however late.
THEOREM StoredAsEmitted == Spec => []StoredInOrder
<1>1. IInv /\ OrderInv => StoredInOrder
  <2> SUFFICES ASSUME IInv, OrderInv, NEW n \in 1 .. emitted, NEW m \in 1 .. n - 1,
                      m \notin dropped, NEW s \in Stored(n)
               PROVE  \E r \in Stored(m) : r < s
    BY DEF StoredInOrder
  <2>1. s \in DOMAIN rows /\ rows[s].event = n
    BY DEF Stored
  <2>2. PICK r \in 1 .. s - 1 : rows[r].event = m
    BY <2>1 DEF OrderInv, Follows
  <2>3. rows \in Seq(Row) /\ emitted \in Nat
    BY DEF IInv, Types, Batches
  <2>4. r \in DOMAIN rows /\ r < s /\ m >= 1
    BY <2>1, <2>2, <2>3
  <2>5. rows[r] \in Row
    BY <2>3, <2>4
  <2>6. rows[r].source = "adapter"
    BY <2>2, <2>4, <2>5 DEF Row
  <2>7. QED
    BY <2>2, <2>4, <2>6 DEF Stored
<1>2. QED
  BY <1>1, InitLocked, NextLocked, InitOrder, NextOrder, PTL DEF Spec

-----------------------------------------------------------------------------
(* What the page shows.                                                     *)

\* The sequence shows the seqs of the set up to a mark.
Shows(v, top, S) ==
  /\ v \in Seq(Nat)
  /\ \A s \in S : s <= top => \E k \in DOMAIN v : v[k] = s

\* The answer goes on from a mark up to its own last seq.
Continues(q, after, S) ==
  /\ q \in Seq(Nat)
  /\ \A i \in DOMAIN q : q[i] > after
  /\ \A i, j \in DOMAIN q : i < j => q[i] < q[j]
  /\ q # <<>> => \A s \in S : after < s /\ s <= LastOf(q) => \E i \in DOMAIN q : q[i] = s

\* What the page shows is complete up to a mark, unless it has replaced what it showed
\* while a poll was under way.
Covered(top) == overtaken \/ (view # None /\ Shows(view, top, Visible))

\* A load has itself what it goes on from, a poll goes on from what the page shows.
Fetching(f) ==
  fetch[f].step \in {"asked", "answered"} =>
    /\ fetch[f].after \in 0 .. Len(rows)
    /\ fetch[f].kind = "load" => Shows(fetch[f].got, fetch[f].after, Visible)
    /\ fetch[f].kind = "poll" => Covered(fetch[f].after)
    /\ fetch[f].step = "answered" =>
         /\ Continues(fetch[f].answer, fetch[f].after, Visible)
         /\ fetch[f].answer # <<>> => LastOf(fetch[f].answer) <= Len(rows)

PageInv ==
  /\ fetch \in [Fetch -> FetchRecord]
  /\ mark \in 0 .. Len(rows)
  /\ view # None => Covered(mark)
  /\ \A f \in Fetch : Fetching(f)

\* What becomes of the history: it is not forgotten while a poll is under way.
LEMMA Remembered ==
  ASSUME [Next]_vars
  PROVE  /\ view' = view => overtaken' = overtaken
         /\ PollUnderWay /\ overtaken => overtaken'
         /\ \A f \in Fetch : /\ view' # view /\ PollUnderWay /\ (Reset(f) \/ ApplyLoad(f))
                             => overtaken'
<1>1. CASE UNCHANGED vars
  BY <1>1 DEF vars, page
<1>2. CASE Next
  <2>1. Replaced => overtaken' = PollUnderWay
    BY <1>2 DEF Next, Remember
  <2>2. ~Replaced => overtaken' = overtaken
    BY <1>2 DEF Next, Remember
  <2>3. view' = view => ~Replaced
    BY DEF Replaced
  <2>4. \A f \in Fetch : view' # view /\ (Reset(f) \/ ApplyLoad(f)) => Replaced
    BY DEF Replaced
  <2>5. QED
    BY <2>1, <2>2, <2>3, <2>4
<1>3. QED
  BY <1>1, <1>2

\* What is shown stays so when fewer seqs are to be shown up to the mark.
LEMMA ShowsFewer ==
  ASSUME NEW v, NEW top, NEW S, NEW T, Shows(v, top, S),
         \A s \in T : s <= top => s \in S
  PROVE  Shows(v, top, T)
  BY DEF Shows

\* An answer goes on when fewer seqs are to be in it.
LEMMA ContinuesFewer ==
  ASSUME NEW q, NEW after, NEW S, NEW T, Continues(q, after, S),
         q # <<>> => \A s \in T : s <= LastOf(q) => s \in S
  PROVE  Continues(q, after, T)
  BY DEF Continues

\* An answer put behind what it goes on from shows as far as the answer goes.
LEMMA ShowsOn ==
  ASSUME NEW v, NEW after \in Nat, NEW q, NEW S \in SUBSET Nat,
         Shows(v, after, S), Continues(q, after, S), q # <<>>
  PROVE  /\ Shows(v \o q, LastOf(q), S)
         /\ v \o q # <<>> /\ LastOf(v \o q) = LastOf(q) /\ LastOf(q) \in Nat
<1>1. v \in Seq(Nat) /\ q \in Seq(Nat)
  BY DEF Shows, Continues
<1>2. /\ v \o q \in Seq(Nat) /\ Len(v \o q) = Len(v) + Len(q)
      /\ \A i \in 1 .. Len(v) : (v \o q)[i] = v[i]
      /\ \A i \in 1 .. Len(q) : (v \o q)[Len(v) + i] = q[i]
  BY <1>1, ConcatProperties
<1>3. /\ DOMAIN v = 1 .. Len(v) /\ DOMAIN q = 1 .. Len(q)
      /\ Len(v) \in Nat /\ Len(q) \in Nat /\ Len(q) >= 1
      /\ DOMAIN (v \o q) = 1 .. Len(v) + Len(q)
  BY <1>1, <1>2
<1>4. LastOf(q) \in Nat
  BY <1>1, <1>3 DEF LastOf
<1>5. ASSUME NEW s \in S, s <= LastOf(q) PROVE \E k \in DOMAIN (v \o q) : (v \o q)[k] = s
  <2>0. s \in Nat
    OBVIOUS
  <2>1. CASE s <= after
    <3>1. PICK k \in DOMAIN v : v[k] = s
      BY <2>1 DEF Shows
    <3>2. QED
      BY <1>2, <1>3, <3>1
  <2>2. CASE after < s
    <3>1. PICK k \in DOMAIN q : q[k] = s
      BY <1>5, <2>2 DEF Continues
    <3>2. Len(v) + k \in DOMAIN (v \o q) /\ (v \o q)[Len(v) + k] = s
      BY <1>2, <1>3, <3>1
    <3>3. QED
      BY <3>2
  <2>3. QED
    BY <2>0, <2>1, <2>2
<1>6. Shows(v \o q, LastOf(q), S)
  BY <1>2, <1>5 DEF Shows
<1>7. LastOf(v \o q) = LastOf(q)
  BY <1>2, <1>3 DEF LastOf
<1>8. QED
  BY <1>2, <1>3, <1>4, <1>6, <1>7

\* What is put behind what is shown takes nothing of it away.
LEMMA ShowsMore ==
  ASSUME NEW v, NEW top, NEW S, NEW q \in Seq(Nat), Shows(v, top, S)
  PROVE  Shows(v \o q, top, S)
<1>1. v \in Seq(Nat)
  BY DEF Shows
<1>2. /\ v \o q \in Seq(Nat) /\ \A i \in DOMAIN v : i \in DOMAIN (v \o q) /\ (v \o q)[i] = v[i]
  BY <1>1
<1>3. ASSUME NEW s \in S, s <= top PROVE \E k \in DOMAIN (v \o q) : (v \o q)[k] = s
  <2>1. PICK k \in DOMAIN v : v[k] = s
    BY <1>3 DEF Shows
  <2>2. QED
    BY <1>2, <2>1
<1>4. QED
  BY <1>2, <1>3 DEF Shows

\* The first seqs of a set, in order, go on from the mark below the set.
LEMMA FirstContinue ==
  ASSUME NEW S \in SUBSET Nat, IsFiniteSet(S), NEW after \in Nat, NEW n \in Nat,
         NEW q \in Ascending(FirstOf({s \in S : s > after}, n))
  PROVE  /\ Continues(q, after, S)
         /\ q # <<>> => LastOf(q) \in S
<1> DEFINE newer == {s \in S : s > after}
           first == FirstOf(newer, n)
<1>1. newer \subseteq S /\ newer \subseteq Nat /\ first \subseteq newer
  BY DEF FirstOf
<1>2. IsFiniteSet(newer) /\ IsFiniteSet(first)
  BY <1>1, FS_Subset
<1>3. Cardinality(first) \in Nat
  BY <1>2, FS_CardinalityType
<1>4. ASSUME NEW s \in first, NEW t \in newer, t < s PROVE t \in first
  <2> DEFINE belowS == {u \in newer : u < s}
             belowT == {u \in newer : u < t}
  <2>1. belowT \subseteq belowS
    BY <1>1, <1>4
  <2>2. belowS \subseteq newer
    OBVIOUS
  <2>3. IsFiniteSet(belowS) /\ IsFiniteSet(belowT)
    BY <1>2, <2>1, <2>2, FS_Subset
  <2>4. Cardinality(belowS) \in Nat /\ Cardinality(belowT) \in Nat
        /\ Cardinality(belowT) <= Cardinality(belowS)
    BY <2>1, <2>3, FS_CardinalityType, FS_Subset
  <2>5. Cardinality(belowS) < n
    BY DEF FirstOf
  <2>6. QED
    BY <2>4, <2>5 DEF FirstOf
<1> HIDE DEF newer, first
<1>5. /\ q \in [1 .. Cardinality(first) -> first]
      /\ \A s \in first : \E i \in DOMAIN q : q[i] = s
      /\ \A i, j \in DOMAIN q : i < j => q[i] < q[j]
  BY DEF Ascending, newer, first
<1>6. q \in Seq(first) /\ q \in Seq(Nat)
  <2>1. q \in Seq(first)
    BY <1>3, <1>5, SeqDef
  <2>2. first \subseteq Nat
    BY <1>1
  <2>3. QED
    BY <2>1, <2>2, SeqMonotonic
<1>7. \A i \in DOMAIN q : q[i] > after
  BY <1>1, <1>5 DEF newer
<1>8. q # <<>> => LastOf(q) \in first
  <2>1. q # <<>> => Len(q) \in DOMAIN q
    BY <1>6
  <2>2. QED
    BY <1>5, <2>1 DEF LastOf
<1>9. q # <<>> => \A s \in S : after < s /\ s <= LastOf(q) => \E i \in DOMAIN q : q[i] = s
  <2> SUFFICES ASSUME q # <<>>, NEW s \in S, after < s, s <= LastOf(q)
               PROVE  \E i \in DOMAIN q : q[i] = s
    OBVIOUS
  <2>1. s \in newer
    BY DEF newer
  <2>2. s \in first
    <3>1. LastOf(q) \in first /\ LastOf(q) \in Nat /\ s \in Nat
      BY <1>1, <1>8
    <3>2. s = LastOf(q) \/ s < LastOf(q)
      BY <3>1
    <3>3. QED
      BY <1>4, <2>1, <3>1, <3>2
  <2>3. QED
    BY <1>5, <2>2
<1>10. QED
  BY <1>1, <1>5, <1>6, <1>7, <1>8, <1>9 DEF Continues

\* Rows are only put behind the others.
LEMMA RowsGrow ==
  ASSUME IInv, [Next]_vars
  PROVE  rows' = rows \/ \E more \in Seq(Row) : rows' = rows \o more
<1>1. ASSUME NEW w \in Writer, InsertEntries(w)
      PROVE  rows' = rows \/ \E more \in Seq(Row) : rows' = rows \o more
  <2>1. writer[w].entries \in Seq(Row)
    BY DEF IInv, Types, WriterRecord
  <2>2. QED
    BY <1>1, <2>1 DEF InsertEntries
<1>2. QED
  BY <1>1 DEF Next, Step, vars, adapter, board, page, Emit, FlushPending, Crash, Post, Receive,
       FailUpload, LoseAnswer, RecordCall, Interrupt, ForUpdate, ReadMaxSeq,
       Load, Poll, Reset, FailFetch, ServeFetch, ApplyLoad, ApplyPoll

\* A row never becomes visible later than when it is stored.
LEMMA VisibleStays ==
  ASSUME IInv, [Next]_vars
  PROVE  /\ Len(rows) \in Nat /\ Len(rows') \in Nat /\ Len(rows) <= Len(rows')
         /\ \A s \in Visible' : s <= Len(rows) => s \in Visible
<1>1. rows \in Seq(Row)
  BY DEF IInv, Types
<1>2. CASE rows' = rows
  BY <1>1, <1>2 DEF Visible, shouldOmitMcpToolDuplicates
<1>3. ASSUME NEW more \in Seq(Row), rows' = rows \o more
      PROVE  /\ Len(rows) \in Nat /\ Len(rows') \in Nat /\ Len(rows) <= Len(rows')
             /\ \A s \in Visible' : s <= Len(rows) => s \in Visible
  <2>1. /\ Len(rows') = Len(rows) + Len(more) /\ rows' \in Seq(Row)
        /\ \A s \in 1 .. Len(rows) : rows'[s] = rows[s]
    BY <1>1, <1>3, ConcatProperties
  <2>2. /\ Len(rows) \in Nat /\ Len(more) \in Nat /\ DOMAIN rows = 1 .. Len(rows)
        /\ DOMAIN rows' = 1 .. Len(rows')
    BY <1>1, <2>1
  <2>3. shouldOmitMcpToolDuplicates => shouldOmitMcpToolDuplicates'
    <3> SUFFICES ASSUME NEW s \in DOMAIN rows, rows[s].source = "adapter", rows[s].kind = "tool"
                 PROVE  \E t \in DOMAIN rows' : rows'[t].source = "adapter" /\ rows'[t].kind = "tool"
      BY DEF shouldOmitMcpToolDuplicates
    <3>1. s \in DOMAIN rows' /\ rows'[s] = rows[s]
      BY <2>1, <2>2
    <3>2. QED
      BY <3>1
  <2>4. ASSUME NEW s \in Visible', s <= Len(rows) PROVE s \in Visible
    <3>1. s \in DOMAIN rows' /\ (rows'[s].source = "mcp" => ~shouldOmitMcpToolDuplicates')
      BY <2>4 DEF Visible
    <3>2. s \in DOMAIN rows /\ rows'[s] = rows[s]
      BY <2>1, <2>2, <2>4, <3>1
    <3>3. QED
      BY <2>3, <3>1, <3>2 DEF Visible
  <2>5. QED
    BY <2>1, <2>2, <2>4
<1>4. QED
  BY <1>2, <1>3, RowsGrow

\* A row stored up to a mark of the page does not become visible later.
LEMMA VisibleBelow ==
  ASSUME IInv, [Next]_vars, NEW top \in 0 .. Len(rows)
  PROVE  \A s \in Visible' : s <= top => s \in Visible
<1> SUFFICES ASSUME NEW s \in Visible', s <= top PROVE s \in Visible
  OBVIOUS
<1>1. s \in Nat
  BY VisibleStays DEF Visible, IInv, Types
<1>2. s <= Len(rows)
  BY <1>1, VisibleStays
<1>3. QED
  BY <1>2, VisibleStays

\* What is shown stays complete up to a mark when it is left as it is.
LEMMA CoveredStays ==
  ASSUME IInv, [Next]_vars, UNCHANGED view, NEW top \in 0 .. Len(rows), Covered(top)
  PROVE  overtaken' \/ (view' # None /\ Shows(view', top, Visible'))
<1>1. overtaken' = overtaken
  BY Remembered
<1>2. CASE overtaken
  BY <1>1, <1>2
<1>3. CASE view # None /\ Shows(view, top, Visible)
  BY <1>3, VisibleBelow, ShowsFewer
<1>4. QED
  BY <1>2, <1>3 DEF Covered

\* A request under way goes on from what it went on from, when what is shown is left
\* as it is.
LEMMA FetchingKept ==
  ASSUME IInv, PageInv, [Next]_vars, NEW f \in Fetch, fetch'[f] = fetch[f],
         UNCHANGED view
  PROVE  Fetching(f)'
<1> SUFFICES ASSUME fetch[f].step \in {"asked", "answered"}
             PROVE  Fetching(f)'
  BY DEF Fetching
<1>1. Fetching(f) /\ fetch[f].after \in 0 .. Len(rows)
  BY DEF PageInv, Fetching
<1>2. fetch[f].after \in 0 .. Len(rows')
  BY <1>1, VisibleStays
<1>3. fetch[f].kind = "load" => Shows(fetch[f].got, fetch[f].after, Visible')
  <2>1. \A s \in Visible' : s <= fetch[f].after => s \in Visible
    BY <1>1, VisibleBelow
  <2>2. QED
    BY <1>1, <2>1, ShowsFewer DEF Fetching
<1>4. fetch[f].kind = "poll"
      => overtaken' \/ (view' # None /\ Shows(view', fetch[f].after, Visible'))
  BY <1>1, CoveredStays DEF Fetching
<1>5. ASSUME fetch[f].step = "answered"
      PROVE  /\ Continues(fetch[f].answer, fetch[f].after, Visible')
             /\ fetch[f].answer # <<>> => LastOf(fetch[f].answer) <= Len(rows')
  <2>1. /\ Continues(fetch[f].answer, fetch[f].after, Visible)
        /\ fetch[f].answer # <<>> => LastOf(fetch[f].answer) <= Len(rows)
    BY <1>1, <1>5 DEF Fetching
  <2>2. fetch[f].answer # <<>> => LastOf(fetch[f].answer) \in Nat
    <3>1. fetch[f].answer \in Seq(Nat)
      BY DEF PageInv, FetchRecord
    <3>2. fetch[f].answer # <<>> => Len(fetch[f].answer) \in DOMAIN fetch[f].answer
      BY <3>1
    <3>3. QED
      BY <3>1, <3>2 DEF LastOf
  <2>3. fetch[f].answer # <<>> =>
          \A s \in Visible' : s <= LastOf(fetch[f].answer) => s \in Visible
    <3>1. fetch[f].answer # <<>> => LastOf(fetch[f].answer) \in 0 .. Len(rows)
      BY <2>1, <2>2, VisibleStays
    <3>2. QED
      BY <3>1, VisibleBelow
  <2>4. Continues(fetch[f].answer, fetch[f].after, Visible')
    BY <2>1, <2>3, ContinuesFewer
  <2>5. QED
    BY <2>1, <2>2, <2>4, VisibleStays
<1>6. QED
  BY <1>1, <1>2, <1>3, <1>4, <1>5 DEF Fetching, Covered

\* What happens elsewhere leaves the page as it is.
LEMMA PageKept ==
  ASSUME IInv, PageInv, [Next]_vars, UNCHANGED page
  PROVE  PageInv'
<1>1. UNCHANGED <<view, mark, fetch>>
  BY DEF page
<1>2. mark' \in 0 .. Len(rows') /\ mark \in 0 .. Len(rows)
  BY <1>1, VisibleStays DEF PageInv
<1>3. view' # None => Covered(mark)'
  BY <1>1, <1>2, CoveredStays DEF PageInv, Covered
<1>4. \A f \in Fetch : Fetching(f)'
  BY <1>1, FetchingKept
<1>5. fetch' \in [Fetch -> FetchRecord]
  BY <1>1 DEF PageInv
<1>6. QED
  BY <1>2, <1>3, <1>4, <1>5 DEF PageInv

\* A poll is under way.
PollIn(f) == fetch[f].step \in {"asked", "answered"} /\ fetch[f].kind = "poll"

\* The page after a step of one of its requests: the polls under way besides it still go
\* on from what is shown.
LEMMA RequestStep ==
  ASSUME IInv, PageInv, UNCHANGED board, NEW f \in Fetch, NEW r \in FetchRecord,
         fetch' = [fetch EXCEPT ![f] = r], mark' \in 0 .. Len(rows),
         view' # None => overtaken' \/ Shows(view', mark', Visible),
         \A g \in Fetch \ {f} : PollIn(g) =>
           overtaken' \/ (view' # None /\ Shows(view', fetch[g].after, Visible)),
         r.step \in {"asked", "answered"} =>
           /\ r.after \in 0 .. Len(rows)
           /\ r.kind = "load" => Shows(r.got, r.after, Visible)
           /\ r.kind = "poll" =>
                overtaken' \/ (view' # None /\ Shows(view', r.after, Visible))
           /\ r.step = "answered" =>
                /\ Continues(r.answer, r.after, Visible)
                /\ r.answer # <<>> => LastOf(r.answer) <= Len(rows)
  PROVE  PageInv'
<1>1. /\ fetch' \in [Fetch -> FetchRecord] /\ fetch'[f] = r
      /\ \A g \in Fetch \ {f} : fetch'[g] = fetch[g]
  BY DEF PageInv
<1>2. rows' = rows /\ Visible' = Visible
  BY DEF board, Visible, shouldOmitMcpToolDuplicates
<1>3. Fetching(f)'
  BY <1>1, <1>2 DEF Fetching, Covered
<1>4. ASSUME NEW g \in Fetch \ {f} PROVE Fetching(g)'
  <2>1. Fetching(g)
    BY DEF PageInv
  <2>2. fetch'[g] = fetch[g]
    BY <1>1
  <2>3. PollIn(g) => overtaken' \/ (view' # None /\ Shows(view', fetch[g].after, Visible))
    OBVIOUS
  <2>4. QED
    BY <1>2, <2>1, <2>2, <2>3 DEF Fetching, Covered, PollIn
<1>5. \A g \in Fetch : Fetching(g)'
  BY <1>3, <1>4
<1>6. view' # None => Covered(mark)'
  BY <1>2 DEF Covered
<1>7. QED
  BY <1>1, <1>2, <1>5, <1>6 DEF PageInv

\* A step that replaces what is shown by what is complete is remembered when a poll is
\* under way.
LEMMA OthersRemembered ==
  ASSUME PageInv, [Next]_vars, NEW f \in Fetch, Reset(f) \/ ApplyLoad(f),
         NEW g \in Fetch, PollIn(g)
  PROVE  overtaken' \/ (view' # None /\ Shows(view', fetch[g].after, Visible))
<1>1. PollUnderWay
  BY DEF PollIn, PollUnderWay
<1>2. CASE view' # view
  BY <1>1, <1>2, Remembered
<1>3. CASE view' = view
  BY <1>1, <1>3, Remembered DEF PageInv, Fetching, PollIn, Covered
<1>4. QED
  BY <1>2, <1>3

\* A page that asks nothing.
LEMMA IdleFetchType == IdleFetch \in FetchRecord /\ IdleFetch.step = "idle"
<1>1. <<>> \in Seq(Nat)
  OBVIOUS
<1>2. QED
  BY <1>1 DEF IdleFetch, FetchRecord

\* Nothing is to be shown before the first row.
LEMMA NothingToShow == ASSUME IInv PROVE Shows(<<>>, 0, Visible)
<1>1. \A s \in Visible : ~(s <= 0)
  BY DEF Visible, IInv, Types
<1>2. <<>> \in Seq(Nat) /\ DOMAIN <<>> = {}
  OBVIOUS
<1>3. QED
  BY <1>1, <1>2 DEF Shows

\* A request that the page makes.
LEMMA Asked ==
  ASSUME NEW f \in Fetch, NEW kind \in {"load", "poll"}, NEW after \in Nat, NEW got \in Seq(Nat),
         Ask(f, kind, after, got)
  PROVE  \E r \in FetchRecord : /\ fetch' = [fetch EXCEPT ![f] = r]
                                /\ r.step = "asked" /\ r.kind = kind
                                /\ r.after = after /\ r.got = got
<1> DEFINE r == [IdleFetch EXCEPT !.step = "asked", !.kind = kind, !.after = after, !.got = got]
<1>1. <<>> \in Seq(Nat)
  OBVIOUS
<1>2. r \in FetchRecord
  BY <1>1 DEF IdleFetch, FetchRecord
<1>3. r.step = "asked" /\ r.kind = kind /\ r.after = after /\ r.got = got
  BY DEF IdleFetch
<1>4. fetch' = [fetch EXCEPT ![f] = r]
  BY DEF Ask
<1> HIDE DEF r
<1>5. QED
  BY <1>2, <1>3, <1>4

\* A request that the page makes with nothing loaded before.
LEMMA AskedAnew ==
  ASSUME NEW f \in Fetch, NEW kind \in {"load", "poll"}, NEW after \in Nat,
         Ask(f, kind, after, <<>>)
  PROVE  \E r \in FetchRecord : /\ fetch' = [fetch EXCEPT ![f] = r]
                                /\ r.step = "asked" /\ r.kind = kind
                                /\ r.after = after /\ r.got = <<>>
<1>0. <<>> \in Seq(Nat)
  OBVIOUS
<1>1. PICK got \in Seq(Nat) : got = <<>>
  BY <1>0
<1>2. Ask(f, kind, after, got)
  BY <1>1
<1>3. PICK r \in FetchRecord : /\ fetch' = [fetch EXCEPT ![f] = r]
                               /\ r.step = "asked" /\ r.kind = kind
                               /\ r.after = after /\ r.got = got
  BY <1>2, Asked
<1>4. QED
  BY <1>1, <1>3

\* The page is complete up to its mark, and so is what each of its requests goes on from.
LEMMA NextPage == IInv /\ PageInv /\ [Next]_vars => PageInv'
<1> SUFFICES ASSUME IInv, PageInv, [Next]_vars PROVE PageInv'
  OBVIOUS
<1>0. /\ rows \in Seq(Row) /\ Len(rows) \in Nat /\ fetch \in [Fetch -> FetchRecord]
      /\ mark \in 0 .. Len(rows)
  BY DEF IInv, Types, PageInv
<1>k. ASSUME UNCHANGED board, UNCHANGED view, UNCHANGED mark
      PROVE  /\ view' # None => overtaken' \/ Shows(view', mark', Visible)
             /\ \A g \in Fetch : PollIn(g) =>
                  overtaken' \/ (view' # None /\ Shows(view', fetch[g].after, Visible))
  <2>1. overtaken' = overtaken
    BY <1>k, Remembered
  <2>2. QED
    BY <1>k, <2>1 DEF PageInv, Fetching, PollIn, Covered
<1>1. ASSUME NEW f \in Fetch, Load(f) PROVE PageInv'
  <2>0. Ask(f, "load", 0, <<>>)
    BY <1>1 DEF Load
  <2>1. UNCHANGED <<board, view, mark>>
    BY <1>1 DEF Load
  <2>2. "load" \in {"load", "poll"} /\ 0 \in Nat /\ <<>> \in Seq(Nat)
    OBVIOUS
  <2>3. PICK r \in FetchRecord : /\ fetch' = [fetch EXCEPT ![f] = r] /\ r.step = "asked"
                                 /\ r.kind = "load" /\ r.after = 0 /\ r.got = <<>>
    BY <2>0, <2>2, AskedAnew
  <2>4. 0 \in 0 .. Len(rows)
    BY <1>0
  <2>5. QED
    BY <1>0, <1>k, <2>1, <2>3, <2>4, NothingToShow, RequestStep
<1>2. ASSUME NEW f \in Fetch, Reset(f) PROVE PageInv'
  <2>0. Ask(f, "load", 0, <<>>)
    BY <1>2 DEF Reset
  <2>1. UNCHANGED board /\ view' = None /\ mark' = 0
    BY <1>2 DEF Reset
  <2>2. "load" \in {"load", "poll"} /\ 0 \in Nat /\ <<>> \in Seq(Nat)
    OBVIOUS
  <2>3. PICK r \in FetchRecord : /\ fetch' = [fetch EXCEPT ![f] = r] /\ r.step = "asked"
                                 /\ r.kind = "load" /\ r.after = 0 /\ r.got = <<>>
    BY <2>0, <2>2, AskedAnew
  <2>4. 0 \in 0 .. Len(rows)
    BY <1>0
  <2>5. \A g \in Fetch \ {f} : PollIn(g) =>
          overtaken' \/ (view' # None /\ Shows(view', fetch[g].after, Visible))
    BY <1>2, OthersRemembered
  <2>6. QED
    BY <1>0, <2>1, <2>3, <2>4, <2>5, NothingToShow, RequestStep
<1>3. ASSUME NEW f \in Fetch, Poll(f) PROVE PageInv'
  <2>0. Ask(f, "poll", mark, <<>>)
    BY <1>3 DEF Poll
  <2>1. UNCHANGED <<board, view, mark>> /\ view # None
    BY <1>3 DEF Poll
  <2>2. "poll" \in {"load", "poll"} /\ mark \in Nat /\ <<>> \in Seq(Nat)
    BY <1>0
  <2>3. PICK r \in FetchRecord : /\ fetch' = [fetch EXCEPT ![f] = r] /\ r.step = "asked"
                                 /\ r.kind = "poll" /\ r.after = mark /\ r.got = <<>>
    BY <2>0, <2>2, AskedAnew
  <2>4. overtaken' \/ (view' # None /\ Shows(view', mark, Visible))
    BY <1>k, <2>1
  <2>5. QED
    BY <1>0, <1>k, <2>1, <2>3, <2>4, RequestStep
<1>4. ASSUME NEW f \in Fetch, FailFetch(f) PROVE PageInv'
  <2>1. fetch' = [fetch EXCEPT ![f] = IdleFetch] /\ UNCHANGED <<board, view, mark>>
    BY <1>4 DEF FailFetch, Done
  <2>2. QED
    BY <1>0, <1>k, <2>1, IdleFetchType, RequestStep
<1>5. ASSUME NEW f \in Fetch, ServeFetch(f) PROVE PageInv'
  <2>1. UNCHANGED board /\ UNCHANGED <<view, mark>> /\ fetch[f].step = "asked"
    BY <1>5 DEF ServeFetch
  <2> DEFINE newer == {s \in Visible : s > fetch[f].after}
             limit == IF fetch[f].kind = "load" THEN LoadPage ELSE PollPage
             more == Cardinality(newer) > limit
  <2>2. PICK answer \in Ascending(FirstOf(newer, limit)) :
          fetch' = [fetch EXCEPT ![f] = [fetch[f] EXCEPT !.step = "answered", !.answer = answer,
                                                         !.more = more]]
    BY <1>0, <1>5 DEF ServeFetch
  <2>0. limit \in Nat /\ more \in BOOLEAN
    BY ConstantsOK
  <2>3. Fetching(f) /\ fetch[f] \in FetchRecord
    BY <1>0 DEF PageInv
  <2>4. Visible \in SUBSET Nat /\ IsFiniteSet(Visible) /\ Visible \subseteq 1 .. Len(rows)
    <3>1. Visible \subseteq 1 .. Len(rows)
      BY <1>0 DEF Visible
    <3>2. IsFiniteSet(1 .. Len(rows))
      BY <1>0, FS_Interval
    <3>3. IsFiniteSet(Visible)
      BY <3>1, <3>2, FS_Subset
    <3>4. QED
      BY <1>0, <3>1, <3>3
  <2>5. fetch[f].after \in Nat
    BY <2>3 DEF FetchRecord
  <2> HIDE DEF limit, more
  <2>6. Continues(answer, fetch[f].after, Visible) /\ (answer # <<>> => LastOf(answer) \in Visible)
    BY <2>0, <2>4, <2>5, FirstContinue
  <2>7. answer \in Seq(Nat)
    BY <2>6 DEF Continues
  <2>8. answer # <<>> => LastOf(answer) <= Len(rows)
    <3>1. \A s \in Visible : s <= Len(rows)
      BY <1>0, <2>4
    <3>2. QED
      BY <2>6, <3>1
  <2>9. PICK r \in FetchRecord :
          /\ r = [fetch[f] EXCEPT !.step = "answered", !.answer = answer, !.more = more]
          /\ r.step = "answered" /\ r.answer = answer /\ r.after = fetch[f].after
          /\ r.kind = fetch[f].kind /\ r.got = fetch[f].got
    <3>1. [fetch[f] EXCEPT !.step = "answered", !.answer = answer, !.more = more] \in FetchRecord
      BY <2>0, <2>3, <2>7 DEF FetchRecord
    <3>2. QED
      BY <2>3, <3>1 DEF FetchRecord
  <2>10. fetch' = [fetch EXCEPT ![f] = r]
    BY <2>2, <2>9
  <2>11. /\ fetch[f].after \in 0 .. Len(rows)
         /\ fetch[f].kind = "load" => Shows(fetch[f].got, fetch[f].after, Visible)
         /\ fetch[f].kind = "poll" =>
              overtaken' \/ (view' # None /\ Shows(view', fetch[f].after, Visible))
    BY <1>k, <2>1, <2>3 DEF Fetching, PollIn
  <2>12. QED
    BY <1>0, <1>k, <2>1, <2>6, <2>8, <2>9, <2>10, <2>11, RequestStep
<1>6. ASSUME NEW f \in Fetch, ApplyLoad(f) PROVE PageInv'
  <2> DEFINE got == fetch[f].got \o fetch[f].answer
  <2>1. UNCHANGED board /\ Fetching(f) /\ fetch[f].step = "answered" /\ fetch[f].kind = "load"
    BY <1>6 DEF ApplyLoad, PageInv
  <2>2. \A g \in Fetch \ {f} : PollIn(g) =>
          overtaken' \/ (view' # None /\ Shows(view', fetch[g].after, Visible))
    BY <1>6, OthersRemembered
  <2>3. CASE fetch[f].answer = <<>>
    <3>1. mark' = mark /\ fetch' = [fetch EXCEPT ![f] = IdleFetch] /\ (view' = None \/ view' = view)
      BY <1>6, <2>3 DEF ApplyLoad, Done
    <3>2. view' # None => overtaken' \/ Shows(view', mark', Visible)
      <4>1. CASE view' = view
        BY <1>k, <2>1, <3>1, <4>1
      <4>2. QED
        BY <3>1, <4>1
    <3>3. QED
      BY <1>0, <2>1, <2>2, <3>1, <3>2, IdleFetchType, RequestStep
  <2>4. CASE fetch[f].answer # <<>>
    <3>1. fetch[f].after \in Nat /\ Visible \in SUBSET Nat
      BY <1>0 DEF FetchRecord, Visible
    <3>2. /\ Shows(fetch[f].got, fetch[f].after, Visible)
          /\ Continues(fetch[f].answer, fetch[f].after, Visible)
          /\ LastOf(fetch[f].answer) <= Len(rows)
      BY <2>1, <2>4 DEF Fetching
    <3>3. /\ Shows(got, LastOf(fetch[f].answer), Visible)
          /\ LastOf(got) = LastOf(fetch[f].answer) /\ LastOf(fetch[f].answer) \in Nat
      BY <2>4, <3>1, <3>2, ShowsOn
    <3>4. got \in Seq(Nat) /\ LastOf(got) \in 0 .. Len(rows) /\ Shows(got, LastOf(got), Visible)
      <4>1. Shows(got, LastOf(got), Visible)
        BY <3>3
      <4>2. LastOf(got) \in 0 .. Len(rows)
        BY <1>0, <3>2, <3>3
      <4>3. got \in Seq(Nat)
        BY <4>1 DEF Shows
      <4>4. QED
        BY <4>1, <4>2, <4>3
    <3>5. /\ view' = got /\ mark' = LastOf(got)
          /\ \/ fetch' = [fetch EXCEPT ![f] = IdleFetch]
             \/ Ask(f, "load", LastOf(got), got)
      BY <1>6, <2>4 DEF ApplyLoad, Done
    <3> HIDE DEF got
    <3>6. CASE fetch' = [fetch EXCEPT ![f] = IdleFetch]
      BY <2>1, <2>2, <3>4, <3>5, <3>6, IdleFetchType, RequestStep
    <3>7. CASE Ask(f, "load", LastOf(got), got)
      <4>1. "load" \in {"load", "poll"} /\ LastOf(got) \in Nat
        BY <1>0, <3>4
      <4>2. PICK r \in FetchRecord : /\ fetch' = [fetch EXCEPT ![f] = r] /\ r.step = "asked"
                                     /\ r.kind = "load" /\ r.after = LastOf(got) /\ r.got = got
        BY <3>4, <3>7, <4>1, Asked
      <4>3. QED
        BY <2>1, <2>2, <3>4, <3>5, <4>2, RequestStep
    <3>8. QED
      BY <3>5, <3>6, <3>7
  <2>5. QED
    BY <2>3, <2>4
<1>7. ASSUME NEW f \in Fetch, ApplyPoll(f) PROVE PageInv'
  <2>1. /\ UNCHANGED board /\ Fetching(f) /\ fetch[f].step = "answered" /\ fetch[f].kind = "poll"
        /\ fetch' = [fetch EXCEPT ![f] = IdleFetch]
    BY <1>7 DEF ApplyPoll, PageInv, Done
  <2>2. CASE fetch[f].answer = <<>>
    <3>1. UNCHANGED <<view, mark>>
      BY <1>7, <2>2 DEF ApplyPoll
    <3>2. QED
      BY <1>0, <1>k, <2>1, <3>1, IdleFetchType, RequestStep
  <2>3. CASE fetch[f].answer # <<>>
    <3>1. /\ fetch[f].after \in Nat /\ fetch[f].answer \in Seq(Nat) /\ Visible \in SUBSET Nat
      BY <1>0 DEF FetchRecord, Visible
    <3>2. /\ Covered(fetch[f].after) /\ Continues(fetch[f].answer, fetch[f].after, Visible)
          /\ LastOf(fetch[f].answer) <= Len(rows)
      BY <2>1, <2>3 DEF Fetching
    <3>3. mark' = LastOf(fetch[f].answer) /\ mark' \in 0 .. Len(rows)
      <4>1. LastOf(fetch[f].answer) \in Nat
        BY <2>3, <3>1 DEF LastOf
      <4>2. QED
        BY <1>0, <1>7, <2>3, <3>2, <4>1 DEF ApplyPoll
    <3>4. CASE overtaken
      <4>1. PollUnderWay
        BY <2>1 DEF PollUnderWay
      <4>2. overtaken'
        BY <3>4, <4>1, Remembered
      <4>3. QED
        BY <2>1, <3>3, <4>2, IdleFetchType, RequestStep
    <3>5. CASE ~overtaken
      <4>1. view # None /\ Shows(view, fetch[f].after, Visible)
        BY <3>2, <3>5 DEF Covered
      <4>2. view' = view \o fetch[f].answer
        BY <1>7, <2>3, <4>1 DEF ApplyPoll
      <4>3. Shows(view', mark', Visible)
        BY <2>3, <3>1, <3>2, <3>3, <4>1, <4>2, ShowsOn
      <4>4. ASSUME NEW g \in Fetch, PollIn(g)
            PROVE  overtaken' \/ (view' # None /\ Shows(view', fetch[g].after, Visible))
        <5>1. Shows(view, fetch[g].after, Visible)
          BY <3>5, <4>4 DEF PageInv, Fetching, PollIn, Covered
        <5>2. Shows(view', fetch[g].after, Visible)
          BY <3>1, <4>2, <5>1, ShowsMore
        <5>3. QED
          BY <5>2, ConstantsOK DEF Shows
      <4>5. QED
        BY <2>1, <3>3, <4>3, <4>4, IdleFetchType, RequestStep
    <3>6. QED
      BY <3>4, <3>5
  <2>4. QED
    BY <2>2, <2>3
<1>8. CASE UNCHANGED page
  BY <1>8, PageKept
<1>9. QED
  BY <1>1, <1>2, <1>3, <1>4, <1>5, <1>6, <1>7, <1>8
     DEF Next, Step, vars, Emit, FlushPending, Crash, Post, Receive, FailUpload, LoseAnswer,
         RecordCall, Interrupt, ForUpdate, ReadMaxSeq, InsertEntries, page

\* Whatever polls and loads are under way together, and whatever is stored, hidden or
\* interrupted between them, the page has skipped no row up to its mark, unless a load
\* or a reset replaced what is shown while a poll was under way.
THEOREM PageSkipsNothing == Spec => []NothingSkipped
<1>1. Init => PageInv
  <2> SUFFICES ASSUME Init PROVE PageInv
    OBVIOUS
  <2>1. fetch \in [Fetch -> FetchRecord] /\ \A f \in Fetch : fetch[f].step = "idle"
    BY IdleFetchType DEF Init
  <2>2. mark \in 0 .. Len(rows) /\ view = None
    BY DEF Init
  <2>3. QED
    BY <2>1, <2>2 DEF PageInv, Fetching
<1>2. PageInv => NothingSkipped
  BY DEF PageInv, Covered, Shows, NothingSkipped, UpToMark
<1>3. IInv /\ PageInv /\ [Next]_vars => PageInv'
  BY NextPage
<1>4. QED
  BY <1>1, <1>2, <1>3, InitLocked, NextLocked, PTL DEF Spec

-----------------------------------------------------------------------------
(* Types.                                                                   *)

\* Every batch is of events that were emitted, and before an attempt there is one left.
AdapterTypes ==
  /\ tries \in 0 .. Attempts
  /\ waiting = None => tries < Attempts
  /\ dropped \subseteq 1 .. emitted
  /\ EventsOf(pending) \subseteq 1 .. emitted
  /\ \A k \in DOMAIN chain : EventsOf(chain[k]) \subseteq 1 .. emitted

PageTypes ==
  /\ view = None \/ view \in Seq(Nat)
  /\ mark \in Nat
  /\ fetch \in [Fetch -> FetchRecord]

TypeInv ==
  /\ AdapterTypes /\ PageTypes
  /\ ended \in BOOLEAN /\ left \in [Counted -> Nat] /\ overtaken \in BOOLEAN

\* The adapter keeps the types of its batches.
LEMMA AdapterTyped == IInv /\ AdapterTypes /\ [Next]_vars => AdapterTypes'
<1> SUFFICES ASSUME IInv, AdapterTypes, [Next]_vars PROVE AdapterTypes'
  OBVIOUS
<1> USE DEF board, page
<1>0. /\ emitted \in Nat /\ pending \in Seq(Row) /\ chain \in Seq(Seq(Row))
      /\ (waiting # None => chain # <<>>) /\ DOMAIN chain = 1 .. Len(chain) /\ Len(chain) \in Nat
  BY DEF IInv, Types, Batches
<1>1. ASSUME NEW kind \in {"tool", "text"}, Emit(kind) PROVE AdapterTypes'
  <2> DEFINE row == MarkOf(kind, emitted + 1)
  <2>1. emitted' = emitted + 1 /\ emitted' \in Nat /\ UNCHANGED <<tries, waiting, dropped>>
    BY <1>0, <1>1 DEF Emit
  <2>2. row \in Row /\ row.event = emitted + 1
    BY <1>0, RowTypes DEF MarkOf
  <2>3. Append(pending, row) \in Seq(Row)
    BY <1>0, <2>2
  <2>4. PICK batch \in Seq(Row) : batch = Append(pending, row)
    BY <2>3
  <2>5. EventsOf(batch) \subseteq 1 .. emitted'
    <3>1. <<row>> \in Seq(Row) /\ batch = pending \o <<row>>
      BY <1>0, <2>2, <2>4
    <3>2. EventsOf(batch) = EventsOf(pending) \cup EventsOf(<<row>>)
      BY <1>0, <3>1, EventsOfConcat
    <3>3. EventsOf(<<row>>) = {emitted + 1}
      BY <2>2 DEF EventsOf
    <3>4. EventsOf(pending) \subseteq 1 .. emitted
      BY DEF AdapterTypes
    <3>5. 1 .. emitted \subseteq 1 .. emitted' /\ emitted + 1 \in 1 .. emitted'
      BY <1>0, <2>1
    <3>6. QED
      BY <3>2, <3>3, <3>4, <3>5
  <2>6. \/ pending' = <<>> /\ chain' = Append(chain, batch)
        \/ pending' = batch /\ chain' = chain
    BY <1>1, <2>4 DEF Emit
  <2>7. \A k \in DOMAIN chain : EventsOf(chain[k]) \subseteq 1 .. emitted'
    BY <1>0, <2>1 DEF AdapterTypes
  <2>8. \A k \in DOMAIN chain' : EventsOf(chain'[k]) \subseteq 1 .. emitted'
    <3>1. /\ DOMAIN Append(chain, batch) = 1 .. Len(chain) + 1
          /\ Append(chain, batch)[Len(chain) + 1] = batch
          /\ \A k \in 1 .. Len(chain) : Append(chain, batch)[k] = chain[k]
      BY <1>0
    <3>2. CASE chain' = chain
      BY <2>7, <3>2
    <3>3. CASE chain' = Append(chain, batch)
      <4>1. \A k \in 1 .. Len(chain) : EventsOf(chain'[k]) \subseteq 1 .. emitted'
        BY <1>0, <2>7, <3>1, <3>3
      <4>2. EventsOf(chain'[Len(chain) + 1]) \subseteq 1 .. emitted'
        BY <2>5, <3>1, <3>3
      <4>3. \A k \in DOMAIN chain' : k \in 1 .. Len(chain) \/ k = Len(chain) + 1
        BY <1>0, <3>1, <3>3
      <4>4. QED
        BY <4>1, <4>2, <4>3
    <3>4. QED
      BY <2>6, <3>2, <3>3
  <2>9. EventsOf(pending') \subseteq 1 .. emitted'
    BY <2>5, <2>6 DEF EventsOf
  <2>10. dropped' \subseteq 1 .. emitted'
    BY <1>0, <2>1 DEF AdapterTypes
  <2>11. QED
    BY <2>1, <2>8, <2>9, <2>10 DEF AdapterTypes
<1>2. CASE FlushPending
  <2>1. /\ UNCHANGED <<emitted, tries, waiting, dropped>> /\ pending' = <<>>
        /\ chain' = Append(chain, pending)
    BY <1>2 DEF FlushPending
  <2>2. /\ DOMAIN chain' = 1 .. Len(chain) + 1 /\ chain'[Len(chain) + 1] = pending
        /\ \A k \in 1 .. Len(chain) : chain'[k] = chain[k]
    BY <1>0, <2>1
  <2>3. \A k \in DOMAIN chain' : EventsOf(chain'[k]) \subseteq 1 .. emitted
    BY <1>0, <2>2 DEF AdapterTypes
  <2>4. EventsOf(pending') = {}
    BY <2>1 DEF EventsOf
  <2>5. QED
    BY <2>1, <2>3, <2>4 DEF AdapterTypes
<1>3. CASE Crash
  <2>1. /\ dropped' = dropped \cup EventsOf(pending)
                        \cup UNION {EventsOf(chain[i]) : i \in DOMAIN chain}
        /\ pending' = <<>> /\ chain' = <<>> /\ tries' = 0 /\ emitted' = emitted
    BY <1>3 DEF Crash
  <2>2. dropped' \subseteq 1 .. emitted
    BY <2>1 DEF AdapterTypes
  <2>3. EventsOf(pending') = {} /\ DOMAIN chain' = {}
    BY <2>1 DEF EventsOf
  <2>4. 0 < Attempts /\ Attempts \in Nat
    BY ConstantsOK
  <2>5. QED
    BY <2>1, <2>2, <2>3, <2>4 DEF AdapterTypes
<1>4. ASSUME chain # <<>>, chain' = Tail(chain), UNCHANGED <<emitted, pending>>
      PROVE  /\ EventsOf(Head(chain)) \subseteq 1 .. emitted
             /\ \A k \in DOMAIN chain' : EventsOf(chain'[k]) \subseteq 1 .. emitted'
  <2>1. /\ Head(chain) = chain[1] /\ 1 \in DOMAIN chain /\ DOMAIN chain' = 1 .. Len(chain) - 1
        /\ \A k \in 1 .. Len(chain) - 1 : k + 1 \in DOMAIN chain /\ chain'[k] = chain[k + 1]
    BY <1>0, <1>4
  <2>2. QED
    BY <1>4, <2>1 DEF AdapterTypes
<1>5. ASSUME NEW w \in Writer, Post(w) PROVE AdapterTypes'
  <2>1. UNCHANGED <<emitted, pending, chain, dropped>> /\ waiting' = w /\ tries' = tries + 1
        /\ waiting = None
    BY <1>5 DEF Post
  <2>2. tries' \in 0 .. Attempts /\ waiting' # None
    BY <2>1, ConstantsOK DEF AdapterTypes
  <2>3. QED
    BY <2>1, <2>2 DEF AdapterTypes
<1>6. ASSUME NEW w \in Writer, Receive(w) PROVE AdapterTypes'
  <2>1. /\ UNCHANGED <<emitted, pending, dropped>> /\ tries' = 0 /\ chain' = Tail(chain)
        /\ chain # <<>>
    BY <1>0, <1>6, ConstantsOK DEF Receive
  <2>2. 0 < Attempts /\ Attempts \in Nat
    BY ConstantsOK
  <2>3. QED
    BY <1>4, <2>1, <2>2 DEF AdapterTypes
<1>7. ASSUME NEW w \in Writer,
             LoseAnswer(w) \/ \E final \in BOOLEAN : FailUpload(w, final)
      PROVE  AdapterTypes'
  <2>1. PICK final \in BOOLEAN : /\ UNCHANGED <<emitted, pending>> /\ chain # <<>>
                                /\ AfterFailure(final)
    BY <1>0, <1>7, ConstantsOK DEF FailUpload, LoseAnswer
  <2>2. CASE tries < Attempts /\ ~final
    BY <2>1, <2>2 DEF AfterFailure, AdapterTypes
  <2>3. CASE ~(tries < Attempts /\ ~final)
    <3>1. /\ tries' = 0 /\ chain' = Tail(chain)
          /\ dropped' = dropped \cup EventsOf(Head(chain))
      BY <2>1, <2>3 DEF AfterFailure
    <3>2. 0 < Attempts /\ Attempts \in Nat
      BY ConstantsOK
    <3>3. /\ EventsOf(Head(chain)) \subseteq 1 .. emitted
          /\ \A k \in DOMAIN chain' : EventsOf(chain'[k]) \subseteq 1 .. emitted'
      BY <1>4, <2>1, <3>1
    <3>4. dropped' \subseteq 1 .. emitted
      BY <3>1, <3>3 DEF AdapterTypes
    <3>5. QED
      BY <2>1, <3>1, <3>2, <3>3, <3>4 DEF AdapterTypes
  <2>4. QED
    BY <2>2, <2>3
<1>8. CASE UNCHANGED adapter
  BY <1>8 DEF adapter, AdapterTypes
<1>9. QED
  BY <1>1, <1>2, <1>3, <1>5, <1>6, <1>7, <1>8
     DEF Next, Step, vars, RecordCall, Interrupt, ForUpdate, ReadMaxSeq, InsertEntries,
         Load, Poll, Reset, FailFetch, ServeFetch, ApplyLoad, ApplyPoll

\* One request of the page becomes another.
LEMMA FetchTyped ==
  ASSUME PageTypes, NEW f \in Fetch, NEW r \in FetchRecord, fetch' = [fetch EXCEPT ![f] = r]
  PROVE  fetch' \in [Fetch -> FetchRecord]
  BY DEF PageTypes

\* A request that the page makes.
LEMMA AskTyped ==
  ASSUME PageTypes, NEW f \in Fetch, NEW kind \in {"load", "poll"}, NEW after \in Nat,
         NEW got \in Seq(Nat), Ask(f, kind, after, got)
  PROVE  fetch' \in [Fetch -> FetchRecord]
<1> DEFINE r == [IdleFetch EXCEPT !.step = "asked", !.kind = kind, !.after = after, !.got = got]
<1>1. <<>> \in Seq(Nat)
  OBVIOUS
<1>2. r \in FetchRecord
  BY <1>1 DEF IdleFetch, FetchRecord
<1>3. fetch' = [fetch EXCEPT ![f] = r]
  BY DEF Ask
<1> HIDE DEF r
<1>4. QED
  BY <1>2, <1>3, FetchTyped

\* Answers put behind one another.
LEMMA LoadedType ==
  ASSUME NEW got \in Seq(Nat), NEW answer \in Seq(Nat)
  PROVE  /\ got \o answer \in Seq(Nat)
         /\ answer # <<>> => /\ got \o answer # <<>>
                             /\ LastOf(got \o answer) \in Nat /\ LastOf(answer) \in Nat
<1>1. got \o answer \in Seq(Nat) /\ Len(got \o answer) = Len(got) + Len(answer)
  BY ConcatProperties
<1>2. answer # <<>> => Len(answer) >= 1 /\ Len(answer) \in DOMAIN answer
  OBVIOUS
<1>3. answer # <<>> => Len(got \o answer) \in DOMAIN (got \o answer)
  BY <1>1, <1>2
<1>4. QED
  BY <1>1, <1>2, <1>3 DEF LastOf

\* The page keeps its types, however many requests it makes at once.
LEMMA PageTyped == IInv /\ PageTypes /\ [Next]_vars => PageTypes'
<1> SUFFICES ASSUME IInv, PageTypes, [Next]_vars PROVE PageTypes'
  OBVIOUS
<1>0. rows \in Seq(Row) /\ Len(rows) \in Nat
  BY DEF IInv, Types
<1>1. ASSUME NEW f \in Fetch, Load(f) \/ Reset(f) PROVE PageTypes'
  <2>1. /\ Ask(f, "load", 0, <<>>)
        /\ \/ UNCHANGED <<view, mark>>
           \/ view' = None /\ mark' = 0
    BY <1>1 DEF Load, Reset
  <2>2. <<>> \in Seq(Nat) /\ 0 \in Nat /\ "load" \in {"load", "poll"}
    OBVIOUS
  <2>3. fetch' \in [Fetch -> FetchRecord]
    BY <2>1, <2>2, AskTyped
  <2>4. QED
    BY <2>1, <2>3 DEF PageTypes
<1>2. ASSUME NEW f \in Fetch, Poll(f) PROVE PageTypes'
  <2>1. Ask(f, "poll", mark, <<>>) /\ UNCHANGED <<view, mark>>
    BY <1>2 DEF Poll
  <2>2. <<>> \in Seq(Nat) /\ mark \in Nat /\ "poll" \in {"load", "poll"}
    BY DEF PageTypes
  <2>3. fetch' \in [Fetch -> FetchRecord]
    BY <2>1, <2>2, AskTyped
  <2>4. QED
    BY <2>1, <2>3 DEF PageTypes
<1>3. ASSUME NEW f \in Fetch, FailFetch(f) PROVE PageTypes'
  <2>1. fetch' = [fetch EXCEPT ![f] = IdleFetch] /\ UNCHANGED <<view, mark>>
    BY <1>3 DEF FailFetch, Done
  <2>2. fetch' \in [Fetch -> FetchRecord]
    BY <2>1, IdleFetchType, FetchTyped
  <2>3. QED
    BY <2>1, <2>2 DEF PageTypes
<1>4. ASSUME NEW f \in Fetch, ServeFetch(f) PROVE PageTypes'
  <2> DEFINE newer == {s \in Visible : s > fetch[f].after}
             limit == IF fetch[f].kind = "load" THEN LoadPage ELSE PollPage
             more == Cardinality(newer) > limit
  <2>1. PICK answer \in Ascending(FirstOf(newer, limit)) :
          fetch' = [fetch EXCEPT ![f] = [fetch[f] EXCEPT !.step = "answered", !.answer = answer,
                                                         !.more = more]]
    BY <1>4 DEF ServeFetch, PageTypes
  <2>2. fetch[f] \in FetchRecord /\ fetch[f].after \in Nat
    BY DEF PageTypes, FetchRecord
  <2>3. limit \in Nat /\ more \in BOOLEAN
    BY ConstantsOK
  <2>4. Visible \in SUBSET Nat /\ IsFiniteSet(Visible)
    <3>1. Visible \subseteq 1 .. Len(rows)
      BY <1>0 DEF Visible
    <3>2. IsFiniteSet(1 .. Len(rows))
      BY <1>0, FS_Interval
    <3>3. IsFiniteSet(Visible)
      BY <3>1, <3>2, FS_Subset
    <3>4. QED
      BY <1>0, <3>1, <3>3
  <2> HIDE DEF limit, more
  <2>5. answer \in Seq(Nat)
    BY <2>2, <2>3, <2>4, FirstContinue DEF Continues
  <2>6. [fetch[f] EXCEPT !.step = "answered", !.answer = answer, !.more = more] \in FetchRecord
    BY <2>2, <2>3, <2>5 DEF FetchRecord
  <2>7. fetch' \in [Fetch -> FetchRecord]
    BY <2>1, <2>6, FetchTyped
  <2>8. UNCHANGED <<view, mark>>
    BY <1>4 DEF ServeFetch
  <2>9. QED
    BY <2>7, <2>8 DEF PageTypes
<1>5. ASSUME NEW f \in Fetch, ApplyLoad(f) PROVE PageTypes'
  <2>1. fetch[f].got \in Seq(Nat) /\ fetch[f].answer \in Seq(Nat)
    BY DEF PageTypes, FetchRecord
  <2>2. PICK got \in Seq(Nat) : got = fetch[f].got \o fetch[f].answer
    BY <2>1, LoadedType
  <2>3. fetch[f].answer # <<>> => LastOf(got) \in Nat
    BY <2>1, <2>2, LoadedType
  <2>4. CASE fetch[f].answer = <<>>
    <3>1. mark' = mark /\ fetch' = [fetch EXCEPT ![f] = IdleFetch] /\ (view' = None \/ view' = view)
      BY <1>5, <2>4 DEF ApplyLoad, Done
    <3>2. fetch' \in [Fetch -> FetchRecord]
      BY <3>1, IdleFetchType, FetchTyped
    <3>3. QED
      BY <3>1, <3>2 DEF PageTypes
  <2>5. CASE fetch[f].answer # <<>>
    <3>1. /\ view' = got /\ mark' = LastOf(got)
          /\ \/ fetch' = [fetch EXCEPT ![f] = IdleFetch]
             \/ Ask(f, "load", LastOf(got), got)
      BY <1>5, <2>2, <2>5 DEF ApplyLoad, Done
    <3>2. fetch' \in [Fetch -> FetchRecord]
      <4>1. CASE fetch' = [fetch EXCEPT ![f] = IdleFetch]
        BY <4>1, IdleFetchType, FetchTyped
      <4>2. CASE Ask(f, "load", LastOf(got), got)
        <5>1. LastOf(got) \in Nat /\ "load" \in {"load", "poll"}
          BY <2>3, <2>5
        <5>2. QED
          BY <4>2, <5>1, AskTyped
      <4>3. QED
        BY <3>1, <4>1, <4>2
    <3>3. QED
      BY <2>3, <2>5, <3>1, <3>2 DEF PageTypes
  <2>6. QED
    BY <2>4, <2>5
<1>6. ASSUME NEW f \in Fetch, ApplyPoll(f) PROVE PageTypes'
  <2>1. fetch' = [fetch EXCEPT ![f] = IdleFetch]
    BY <1>6 DEF ApplyPoll, Done
  <2>2. fetch' \in [Fetch -> FetchRecord]
    BY <2>1, IdleFetchType, FetchTyped
  <2>3. fetch[f].answer \in Seq(Nat)
    BY DEF PageTypes, FetchRecord
  <2>4. CASE fetch[f].answer = <<>>
    BY <1>6, <2>2, <2>4 DEF ApplyPoll, PageTypes
  <2>5. CASE fetch[f].answer # <<>>
    <3>1. PICK shown \in Seq(Nat) : shown = IF view = None THEN <<>> ELSE view
      <4>1. <<>> \in Seq(Nat)
        OBVIOUS
      <4>2. QED
        BY <4>1 DEF PageTypes
    <3>2. view' = shown \o fetch[f].answer /\ mark' = LastOf(fetch[f].answer)
      BY <1>6, <2>5, <3>1 DEF ApplyPoll
    <3>3. view' \in Seq(Nat) /\ mark' \in Nat
      BY <2>3, <2>5, <3>2, LoadedType
    <3>4. QED
      BY <2>2, <3>3 DEF PageTypes
  <2>6. QED
    BY <2>4, <2>5
<1>7. CASE UNCHANGED page
  BY <1>7 DEF page, PageTypes
<1>8. QED
  BY <1>1, <1>2, <1>3, <1>4, <1>5, <1>6, <1>7
     DEF Next, Step, vars, Emit, FlushPending, Crash, Post, Receive, FailUpload, LoseAnswer,
         RecordCall, Interrupt, ForUpdate, ReadMaxSeq, InsertEntries

\* The counts of what is bounded, the end of the session and the history.
LEMMA CountsTyped ==
  ASSUME ended \in BOOLEAN, left \in [Counted -> Nat], overtaken \in BOOLEAN, [Next]_vars
  PROVE  ended' \in BOOLEAN /\ left' \in [Counted -> Nat] /\ overtaken' \in BOOLEAN
<1>1. ASSUME NEW what \in Counted, Use(what) PROVE left' \in [Counted -> Nat]
  BY <1>1 DEF Use
<1>2. {"emissions", "calls", "faults", "restarts", "requests"} \subseteq Counted
  BY DEF Counted
<1>3. left' \in [Counted -> Nat]
  BY <1>1, <1>2 DEF Next, Step, vars, Emit, FlushPending, Crash, Post, Receive, FailUpload, LoseAnswer,
     RecordCall, Interrupt, ForUpdate, ReadMaxSeq, InsertEntries,
     Load, Poll, Reset, FailFetch, ServeFetch, ApplyLoad, ApplyPoll
<1>4. ended' \in BOOLEAN
  BY DEF Next, Step, vars, board, Emit, FlushPending, Crash, Post, Receive, FailUpload, LoseAnswer,
     RecordCall, Interrupt, ForUpdate, ReadMaxSeq, InsertEntries,
     Load, Poll, Reset, FailFetch, ServeFetch, ApplyLoad, ApplyPoll
<1>5. overtaken' \in BOOLEAN
  <2>1. PollUnderWay \in BOOLEAN
    BY DEF PollUnderWay
  <2>2. CASE UNCHANGED vars
    BY <2>2 DEF vars
  <2>3. CASE Next
    BY <2>1, <2>3 DEF Next, Remember
  <2>4. QED
    BY <2>2, <2>3
<1>6. QED
  BY <1>3, <1>4, <1>5

\* The variables keep their types: no event is given up that was not emitted, and
\* no batch is attempted more often than it may be.
THEOREM TypeCorrect == Spec => []TypeOK
<1>1. Init => TypeInv
  <2> SUFFICES ASSUME Init PROVE TypeInv
    OBVIOUS
  <2>1. 0 < Attempts /\ Attempts \in Nat
    BY ConstantsOK
  <2>2. AdapterTypes
    BY <2>1 DEF Init, AdapterTypes, EventsOf
  <2>3. PageTypes
    BY IdleFetchType DEF Init, PageTypes
  <2>4. ended \in BOOLEAN /\ left \in [Counted -> Nat] /\ overtaken \in BOOLEAN
    BY ConstantsOK DEF Init
  <2>5. QED
    BY <2>2, <2>3, <2>4 DEF TypeInv
<1>2. IInv /\ TypeInv /\ [Next]_vars => TypeInv'
  <2> SUFFICES ASSUME IInv, TypeInv, [Next]_vars PROVE TypeInv'
    OBVIOUS
  <2>1. AdapterTypes'
    BY AdapterTyped DEF TypeInv
  <2>2. PageTypes'
    BY PageTyped DEF TypeInv
  <2>3. ended' \in BOOLEAN /\ left' \in [Counted -> Nat] /\ overtaken' \in BOOLEAN
    BY CountsTyped DEF TypeInv
  <2>4. QED
    BY <2>1, <2>2, <2>3 DEF TypeInv
<1>3. IInv /\ OrderInv /\ TypeInv => TypeOK
  BY DEF IInv, Types, Batches, OrderInv, Awaited, TypeInv, AdapterTypes, PageTypes, TypeOK
<1>4. QED
  BY <1>1, <1>2, <1>3, InitLocked, NextLocked, InitOrder, NextOrder, PTL DEF Spec
=============================================================================
