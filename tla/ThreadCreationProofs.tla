-------------------------- MODULE ThreadCreationProofs --------------------------
(***************************************************************************)
(* What is proved about ThreadCreation for any number of participants,     *)
(* issues, handlers, deliveries and faults.  However requests overlap, a   *)
(* thread stands on a settled constitution and a redirected issue points   *)
(* at its thread; when neither two deliveries nor two declarations overlap *)
(* (Apart), an issue becomes one thread and a rule is amended by another   *)
(* hand than its author's.                                                 *)
(***************************************************************************)
EXTENDS ThreadCreation, FiniteSetTheorems, SequenceTheorems, TLAPS

-----------------------------------------------------------------------------
(* What no step undoes.                                                     *)

\* Two rows are about the same: what a row never changes.
SameAbout(row, was) ==
  row.subject = was.subject /\ row.query = was.query /\ row.consensus = was.consensus

\* Rows of threads and agreements are only added, a thread stays about what it
\* is about, and the board takes back neither its comments nor a closing.
Grown ==
  /\ Ids \subseteq Ids'
  /\ \A t \in Ids : SameAbout(threads[t]', threads[t])
  /\ DOMAIN agreements \subseteq DOMAIN agreements'
  /\ \A k \in DOMAIN agreements : agreements'[k] = agreements[k]
  /\ \A i \in Issue :
       /\ issue[i].state = "closed" => issue'[i].state = "closed"
       /\ \A k \in DOMAIN issue[i].comments :
            /\ k \in DOMAIN issue'[i].comments
            /\ issue'[i].comments[k] = issue[i].comments[k]

-----------------------------------------------------------------------------
(* The inductive invariant of what holds however requests overlap.          *)

\* The board has told issue i of thread t.
Told(i, t) == \E k \in DOMAIN issue[i].comments : issue[i].comments[k] = t

\* What a request in flight relies on and nobody takes from it.
Relies(tx) ==
  /\ tx.step = "creating" =>
       (tx.row.subject \notin ConstitutionKinds => isSetupComplete)
  /\ tx.step = "ratifying" => tx.thread \in Ids
  /\ tx.step \in {"commenting", "closing", "recording"} => tx.thread \in ThreadsOf(tx.issue)
  /\ tx.step \in {"closing", "recording"} => Told(tx.issue, tx.thread)
  /\ tx.step = "recording" => issue[tx.issue].state = "closed"

Relied == \A r \in Handler : Relies(inflight[r])

\* An agreement is one of a thread there is.
Grounded == \A k \in DOMAIN agreements : agreements[k].thread \in Ids

IInv == TypeOK /\ Grounded /\ Relied /\ SetupBeforeWork /\ RedirectIsTruthful

-----------------------------------------------------------------------------
(* Lemmas.                                                                  *)

\* The requests by their steps.
LEMMA RequestTypes ==
  /\ Idle \in Requests
  /\ \A row \in ThreadRow : [step |-> "creating", row |-> row] \in Requests
  /\ \A t \in Nat : [step |-> "ratifying", thread |-> t] \in Requests
  /\ \A step \in {"commenting", "closing", "recording"}, i \in Issue, t \in Nat :
       [step |-> step, issue |-> i, thread |-> t] \in Requests
  BY DEF Requests, Idle

LEMMA RequestFields ==
  ASSUME NEW tx \in Requests
  PROVE  /\ tx.step \in {"idle", "creating", "ratifying", "commenting", "closing", "recording"}
         /\ tx.step = "creating" => tx.row \in ThreadRow
         /\ tx.step = "ratifying" => tx.thread \in Nat
         /\ tx.step \in {"commenting", "closing", "recording"} =>
              tx.issue \in Issue /\ tx.thread \in Nat
  BY DEF Requests, Idle

\* A handler that goes on to tx, while the others stay where they are.
LEMMA HoldType ==
  ASSUME inflight \in [Handler -> Requests], NEW r \in Handler,
         NEW tx \in Requests, Hold(r, tx)
  PROVE  /\ inflight' \in [Handler -> Requests]
         /\ inflight'[r] = tx
         /\ \A q \in Handler \ {r} : inflight'[q] = inflight[q]
  BY DEF Hold

\* Thread rows come typed.
LEMMA NewThreadType ==
  ASSUME NEW subject \in Subjects, NEW consensus \in ConsensusTypes,
         NEW query \in Issue \cup {None}
  PROVE  /\ NewThread(subject, consensus, query) \in ThreadRow
         /\ NewThread(subject, consensus, query).subject = subject
         /\ NewThread(subject, consensus, query).consensus = consensus
         /\ NewThread(subject, consensus, query).query = query
         /\ NewThread(subject, consensus, query).state = "discussing"
         /\ NewThread(subject, consensus, query).author = None
  BY DEF NewThread, ThreadRow

LEMMA ConsensusOfType ==
  ASSUME NEW subject \in Subjects, NEW asked \in ConsensusTypes
  PROVE  ConsensusOf(subject, asked) \in ConsensusTypes
  BY DEF ConsensusOf, ConsensusTypes

\* A row of threads is replaced by one that is about the same.
LEMMA RowReplaced ==
  ASSUME threads \in Seq(ThreadRow), NEW t \in Ids, NEW row \in ThreadRow,
         SameAbout(row, threads[t]), threads' = [threads EXCEPT ![t] = row]
  PROVE  /\ threads' \in Seq(ThreadRow)
         /\ Ids' = Ids
         /\ threads'[t] = row
         /\ \A u \in Ids \ {t} : threads'[u] = threads[u]
         /\ \A u \in Ids : SameAbout(threads'[u], threads[u])
  BY DEF Ids, SameAbout

\* A row is added at the end.
LEMMA RowAppended ==
  ASSUME threads \in Seq(ThreadRow), NEW row \in ThreadRow,
         threads' = Append(threads, row)
  PROVE  /\ threads' \in Seq(ThreadRow)
         /\ Ids' = Ids \cup {Len(threads) + 1}
         /\ Len(threads) + 1 \notin Ids
         /\ threads'[Len(threads) + 1] = row
         /\ \A u \in Ids : threads'[u] = threads[u]
         /\ \A u \in Ids : SameAbout(threads'[u], threads[u])
  BY DEF Ids, SameAbout

\* An agreement is added at the end.
LEMMA AgreementAppended ==
  ASSUME agreements \in Seq(AgreementRow), NEW a \in AgreementRow,
         agreements' = Append(agreements, a)
  PROVE  /\ agreements' \in Seq(AgreementRow)
         /\ DOMAIN agreements' = DOMAIN agreements \cup {Len(agreements) + 1}
         /\ Len(agreements) + 1 \notin DOMAIN agreements
         /\ agreements'[Len(agreements) + 1] = a
         /\ \A k \in DOMAIN agreements : agreements'[k] = agreements[k]
  OBVIOUS

\* What has been redirected truthfully, one record of it.
Truthful(x) ==
  /\ issue[x.issue].state = "closed"
  /\ Told(x.issue, x.thread)
  /\ x.thread \in ThreadsOf(x.issue)

LEMMA RedirectsOneByOne == RedirectIsTruthful <=> \A x \in intakes : Truthful(x)
  BY DEF RedirectIsTruthful, Truthful, Told

\* While nothing is undone, a settled constitution stays settled, a request can
\* rely on what it relied on, and what was redirected stays so.
LEMMA SetupStays ==
  ASSUME IInv, Grown, isSetupComplete
  PROVE  isSetupComplete'
<1> SUFFICES ASSUME NEW kind \in ConstitutionKinds PROVE hasActiveSharedArtifact(kind)'
  BY DEF isSetupComplete, ConstitutionKinds
<1>1. PICK k \in DOMAIN agreements : threads[agreements[k].thread].subject = kind
  BY DEF isSetupComplete, hasActiveSharedArtifact
<1>2. agreements[k].thread \in Ids
  BY DEF IInv, Grounded
<1>3. k \in DOMAIN agreements' /\ agreements'[k] = agreements[k]
  BY DEF Grown
<1>4. threads'[agreements[k].thread].subject = kind
  BY <1>1, <1>2 DEF Grown, SameAbout
<1>5. QED
  BY <1>3, <1>4 DEF hasActiveSharedArtifact

LEMMA ToldStays ==
  ASSUME Grown, NEW i \in Issue, NEW t, Told(i, t)
  PROVE  Told(i, t)'
  BY DEF Grown, Told

LEMMA ThreadsOfStay ==
  ASSUME Grown, NEW i \in Issue, NEW t \in ThreadsOf(i)
  PROVE  t \in ThreadsOf(i)'
  BY DEF Grown, ThreadsOf, SameAbout

LEMMA ReliesStays ==
  ASSUME IInv, Grown, NEW tx \in Requests, Relies(tx)
  PROVE  Relies(tx)'
<1>1. tx.step = "creating" => (tx.row.subject \notin ConstitutionKinds => isSetupComplete')
  BY SetupStays DEF Relies
<1>2. tx.step = "ratifying" => tx.thread \in Ids'
  BY DEF Relies, Grown
<1>3. ASSUME tx.step \in {"commenting", "closing", "recording"}
      PROVE  /\ tx.thread \in ThreadsOf(tx.issue)'
             /\ tx.step \in {"closing", "recording"} => Told(tx.issue, tx.thread)'
             /\ tx.step = "recording" => issue'[tx.issue].state = "closed"
  <2>1. PICK i \in Issue, t \in Nat : tx.issue = i /\ tx.thread = t
    BY <1>3, RequestFields
  <2>2. t \in ThreadsOf(i)'
    BY <1>3, <2>1, ThreadsOfStay DEF Relies
  <2>3. tx.step \in {"closing", "recording"} => Told(i, t)'
    BY <1>3, <2>1, ToldStays DEF Relies
  <2>4. tx.step = "recording" => issue'[i].state = "closed"
    BY <1>3, <2>1 DEF Relies, Grown
  <2>5. QED
    BY <2>1, <2>2, <2>3, <2>4 DEF Told, ThreadsOf, Ids
<1>4. QED
  BY <1>1, <1>2, <1>3 DEF Relies, Told, ThreadsOf, Ids

LEMMA TruthfulStays ==
  ASSUME IInv, Grown, NEW x \in intakes
  PROVE  Truthful(x)'
<1>1. x.issue \in Issue
  BY DEF IInv, TypeOK
<1>2. Truthful(x)
  BY RedirectsOneByOne DEF IInv
<1>3. PICK i, t : i \in Issue /\ x.issue = i /\ x.thread = t
  BY <1>1
<1>4. Told(i, t)' /\ t \in ThreadsOf(i)' /\ issue'[i].state = "closed"
  BY <1>2, <1>3, ToldStays, ThreadsOfStay DEF Truthful, Grown
<1>5. QED
  BY <1>3, <1>4 DEF Truthful, Told, ThreadsOf, Ids

\* A step that adds no thread and no record keeps what hangs on them.
LEMMA RowsKept ==
  ASSUME IInv, Grown, Ids' = Ids, UNCHANGED intakes
  PROVE  /\ SetupBeforeWork' /\ RedirectIsTruthful'
         /\ UNCHANGED agreements => Grounded'
<1>1. UNCHANGED agreements => Grounded'
  BY DEF IInv, Grounded
<1>2. SetupBeforeWork'
  <2> SUFFICES ASSUME NEW t \in Ids', threads'[t].subject \notin ConstitutionKinds
               PROVE  isSetupComplete'
    BY DEF SetupBeforeWork, ConstitutionKinds
  <2>1. threads[t].subject \notin ConstitutionKinds
    BY DEF Grown, SameAbout
  <2>2. isSetupComplete
    BY <2>1 DEF IInv, SetupBeforeWork
  <2>3. QED
    BY <2>2, SetupStays
<1>3. \A x \in intakes' : Truthful(x)'
  BY TruthfulStays
<1>4. RedirectIsTruthful'
  BY <1>3 DEF RedirectIsTruthful, Truthful, Told
<1>5. QED
  BY <1>1, <1>2, <1>4

\* The requests rely on what they did, but for the one of handler r, which goes on.
LEMMA ReliedKept ==
  ASSUME IInv, Grown, NEW r \in Handler, NEW tx \in Requests, Hold(r, tx), Relies(tx)'
  PROVE  Relied'
<1> SUFFICES ASSUME NEW q \in Handler PROVE Relies(inflight[q])'
  BY DEF Relied
<1>1. PICK u \in Requests : u = inflight'[q]
  BY HoldType DEF IInv, TypeOK
<1>2. Relies(u)'
  <2>1. CASE q = r
    BY <1>1, <2>1, HoldType DEF IInv, TypeOK
  <2>2. CASE q # r
    <3>1. u = inflight[q] /\ Relies(u)
      BY <1>1, <2>2, HoldType DEF IInv, TypeOK, Relied
    <3>2. QED
      BY <3>1, ReliesStays
  <2>3. QED
    BY <2>1, <2>2
<1>3. QED
  BY <1>1, <1>2 DEF Relies, Told, ThreadsOf, Ids, isSetupComplete, hasActiveSharedArtifact

LEMMA ReliedKeptByAll ==
  ASSUME IInv, Grown, UNCHANGED inflight
  PROVE  Relied'
<1> SUFFICES ASSUME NEW q \in Handler PROVE Relies(inflight[q])'
  BY DEF Relied
<1>1. PICK u \in Requests : u = inflight[q]
  BY DEF IInv, TypeOK
<1>2. Relies(u)'
  BY <1>1, ReliesStays DEF IInv, Relied
<1>3. QED
  BY <1>1, <1>2 DEF Relies, Told, ThreadsOf, Ids, isSetupComplete, hasActiveSharedArtifact

-----------------------------------------------------------------------------
(* The steps of the requests.                                               *)

\* A request that passes its checks, and touches nothing else.
LEMMA CheckKeeps ==
  ASSUME IInv, NEW r \in Handler, NEW tx \in Requests, Hold(r, tx), Relies(tx),
         deliveries' \in [Issue -> Nat], sent' \in [Issue -> Nat],
         faults' \in 0 .. MaxFaults,
         UNCHANGED <<board, issue, intakes>>
  PROVE  IInv'
<1>1. UNCHANGED <<threads, agreements, connected, issue, intakes>>
  BY DEF board
<1>2. TypeOK'
  BY <1>1, HoldType DEF IInv, TypeOK, ThreadRow, AgreementRow, Requests, Idle
<1>3. Grown
  BY <1>1 DEF Grown, SameAbout, Ids
<1>4. Relies(tx)'
  BY <1>3, ReliesStays
<1>5. Relied'
  BY <1>3, <1>4, ReliedKept
<1>6. Ids' = Ids
  BY <1>1 DEF Ids
<1>7. QED
  BY <1>1, <1>2, <1>3, <1>5, <1>6, RowsKept DEF IInv

LEMMA CheckCreateStep ==
  ASSUME IInv, NEW r \in Handler, NEW subject \in Subjects, NEW asked \in ConsensusTypes,
         NEW checked \in BOOLEAN, CheckCreate(r, subject, asked, checked)
  PROVE  IInv'
<1>1. PICK row \in ThreadRow :
        row = NewThread(subject, ConsensusOf(subject, asked), None) /\ row.subject = subject
  BY NewThreadType, ConsensusOfType
<1>2. PICK tx \in Requests : tx = [step |-> "creating", row |-> row]
  BY RequestTypes
<1>3. Hold(r, tx)
  BY <1>1, <1>2 DEF CheckCreate
<1>4. subject \notin ConstitutionKinds => isSetupComplete
  BY DEF CheckCreate, CreateAllowed, assertCreateThreadAllowed
<1>5. Relies(tx)
  BY <1>1, <1>2, <1>4 DEF Relies
<1>6. QED
  BY <1>2, <1>3, <1>5, CheckKeeps DEF CheckCreate, github, IInv, TypeOK

LEMMA CheckRatifyStep ==
  ASSUME IInv, NEW r \in Handler, NEW t \in 1 .. MaxThreads, CheckRatify(r, t)
  PROVE  IInv'
<1>1. t \in Nat /\ t \in Ids
  BY ConstantsOK DEF CheckRatify
<1>2. PICK tx \in Requests : tx = [step |-> "ratifying", thread |-> t]
  BY <1>1, RequestTypes
<1>3. Relies(tx)
  BY <1>1, <1>2 DEF Relies
<1>4. QED
  BY <1>2, <1>3, CheckKeeps DEF CheckRatify, github, IInv, TypeOK

\* A delivery that is answered is one fewer.
LEMMA TakeType ==
  ASSUME IInv, NEW i \in Issue, Take(i)
  PROVE  /\ deliveries' \in [Issue -> Nat] /\ sent' \in [Issue -> Nat]
         /\ UNCHANGED issue
  BY DEF Take, IInv, TypeOK

LEMMA TakeInStep ==
  ASSUME IInv, NEW r \in Handler, NEW i \in Issue, TakeIn(r, i)
  PROVE  IInv'
<1>1. CASE \E t \in ThreadsOf(i) :
             Hold(r, [step |-> "commenting", issue |-> i, thread |-> t])
  <2>1. PICK t \in ThreadsOf(i) : Hold(r, [step |-> "commenting", issue |-> i, thread |-> t])
    BY <1>1
  <2>2. t \in Nat
    BY DEF ThreadsOf, Ids, IInv, TypeOK
  <2>3. PICK tx \in Requests : tx = [step |-> "commenting", issue |-> i, thread |-> t]
    BY <2>2, RequestTypes
  <2>4. Relies(tx)
    BY <2>3 DEF Relies
  <2>5. QED
    BY <2>1, <2>3, <2>4, TakeType, CheckKeeps DEF TakeIn, IInv, TypeOK
<1>2. CASE /\ CreateAllowed("talk", TRUE)
           /\ Hold(r, [step |-> "creating", row |-> NewThread("talk", "rough", i)])
  <2>1. PICK row \in ThreadRow : row = NewThread("talk", "rough", i) /\ row.subject = "talk"
    BY NewThreadType DEF Subjects, ConsensusTypes
  <2>2. PICK tx \in Requests : tx = [step |-> "creating", row |-> row]
    BY RequestTypes
  <2>3. isSetupComplete
    BY <1>2 DEF CreateAllowed, assertCreateThreadAllowed, ConstitutionKinds
  <2>4. Relies(tx)
    BY <2>2, <2>3 DEF Relies
  <2>5. QED
    BY <1>2, <2>1, <2>2, <2>4, TakeType, CheckKeeps DEF TakeIn, IInv, TypeOK
<1>3. QED
  BY <1>1, <1>2 DEF TakeIn

\* The same place, the next step.
LEMMA AdvanceType ==
  ASSUME IInv, NEW r \in Handler, NEW step \in {"closing", "recording"},
         inflight[r].step \in {"commenting", "closing", "recording"}, Advance(r, step)
  PROVE  \E tx \in Requests : /\ Hold(r, tx) /\ tx.step = step
                              /\ tx.issue = inflight[r].issue /\ tx.thread = inflight[r].thread
<1>1. inflight[r] \in [step : {"commenting", "closing", "recording"}, issue : Issue, thread : Nat]
  BY DEF IInv, TypeOK, Requests, Idle
<1>2. [inflight[r] EXCEPT !.step = step] \in Requests
  BY <1>1 DEF Requests
<1>3. QED
  BY <1>1, <1>2 DEF Advance

LEMMA FailIntakeStep ==
  ASSUME IInv, NEW r \in Handler, FailIntake(r)
  PROVE  IInv'
<1>1. PICK tx \in Requests : tx = Idle
  BY RequestTypes
<1>2. Relies(tx)
  BY <1>1 DEF Relies, Idle
<1>3. faults' \in 0 .. MaxFaults
  BY ConstantsOK DEF FailIntake, IInv, TypeOK
<1>4. QED
  BY <1>1, <1>2, <1>3, CheckKeeps DEF FailIntake, github, IInv, TypeOK

\* A step that leaves all that is stored, and every request, as it is.
LEMMA NothingStoredKeeps ==
  ASSUME IInv, UNCHANGED <<threads, agreements, issue, intakes, inflight>>,
         connected' \in BOOLEAN, deliveries' \in [Issue -> Nat], sent' \in [Issue -> Nat],
         faults' \in 0 .. MaxFaults
  PROVE  IInv'
<1>1. TypeOK'
  BY DEF IInv, TypeOK, ThreadRow, AgreementRow, Requests, Idle
<1>2. Grown /\ Ids' = Ids
  BY DEF Grown, SameAbout, Ids
<1>3. QED
  BY <1>1, <1>2, RowsKept, ReliedKeptByAll DEF IInv

\* A thread is inserted: it is no part of the constitution unless that is settled.
LEMMA InsertThreadStep ==
  ASSUME IInv, NEW r \in Handler, InsertThread(r)
  PROVE  IInv'
<1> DEFINE new == Len(threads) + 1
<1>1. PICK row \in ThreadRow : row = inflight[r].row
  BY RequestFields DEF InsertThread, IInv, TypeOK
<1>2. threads' = Append(threads, row)
  BY <1>1 DEF InsertThread
<1>3. UNCHANGED <<agreements, connected, issue, deliveries, sent, intakes, faults>>
  BY DEF InsertThread, github
<1>4. /\ threads' \in Seq(ThreadRow) /\ Ids' = Ids \cup {new} /\ threads'[new] = row
      /\ \A u \in Ids : SameAbout(threads'[u], threads[u])
  BY <1>2, RowAppended DEF IInv, TypeOK
<1>5. Grown
  BY <1>3, <1>4 DEF Grown, SameAbout
<1>6. PICK tx \in Requests :
        /\ Hold(r, tx)
        /\ tx = IF row.query = None THEN Idle
                ELSE [step |-> "commenting", issue |-> row.query, thread |-> new]
  <2>1. CASE row.query = None
    BY <1>1, <2>1, RequestTypes DEF InsertThread
  <2>2. CASE row.query # None
    <3>1. row.query \in Issue
      BY <2>2 DEF ThreadRow
    <3>2. new \in Nat
      BY DEF IInv, TypeOK
    <3>3. [step |-> "commenting", issue |-> row.query, thread |-> new] \in Requests
      BY <3>1, <3>2, RequestTypes
    <3>4. QED
      BY <1>1, <2>2, <3>3 DEF InsertThread
  <2>3. QED
    BY <2>1, <2>2
<1> HIDE DEF new
<1>7. new \in ThreadsOf(row.query)'
  BY <1>4 DEF ThreadsOf
<1>8. Relies(tx)'
  BY <1>6, <1>7 DEF Relies, Idle, ThreadsOf, Ids
<1>9. Relied'
  BY <1>5, <1>6, <1>8, ReliedKept
<1>10. TypeOK'
  BY <1>3, <1>4, <1>6, HoldType DEF IInv, TypeOK
<1>11. Grounded'
  BY <1>3, <1>4 DEF IInv, Grounded
<1>12. SetupBeforeWork'
  <2> SUFFICES ASSUME NEW t \in Ids', threads'[t].subject \notin ConstitutionKinds
               PROVE  isSetupComplete'
    BY DEF SetupBeforeWork, ConstitutionKinds
  <2>1. CASE t \in Ids
    BY <1>4, <1>5, <2>1, SetupStays DEF IInv, SetupBeforeWork, SameAbout
  <2>2. CASE t = new
    <3>1. row.subject \notin ConstitutionKinds
      BY <1>4, <2>2
    <3>2. isSetupComplete
      BY <1>1, <3>1 DEF InsertThread, IInv, Relied, Relies
    <3>3. QED
      BY <1>5, <3>2, SetupStays
  <2>3. QED
    BY <1>4, <2>1, <2>2
<1>13. \A x \in intakes' : Truthful(x)'
  BY <1>3, <1>5, TruthfulStays
<1>14. RedirectIsTruthful'
  BY <1>13 DEF RedirectIsTruthful, Truthful, Told
<1>15. QED
  BY <1>9, <1>10, <1>11, <1>12, <1>14 DEF IInv

LEMMA CommentIssueStep ==
  ASSUME IInv, NEW r \in Handler, CommentIssue(r)
  PROVE  IInv'
<1>1. PICK i \in Issue, t \in Nat :
        inflight[r].issue = i /\ inflight[r].thread = t /\ t \in ThreadsOf(i)
  BY RequestFields DEF CommentIssue, IInv, TypeOK, Relied, Relies
<1>2. PICK tx \in Requests : Hold(r, tx) /\ tx.step = "closing" /\ tx.issue = i /\ tx.thread = t
  BY <1>1, AdvanceType DEF CommentIssue
<1>3. UNCHANGED <<threads, agreements, connected, deliveries, sent, intakes, faults>>
  BY DEF CommentIssue, board
<1>4. issue' = [issue EXCEPT ![i].comments = Append(@, t)]
  BY <1>1 DEF CommentIssue
<1>5. PICK old : old = issue[i].comments /\ old \in Seq(Nat)
  BY DEF IInv, TypeOK
<1>6. /\ issue'[i].comments = Append(old, t) /\ issue'[i].state = issue[i].state
      /\ \A j \in Issue \ {i} : issue'[j] = issue[j]
  BY <1>4, <1>5 DEF IInv, TypeOK
<1>7. /\ Append(old, t) \in Seq(Nat)
      /\ \A k \in DOMAIN old : k \in DOMAIN Append(old, t) /\ Append(old, t)[k] = old[k]
      /\ Len(old) + 1 \in DOMAIN Append(old, t) /\ Append(old, t)[Len(old) + 1] = t
  BY <1>5
<1>8. issue' \in [Issue -> [state : {"none", "open", "closed"}, comments : Seq(Nat)]]
  BY <1>4, <1>5, <1>7 DEF IInv, TypeOK
<1>9. TypeOK'
  BY <1>2, <1>3, <1>8, HoldType DEF IInv, TypeOK, ThreadRow, AgreementRow
<1>10. Grown
  <2>1. \A j \in Issue :
          /\ issue[j].state = "closed" => issue'[j].state = "closed"
          /\ \A k \in DOMAIN issue[j].comments :
               k \in DOMAIN issue'[j].comments /\ issue'[j].comments[k] = issue[j].comments[k]
    BY <1>5, <1>6, <1>7
  <2>2. QED
    BY <1>3, <2>1 DEF Grown, SameAbout, Ids
<1>11. Told(i, t)'
  BY <1>6, <1>7 DEF Told
<1>12. t \in ThreadsOf(i)'
  BY <1>1, <1>10, ThreadsOfStay
<1>13. Relies(tx)'
  BY <1>2, <1>11, <1>12 DEF Relies, Told, ThreadsOf, Ids
<1>14. Relied'
  BY <1>2, <1>10, <1>13, ReliedKept
<1>15. Ids' = Ids
  BY <1>3 DEF Ids
<1>16. QED
  BY <1>3, <1>9, <1>10, <1>14, <1>15, RowsKept DEF IInv

LEMMA CloseIssueStep ==
  ASSUME IInv, NEW r \in Handler, CloseIssue(r)
  PROVE  IInv'
<1>1. PICK i \in Issue, t \in Nat :
        /\ inflight[r].issue = i /\ inflight[r].thread = t
        /\ t \in ThreadsOf(i) /\ Told(i, t)
  <2>1. /\ inflight[r].step = "closing"
        /\ inflight[r].issue \in Issue /\ inflight[r].thread \in Nat
    BY RequestFields DEF CloseIssue, IInv, TypeOK
  <2>2. Relies(inflight[r])
    BY DEF IInv, Relied
  <2>3. QED
    BY <2>1, <2>2 DEF Relies
<1>2. PICK tx \in Requests : Hold(r, tx) /\ tx.step = "recording" /\ tx.issue = i /\ tx.thread = t
  BY <1>1, AdvanceType DEF CloseIssue
<1>3. UNCHANGED <<threads, agreements, connected, deliveries, sent, intakes, faults>>
  BY DEF CloseIssue, board
<1>4. issue' = [issue EXCEPT ![i].state = "closed"]
  BY <1>1 DEF CloseIssue
<1>5. /\ issue'[i].comments = issue[i].comments /\ issue'[i].state = "closed"
      /\ \A j \in Issue \ {i} : issue'[j] = issue[j]
      /\ issue' \in [Issue -> [state : {"none", "open", "closed"}, comments : Seq(Nat)]]
  BY <1>4 DEF IInv, TypeOK
<1>6. TypeOK'
  BY <1>2, <1>3, <1>5, HoldType DEF IInv, TypeOK, ThreadRow, AgreementRow
<1>7. Grown
  BY <1>3, <1>5 DEF Grown, SameAbout, Ids
<1>8. Told(i, t)' /\ t \in ThreadsOf(i)'
  BY <1>1, <1>7, ThreadsOfStay, ToldStays
<1>9. Relies(tx)'
  BY <1>2, <1>5, <1>8 DEF Relies, Told, ThreadsOf, Ids
<1>10. Relied'
  BY <1>2, <1>7, <1>9, ReliedKept
<1>11. Ids' = Ids
  BY <1>3 DEF Ids
<1>12. QED
  BY <1>3, <1>6, <1>7, <1>10, <1>11, RowsKept DEF IInv

\* What is recorded is what the request has just done.
LEMMA RecordIntakeStep ==
  ASSUME IInv, NEW r \in Handler, RecordIntake(r)
  PROVE  IInv'
<1>1. PICK i \in Issue, t \in Nat :
        /\ inflight[r].issue = i /\ inflight[r].thread = t
        /\ t \in ThreadsOf(i) /\ Told(i, t) /\ issue[i].state = "closed"
  <2>1. /\ inflight[r].step = "recording"
        /\ inflight[r].issue \in Issue /\ inflight[r].thread \in Nat
    BY RequestFields DEF RecordIntake, IInv, TypeOK
  <2>2. Relies(inflight[r])
    BY DEF IInv, Relied
  <2>3. QED
    BY <2>1, <2>2 DEF Relies
<1>2. PICK tx \in Requests : tx = Idle
  BY RequestTypes
<1>3. UNCHANGED <<threads, agreements, connected, issue, deliveries, sent, faults>>
  BY DEF RecordIntake, board, github
<1>4. intakes' \subseteq intakes \cup {[issue |-> i, thread |-> t]}
  BY <1>1 DEF RecordIntake
<1>5. Grown /\ Ids' = Ids
  BY <1>3 DEF Grown, SameAbout, Ids
<1>6. Hold(r, tx) /\ Relies(tx)'
  BY <1>2 DEF RecordIntake, Relies, Idle
<1>7. Relied'
  BY <1>5, <1>6, ReliedKept
<1>8. [issue |-> i, thread |-> t] \in [issue : Issue, thread : Nat]
  OBVIOUS
<1>9. TypeOK'
  BY <1>3, <1>4, <1>6, <1>8, HoldType DEF IInv, TypeOK, ThreadRow, AgreementRow
<1>10. \A x \in intakes' : Truthful(x)'
  <2>1. ASSUME NEW x, x = [issue |-> i, thread |-> t] PROVE Truthful(x)'
    <3>1. Told(i, t)' /\ t \in ThreadsOf(i)' /\ issue'[i].state = "closed"
      BY <1>1, <1>3, <1>5, ThreadsOfStay, ToldStays
    <3>2. x.issue = i /\ x.thread = t
      BY <2>1
    <3>3. QED
      BY <3>1, <3>2 DEF Truthful, Told, ThreadsOf, Ids
  <2>2. QED
    BY <1>4, <1>5, <2>1, TruthfulStays
<1>11. RedirectIsTruthful'
  BY <1>10 DEF RedirectIsTruthful, Truthful, Told
<1>12. Grounded' /\ SetupBeforeWork'
  BY <1>3, <1>5 DEF IInv, Grounded, SetupBeforeWork, isSetupComplete, hasActiveSharedArtifact, Ids
<1>13. QED
  BY <1>7, <1>9, <1>11, <1>12 DEF IInv

-----------------------------------------------------------------------------
(* The steps of the decisions.                                              *)

\* A thread goes on to another state or gets another candidate.
LEMMA RowKeeps ==
  ASSUME IInv, NEW t \in Ids, NEW row \in ThreadRow, SameAbout(row, threads[t]),
         threads' = [threads EXCEPT ![t] = row],
         UNCHANGED <<agreements, connected, github, intakes, inflight, faults>>
  PROVE  IInv'
<1>1. UNCHANGED <<issue, deliveries, sent>>
  BY DEF github
<1>2. threads' \in Seq(ThreadRow) /\ Ids' = Ids
      /\ \A u \in Ids : SameAbout(threads'[u], threads[u])
  BY RowReplaced DEF IInv, TypeOK
<1>3. TypeOK'
  BY <1>1, <1>2 DEF IInv, TypeOK
<1>4. Grown
  BY <1>1, <1>2 DEF Grown, SameAbout
<1>5. QED
  BY <1>2, <1>3, <1>4, RowsKept, ReliedKeptByAll DEF IInv

\* The row of a thread, changed in one column.
LEMMA RowFields ==
  ASSUME IInv, NEW t \in Ids
  PROVE  /\ threads[t] \in ThreadRow
         /\ \A a \in Participant \cup {None} :
              /\ [threads[t] EXCEPT !.author = a] \in ThreadRow
              /\ SameAbout([threads[t] EXCEPT !.author = a], threads[t])
         /\ \A state \in {"discussing", "awaiting_decision", "decided"} :
              /\ [threads[t] EXCEPT !.state = state] \in ThreadRow
              /\ SameAbout([threads[t] EXCEPT !.state = state], threads[t])
         /\ \A b \in BOOLEAN :
              /\ [threads[t] EXCEPT !.archived = b] \in ThreadRow
              /\ SameAbout([threads[t] EXCEPT !.archived = b], threads[t])
<1>1. threads[t] \in ThreadRow
  BY DEF IInv, TypeOK, Ids
<1>2. QED
  BY <1>1 DEF ThreadRow, SameAbout

LEMMA SelectCandidateStep ==
  ASSUME IInv, NEW t \in 1 .. MaxThreads, NEW who \in Participant, SelectCandidate(t, who)
  PROVE  IInv'
<1>1. t \in Ids
  BY DEF SelectCandidate
<1>2. threads' = [threads EXCEPT ![t] = [threads[t] EXCEPT !.author = who]]
  BY DEF SelectCandidate
<1>3. QED
  BY <1>1, <1>2, RowFields, RowKeeps DEF SelectCandidate

LEMMA RequestRatificationStep ==
  ASSUME IInv, NEW t \in 1 .. MaxThreads, RequestRatification(t)
  PROVE  IInv'
<1>1. t \in Ids
  BY DEF RequestRatification
<1>2. threads' = [threads EXCEPT ![t] = [threads[t] EXCEPT !.state = "awaiting_decision"]]
  BY DEF RequestRatification
<1>3. QED
  BY <1>1, <1>2, RowFields, RowKeeps DEF RequestRatification

LEMMA SendBackStep ==
  ASSUME IInv, NEW t \in 1 .. MaxThreads, SendBack(t)
  PROVE  IInv'
<1>1. t \in Ids
  BY DEF SendBack
<1>2. threads' = [threads EXCEPT ![t] = [threads[t] EXCEPT !.state = "discussing"]]
  BY DEF SendBack
<1>3. QED
  BY <1>1, <1>2, RowFields, RowKeeps DEF SendBack

LEMMA ArchiveStep ==
  ASSUME IInv, NEW t \in 1 .. MaxThreads, archiveThread(t)
  PROVE  IInv'
<1>1. t \in Ids
  BY DEF archiveThread
<1>2. threads' = [threads EXCEPT ![t] = [threads[t] EXCEPT !.archived = TRUE]]
  BY DEF archiveThread
<1>3. QED
  BY <1>1, <1>2, RowFields, RowKeeps DEF archiveThread

\* A thread is settled: its row and the agreement, in one step.
LEMMA SettleGrows ==
  ASSUME IInv, NEW t \in Ids, NEW binding \in BOOLEAN, NEW by \in Participant \cup {None},
         NEW how \in {"founding", "ratification", "consensus"}, Settle(t, binding, by, how),
         UNCHANGED issue
  PROVE  /\ threads' \in Seq(ThreadRow) /\ agreements' \in Seq(AgreementRow)
         /\ Ids' = Ids /\ Grown /\ Grounded'
         /\ DOMAIN agreements' = DOMAIN agreements \cup {Len(agreements) + 1}
<1> DEFINE row == [threads[t] EXCEPT !.state = "decided"]
           a == [thread |-> t, binding |-> binding, by |-> by, how |-> how]
<1>1. row \in ThreadRow /\ SameAbout(row, threads[t])
  BY RowFields
<1>2. threads' = [threads EXCEPT ![t] = row]
  BY DEF Settle
<1>3. t \in Nat
  BY DEF Ids, IInv, TypeOK
<1>4. a \in AgreementRow
  BY <1>3 DEF AgreementRow
<1>5. agreements' = Append(agreements, a)
  BY DEF Settle
<1> HIDE DEF row, a
<1>6. /\ threads' \in Seq(ThreadRow) /\ Ids' = Ids
      /\ \A u \in Ids : SameAbout(threads'[u], threads[u])
  BY <1>1, <1>2, RowReplaced DEF IInv, TypeOK
<1>7. /\ agreements' \in Seq(AgreementRow)
      /\ DOMAIN agreements' = DOMAIN agreements \cup {Len(agreements) + 1}
      /\ Len(agreements) + 1 \notin DOMAIN agreements
      /\ agreements'[Len(agreements) + 1] = a
      /\ \A k \in DOMAIN agreements : agreements'[k] = agreements[k]
  BY <1>4, <1>5, AgreementAppended DEF IInv, TypeOK
<1>8. Grown
  BY <1>6, <1>7 DEF Grown, SameAbout
<1>9. Grounded'
  BY <1>6, <1>7 DEF Grounded, IInv, a
<1>10. QED
  BY <1>6, <1>7, <1>8, <1>9

LEMMA DecideByConsensusStep ==
  ASSUME IInv, NEW t \in 1 .. MaxThreads, NEW b \in BOOLEAN, DecideByConsensus(t, b)
  PROVE  IInv'
<1>1. t \in Ids /\ Settle(t, b, None, "consensus")
  BY DEF DecideByConsensus
<1>2. UNCHANGED <<connected, issue, deliveries, sent, intakes, inflight, faults>>
  BY DEF DecideByConsensus, github
<1>3. /\ threads' \in Seq(ThreadRow) /\ agreements' \in Seq(AgreementRow)
      /\ Ids' = Ids /\ Grown /\ Grounded'
  BY <1>1, <1>2, SettleGrows
<1>4. TypeOK'
  BY <1>2, <1>3 DEF IInv, TypeOK
<1>5. QED
  BY <1>2, <1>3, <1>4, RowsKept, ReliedKeptByAll DEF IInv

LEMMA CommitRatifyStep ==
  ASSUME IInv, NEW r \in Handler, NEW b \in BOOLEAN, CommitRatify(r, b)
  PROVE  IInv'
<1>1. PICK t \in Ids : t = inflight[r].thread
  BY DEF CommitRatify, IInv, Relied, Relies
<1>2. threads[t].author \in Participant \cup {None}
  BY RowFields DEF ThreadRow
<1>3. Settle(t, b, threads[t].author, "ratification")
  BY <1>1 DEF CommitRatify
<1>4. UNCHANGED <<connected, issue, deliveries, sent, intakes, faults>>
  BY DEF CommitRatify, github
<1>5. /\ threads' \in Seq(ThreadRow) /\ agreements' \in Seq(AgreementRow)
      /\ Ids' = Ids /\ Grown /\ Grounded'
  BY <1>2, <1>3, <1>4, SettleGrows
<1>6. PICK tx \in Requests : tx = Idle
  BY RequestTypes
<1>7. Hold(r, tx) /\ Relies(tx)'
  BY <1>6 DEF CommitRatify, Relies, Idle
<1>8. TypeOK'
  BY <1>4, <1>5, <1>7, HoldType DEF IInv, TypeOK
<1>9. QED
  BY <1>4, <1>5, <1>7, <1>8, RowsKept, ReliedKept DEF IInv

-----------------------------------------------------------------------------
(* GitHub and the installation.                                             *)

LEMMA TurnAwayStep ==
  ASSUME IInv, NEW r \in Handler, NEW i \in Issue, TurnAway(r, i)
  PROVE  IInv'
<1>1. UNCHANGED <<threads, agreements, connected, issue, intakes, inflight, faults>>
  BY TakeType DEF TurnAway, board
<1>2. deliveries' \in [Issue -> Nat] /\ sent' \in [Issue -> Nat]
  BY TakeType DEF TurnAway
<1>3. QED
  BY <1>1, <1>2, NothingStoredKeeps DEF IInv, TypeOK

\* An issue that is opened was not there, so no closing is undone.
LEMMA OpenIssueStep ==
  ASSUME IInv, NEW i \in Issue, OpenIssue(i)
  PROVE  IInv'
<1>1. UNCHANGED <<threads, agreements, connected, intakes, inflight, faults>>
  BY DEF OpenIssue, board
<1>2. issue' = [issue EXCEPT ![i].state = "open"]
  BY DEF OpenIssue
<1>3. /\ issue'[i].comments = issue[i].comments /\ issue[i].state # "closed"
      /\ \A j \in Issue \ {i} : issue'[j] = issue[j]
      /\ issue' \in [Issue -> [state : {"none", "open", "closed"}, comments : Seq(Nat)]]
  BY <1>2 DEF OpenIssue, IInv, TypeOK
<1>4. deliveries' \in [Issue -> Nat] /\ sent' \in [Issue -> Nat]
  BY DEF OpenIssue, IInv, TypeOK
<1>5. TypeOK'
  BY <1>1, <1>3, <1>4 DEF IInv, TypeOK, ThreadRow, AgreementRow, Requests, Idle
<1>6. Grown /\ Ids' = Ids
  BY <1>1, <1>3 DEF Grown, SameAbout, Ids
<1>7. QED
  BY <1>1, <1>5, <1>6, RowsKept, ReliedKeptByAll DEF IInv

LEMMA RedeliverStep ==
  ASSUME IInv, NEW i \in Issue, Redeliver(i)
  PROVE  IInv'
<1>1. deliveries' \in [Issue -> Nat] /\ sent' \in [Issue -> Nat]
  BY DEF Redeliver, IInv, TypeOK
<1>2. QED
  BY <1>1, NothingStoredKeeps DEF Redeliver, board, IInv, TypeOK

LEMMA ConnectStep == ASSUME IInv, ConnectInstallation PROVE IInv'
  BY NothingStoredKeeps DEF ConnectInstallation, github, IInv, TypeOK

-----------------------------------------------------------------------------
(* The whole. *)

\* At first there are the founding artifacts, if any, each with its agreement.
LEMMA InitIInv == Init => IInv
<1> SUFFICES ASSUME Init PROVE IInv
  OBVIOUS
<1>1. PICK kinds \in Founding :
        /\ threads = [i \in DOMAIN kinds |-> FoundingThread(kinds[i])]
        /\ agreements = [i \in DOMAIN kinds |->
                           [thread |-> i, binding |-> TRUE, by |-> None, how |-> "founding"]]
  BY DEF Init
<1>2. kinds \in Seq(ConstitutionKinds)
  <2>1. "project_rule" \in ConstitutionKinds /\ "thread_template" \in ConstitutionKinds
    BY DEF ConstitutionKinds
  <2>2. /\ <<>> \in Seq(ConstitutionKinds)
        /\ <<"project_rule">> \in Seq(ConstitutionKinds)
        /\ <<"thread_template">> \in Seq(ConstitutionKinds)
        /\ <<"project_rule", "thread_template">> \in Seq(ConstitutionKinds)
    BY <2>1
  <2>3. QED
    BY <2>2 DEF Founding
<1>3. \A kind \in ConstitutionKinds :
        FoundingThread(kind) \in ThreadRow /\ FoundingThread(kind).subject = kind
  BY ConstantsOK DEF FoundingThread, NewThread, ThreadRow, ConsensusOf, ConsensusTypes,
     ConstitutionKinds, Subjects
<1>4. threads \in Seq(ThreadRow) /\ Ids = DOMAIN kinds
  BY <1>1, <1>2, <1>3 DEF Ids
<1>5. agreements \in Seq(AgreementRow) /\ DOMAIN agreements = DOMAIN kinds
  <2>1. \A i \in Nat : [thread |-> i, binding |-> TRUE, by |-> None, how |-> "founding"]
                       \in AgreementRow
    BY DEF AgreementRow
  <2>2. Len(kinds) \in Nat /\ DOMAIN kinds = 1 .. Len(kinds)
    BY <1>2
  <2>3. agreements \in [1 .. Len(kinds) -> AgreementRow]
    BY <1>1, <2>1, <2>2
  <2>4. QED
    BY <2>2, <2>3, IsASeq
<1>6. inflight \in [Handler -> Requests] /\ \A r \in Handler : inflight[r].step = "idle"
  BY RequestTypes DEF Init, Idle
<1>7. issue \in [Issue -> [state : {"none", "open", "closed"}, comments : Seq(Nat)]]
  BY DEF Init
<1>8. TypeOK
  <2>1. 0 \in 0 .. MaxFaults
    BY ConstantsOK
  <2>2. deliveries \in [Issue -> Nat] /\ sent \in [Issue -> Nat]
    BY DEF Init
  <2>3. QED
    BY <1>4, <1>5, <1>6, <1>7, <2>1, <2>2 DEF Init, TypeOK
<1>9. Grounded
  BY <1>1, <1>4, <1>5 DEF Grounded
<1>10. SetupBeforeWork
  BY <1>1, <1>2, <1>3, <1>4 DEF SetupBeforeWork
<1>11. QED
  BY <1>6, <1>8, <1>9, <1>10 DEF IInv, Relied, Relies, Init, RedirectIsTruthful

LEMMA NextIInv == IInv /\ [Next]_vars => IInv'
<1> SUFFICES ASSUME IInv, [Next]_vars PROVE IInv'
  OBVIOUS
<1>1. ASSUME NEW r \in Handler,
             \/ \E subject \in Subjects, asked \in ConsensusTypes, checked \in BOOLEAN :
                  CheckCreate(r, subject, asked, checked)
             \/ InsertThread(r)
             \/ \E t \in 1 .. MaxThreads : CheckRatify(r, t)
             \/ \E b \in BOOLEAN : CommitRatify(r, b)
             \/ \E i \in Issue : TurnAway(r, i) \/ TakeIn(r, i)
             \/ CommentIssue(r) \/ CloseIssue(r) \/ RecordIntake(r) \/ FailIntake(r)
      PROVE IInv'
  BY <1>1, CheckCreateStep, InsertThreadStep, CheckRatifyStep, CommitRatifyStep,
     TurnAwayStep, TakeInStep, CommentIssueStep, CloseIssueStep, RecordIntakeStep,
     FailIntakeStep
<1>2. ASSUME NEW t \in 1 .. MaxThreads,
             \/ \E who \in Participant : SelectCandidate(t, who)
             \/ \E b \in BOOLEAN : DecideByConsensus(t, b)
             \/ RequestRatification(t) \/ SendBack(t) \/ archiveThread(t)
      PROVE IInv'
  BY <1>2, SelectCandidateStep, DecideByConsensusStep, RequestRatificationStep,
     SendBackStep, ArchiveStep
<1>3. ASSUME NEW i \in Issue, OpenIssue(i) \/ Redeliver(i) PROVE IInv'
  BY <1>3, OpenIssueStep, RedeliverStep
<1>4. CASE ConnectInstallation
  BY <1>4, ConnectStep
<1>5. CASE UNCHANGED vars
  BY <1>5, NothingStoredKeeps DEF vars, board, github, IInv, TypeOK
<1>6. QED
  BY <1>1, <1>2, <1>3, <1>4, <1>5 DEF Next

\* The invariant holds in every state that can be reached.
THEOREM Inductive == Spec => []IInv
  BY InitIInv, NextIInv, PTL DEF Spec

-----------------------------------------------------------------------------
(* One thread of an issue.  An intake looks for the thread of its issue and *)
(* inserts one later, so that it takes more than the rows: as long as no    *)
(* other intake is under way, what it did not find stays absent.            *)

OneIntake ==
  \A r, q \in Handler : IsIntake(inflight[r]) /\ IsIntake(inflight[q]) => r = q

\* What a request is about to insert is the first thread of its issue.
First(tx) == tx.step = "creating" /\ tx.row.query # None => ThreadsOf(tx.row.query) = {}

\* No two threads are of one issue.
Distinct ==
  \A t, u \in Ids : threads[t].query \in Issue /\ threads[t].query = threads[u].query => t = u

IntakeInv ==
  Apart => OneIntake /\ (\A r \in Handler : First(inflight[r])) /\ Distinct

\* Requests that change no thread's issue: the others by their steps.
LEMMA IntakeKept ==
  ASSUME IInv, Apart, IntakeInv, NEW r \in Handler, NEW tx \in Requests, Hold(r, tx),
         IsIntake(tx) => IsIntake(inflight[r]) \/ NoIntake,
         First(tx),
         Ids' = Ids, \A t \in Ids : threads'[t].query = threads[t].query
  PROVE  IntakeInv'
<1>1. /\ inflight'[r] = tx
      /\ \A q \in Handler \ {r} : inflight'[q] = inflight[q]
  BY HoldType DEF IInv, TypeOK
<1>2. \A i \in Issue : ThreadsOf(i)' = ThreadsOf(i)
  BY DEF ThreadsOf
<1>3. \A q, p \in Handler :
        IsIntake(inflight'[q]) /\ IsIntake(inflight'[p]) => q = p
  BY <1>1 DEF IntakeInv, OneIntake, NoIntake
<1>4. \A q \in Handler : First(inflight'[q])
  BY <1>1 DEF IntakeInv
<1>5. \A q \in Handler :
        inflight'[q].step = "creating" /\ inflight'[q].row.query # None =>
          inflight'[q].row.query \in Issue
  BY <1>1, RequestFields DEF IInv, TypeOK, ThreadRow
<1>6. \A q \in Handler : First(inflight[q])'
  BY <1>2, <1>4, <1>5 DEF First
<1>7. Distinct'
  BY DEF IntakeInv, Distinct
<1>8. QED
  BY <1>3, <1>6, <1>7 DEF IntakeInv, OneIntake, IsIntake

\* Nor do the steps that are of no request.
LEMMA IntakeKeptByAll ==
  ASSUME IntakeInv, UNCHANGED inflight,
         Ids' = Ids, \A t \in Ids : threads'[t].query = threads[t].query
  PROVE  IntakeInv'
<1>1. \A i : ThreadsOf(i)' = ThreadsOf(i)
  BY DEF ThreadsOf
<1>2. QED
  BY <1>1 DEF IntakeInv, OneIntake, First, Distinct, IsIntake

\* The intake that looked for a thread inserts one.
LEMMA InsertThreadDistinct ==
  ASSUME IInv, Apart, IntakeInv, NEW r \in Handler, InsertThread(r)
  PROVE  IntakeInv'
<1> DEFINE new == Len(threads) + 1
<1>1. PICK row \in ThreadRow : row = inflight[r].row
  BY RequestFields DEF InsertThread, IInv, TypeOK
<1>2. /\ Ids' = Ids \cup {new} /\ threads'[new] = row
      /\ \A u \in Ids : threads'[u] = threads[u]
  BY <1>1, RowAppended DEF InsertThread, IInv, TypeOK
<1>3. row.query # None => ThreadsOf(row.query) = {}
  BY <1>1 DEF InsertThread, IntakeInv, First
<1>4. Distinct'
  BY <1>2, <1>3, ConstantsOK DEF IntakeInv, Distinct, ThreadsOf
<1>5. PICK tx : /\ Hold(r, tx) /\ tx.step \in {"idle", "commenting"}
                /\ IsIntake(tx) => row.query # None
  <2>1. CASE row.query = None
    BY <1>1, <2>1 DEF InsertThread, IsIntake, Idle
  <2>2. CASE row.query # None
    BY <1>1, <2>2 DEF InsertThread, IsIntake
  <2>3. QED
    BY <2>1, <2>2
<1>6. inflight'[r] = tx /\ \A q \in Handler \ {r} : inflight'[q] = inflight[q]
  BY <1>5 DEF Hold, IInv, TypeOK
<1>7. IsIntake(tx) => IsIntake(inflight[r])
  BY <1>1, <1>5 DEF IsIntake, InsertThread
<1>8. \A q, p \in Handler : IsIntake(inflight'[q]) /\ IsIntake(inflight'[p]) => q = p
  BY <1>6, <1>7 DEF IntakeInv, OneIntake
<1>9. ASSUME NEW q \in Handler, inflight'[q].step = "creating", inflight'[q].row.query # None
      PROVE  ThreadsOf(inflight[q].row.query)' = {}
  <2>1. q # r /\ inflight'[q] = inflight[q]
    BY <1>5, <1>6, <1>9
  <2>2. IsIntake(inflight[q])
    BY <1>9, <2>1 DEF IsIntake
  <2>3. ~IsIntake(inflight[r])
    BY <2>1, <2>2 DEF IntakeInv, OneIntake
  <2>4. row.query = None
    BY <1>1, <2>3 DEF IsIntake, InsertThread
  <2>5. PICK i : i = inflight[q].row.query /\ i # None
    BY <1>9, <2>1
  <2>6. ThreadsOf(i) = {}
    BY <1>9, <2>1, <2>5 DEF IntakeInv, First
  <2>7. ThreadsOf(i)' = {}
    BY <1>2, <2>4, <2>5, <2>6 DEF ThreadsOf
  <2>8. QED
    BY <2>1, <2>5, <2>7 DEF ThreadsOf
<1>10. \A q \in Handler : First(inflight[q])'
  BY <1>9 DEF First
<1>11. QED
  BY <1>4, <1>8, <1>10 DEF IntakeInv, OneIntake, IsIntake

\* No other step than an insert changes what threads there are of an issue.
LEMMA DecisionsChangeNoQuery ==
  ASSUME IInv, NEW t,
         \/ \E who \in Participant : SelectCandidate(t, who)
         \/ \E b \in BOOLEAN : DecideByConsensus(t, b)
         \/ RequestRatification(t) \/ SendBack(t) \/ archiveThread(t)
         \/ \E r \in Handler, b \in BOOLEAN : CommitRatify(r, b)
  PROVE  Ids' = Ids /\ \A u \in Ids : SameAbout(threads'[u], threads[u])
<1> DEFINE Goal == Ids' = Ids /\ \A u \in Ids : SameAbout(threads'[u], threads[u])
<1>1. ASSUME NEW k \in Ids,
             \/ \E a : threads' = [threads EXCEPT ![k].author = a]
             \/ \E a : threads' = [threads EXCEPT ![k].state = a]
             \/ \E a : threads' = [threads EXCEPT ![k].archived = a]
      PROVE  Goal
  <2>1. threads \in [Ids -> ThreadRow] /\ DOMAIN threads = Ids
    BY DEF IInv, TypeOK, Ids
  <2>2. PICK row : /\ threads' = [threads EXCEPT ![k] = row]
                   /\ SameAbout(row, threads[k])
    BY <1>1, <2>1 DEF SameAbout, ThreadRow
  <2>3. QED
    BY <2>1, <2>2 DEF SameAbout, Ids
<1>2. ASSUME NEW r \in Handler, NEW b \in BOOLEAN, CommitRatify(r, b) PROVE Goal
  <2>1. inflight[r].thread \in Ids
    BY <1>2 DEF CommitRatify, IInv, Relied, Relies
  <2>2. QED
    BY <1>1, <1>2, <2>1 DEF CommitRatify, Settle
<1>3. CASE \E who \in Participant : SelectCandidate(t, who)
  BY <1>1, <1>3 DEF SelectCandidate
<1>4. CASE \E b \in BOOLEAN : DecideByConsensus(t, b)
  BY <1>1, <1>4 DEF DecideByConsensus, Settle
<1>5. CASE RequestRatification(t) \/ SendBack(t) \/ archiveThread(t)
  BY <1>1, <1>5 DEF RequestRatification, SendBack, archiveThread
<1>6. QED
  BY <1>2, <1>3, <1>4, <1>5

LEMMA IntakeSteps == IInv /\ IntakeInv /\ [Next]_vars => IntakeInv'
<1> SUFFICES ASSUME IInv, IntakeInv, [Next]_vars, Apart PROVE IntakeInv'
  BY DEF IntakeInv
<1> DEFINE Same == Ids' = Ids /\ \A t \in Ids : threads'[t].query = threads[t].query
<1>s. UNCHANGED threads => Same
  BY DEF Ids
<1>i. ASSUME NEW r \in Handler, Hold(r, Idle), Same PROVE IntakeInv'
  <2>1. Idle \in Requests /\ ~IsIntake(Idle) /\ First(Idle)
    BY RequestTypes DEF IsIntake, Idle, First
  <2>2. QED
    BY <1>i, <2>1, IntakeKept
<1>1. ASSUME NEW r \in Handler, NEW subject \in Subjects, NEW asked \in ConsensusTypes,
             NEW checked \in BOOLEAN, CheckCreate(r, subject, asked, checked)
      PROVE IntakeInv'
  <2>1. PICK row \in ThreadRow :
          row = NewThread(subject, ConsensusOf(subject, asked), None) /\ row.query = None
    BY NewThreadType, ConsensusOfType
  <2>2. PICK tx \in Requests : tx = [step |-> "creating", row |-> row]
    BY RequestTypes
  <2>3. Hold(r, tx) /\ ~IsIntake(tx) /\ First(tx)
    BY <1>1, <2>1, <2>2 DEF CheckCreate, IsIntake, First
  <2>4. QED
    BY <1>1, <1>s, <2>3, IntakeKept DEF CheckCreate, board
<1>2. ASSUME NEW r \in Handler, InsertThread(r) PROVE IntakeInv'
  BY <1>2, InsertThreadDistinct
<1>3. ASSUME NEW r \in Handler, NEW t \in 1 .. MaxThreads, CheckRatify(r, t)
      PROVE IntakeInv'
  <2>1. t \in Nat
    OBVIOUS
  <2>2. PICK tx \in Requests : tx = [step |-> "ratifying", thread |-> t]
    BY <2>1, RequestTypes
  <2>3. Hold(r, tx) /\ ~IsIntake(tx) /\ First(tx)
    BY <1>3, <2>2 DEF CheckRatify, IsIntake, First
  <2>4. QED
    BY <1>3, <1>s, <2>3, IntakeKept DEF CheckRatify, board
<1>4. ASSUME NEW r \in Handler, NEW b \in BOOLEAN, CommitRatify(r, b) PROVE IntakeInv'
  BY <1>4, <1>i, DecisionsChangeNoQuery DEF CommitRatify, SameAbout
<1>5. ASSUME NEW r \in Handler, NEW i \in Issue, TurnAway(r, i) PROVE IntakeInv'
  BY <1>5, <1>s, IntakeKeptByAll DEF TurnAway, board
<1>6. ASSUME NEW r \in Handler, NEW i \in Issue, TakeIn(r, i) PROVE IntakeInv'
  <2>1. NoIntake /\ Same
    BY <1>6, <1>s DEF TakeIn, MayTake, board
  <2>2. PICK tx \in Requests : Hold(r, tx) /\ First(tx)
    <3>1. CASE \E t \in ThreadsOf(i) :
                 Hold(r, [step |-> "commenting", issue |-> i, thread |-> t])
      <4>1. PICK t \in ThreadsOf(i) :
              Hold(r, [step |-> "commenting", issue |-> i, thread |-> t])
        BY <3>1
      <4>2. t \in Nat
        BY DEF ThreadsOf, Ids, IInv, TypeOK
      <4>3. QED
        BY <4>1, <4>2, RequestTypes DEF First
    <3>2. CASE /\ ThreadsOf(i) = {}
               /\ Hold(r, [step |-> "creating", row |-> NewThread("talk", "rough", i)])
      <4>1. PICK row \in ThreadRow : row = NewThread("talk", "rough", i) /\ row.query = i
        BY NewThreadType DEF Subjects, ConsensusTypes
      <4>2. QED
        BY <3>2, <4>1, RequestTypes DEF First
    <3>3. QED
      BY <1>6, <3>1, <3>2 DEF TakeIn
  <2>3. QED
    BY <2>1, <2>2, IntakeKept
<1>7. ASSUME NEW r \in Handler, NEW step \in {"closing", "recording"}, Advance(r, step),
             inflight[r].step \in {"commenting", "closing", "recording"}, UNCHANGED board
      PROVE  IntakeInv'
  <2>1. PICK tx \in Requests : Hold(r, tx) /\ tx.step = step
    BY <1>7, AdvanceType
  <2>2. IsIntake(inflight[r]) /\ First(tx)
    BY <1>7, <2>1 DEF IsIntake, First
  <2>3. QED
    BY <1>7, <1>s, <2>1, <2>2, IntakeKept DEF board
<1>8. ASSUME NEW r \in Handler, CommentIssue(r) \/ CloseIssue(r) PROVE IntakeInv'
  BY <1>7, <1>8 DEF CommentIssue, CloseIssue
<1>9. ASSUME NEW r \in Handler, RecordIntake(r) \/ FailIntake(r) PROVE IntakeInv'
  BY <1>9, <1>i, <1>s DEF RecordIntake, FailIntake, board
<1>10. ASSUME NEW t \in 1 .. MaxThreads,
             \/ \E who \in Participant : SelectCandidate(t, who)
             \/ \E b \in BOOLEAN : DecideByConsensus(t, b)
             \/ RequestRatification(t) \/ SendBack(t) \/ archiveThread(t)
      PROVE IntakeInv'
  <2>1. UNCHANGED inflight
    BY <1>10 DEF SelectCandidate, DecideByConsensus, RequestRatification, SendBack,
       archiveThread
  <2>2. QED
    BY <1>10, <2>1, DecisionsChangeNoQuery, IntakeKeptByAll DEF SameAbout
<1>11. ASSUME NEW i \in Issue, OpenIssue(i) \/ Redeliver(i) PROVE IntakeInv'
  BY <1>11, <1>s, IntakeKeptByAll DEF OpenIssue, Redeliver, board
<1>12. CASE ConnectInstallation
  BY <1>12, <1>s, IntakeKeptByAll DEF ConnectInstallation
<1>13. CASE UNCHANGED vars
  BY <1>13, <1>s, IntakeKeptByAll DEF vars, board
<1>14. QED
  BY <1>1, <1>2, <1>3, <1>4, <1>5, <1>6, <1>8, <1>9, <1>10, <1>11, <1>12, <1>13 DEF Next

-----------------------------------------------------------------------------
(* Amendments.  A rule is ratified whatever was asked for, and who ratifies *)
(* may still do so when the ratification is written, because no other       *)
(* declaration comes in between.                                            *)

RuleRatified(row) == row.subject = "project_rule" => row.consensus = "human_ratification"

\* A ratification that has passed its checks would pass them again.
Entitled(tx) == tx.step = "ratifying" => MayRatify(tx.thread)

OneRatification ==
  \A r, q \in Handler :
    inflight[r].step = "ratifying" /\ inflight[q].step = "ratifying" => r = q

AmendInv ==
  /\ \A t \in Ids : RuleRatified(threads[t])
  /\ \A r \in Handler : inflight[r].step = "creating" => RuleRatified(inflight[r].row)
  /\ Apart => /\ OneRatification
              /\ \A r \in Handler : Entitled(inflight[r])
              /\ AmendedByAnother

\* While no agreement is added and no thread changes what it is about, a kind
\* is founded when it was, and who could ratify can.
LEMMA MayRatifyStays ==
  ASSUME IInv, UNCHANGED agreements, Ids \subseteq Ids',
         \A u \in Ids : SameAbout(threads'[u], threads[u]),
         NEW t \in Ids, threads'[t].author = threads[t].author, MayRatify(t)
  PROVE  MayRatify(t)'
<1>1. \A kind : hasActiveSharedArtifact(kind)' <=> hasActiveSharedArtifact(kind)
  BY DEF hasActiveSharedArtifact, IInv, Grounded, SameAbout
<1>2. QED
  BY <1>1 DEF MayRatify, SameAbout

LEMMA AmendedStays ==
  ASSUME IInv, UNCHANGED agreements, Ids \subseteq Ids',
         \A u \in Ids : SameAbout(threads'[u], threads[u]), AmendedByAnother
  PROVE  AmendedByAnother'
<1>1. \A k \in DOMAIN agreements :
        threads'[agreements[k].thread].subject = threads[agreements[k].thread].subject
  BY DEF IInv, Grounded, SameAbout
<1>2. QED
  BY <1>1 DEF AmendedByAnother

\* Rows stay about what they are, and the new ones are as a rule must be.
LEMMA RulesStay ==
  ASSUME AmendInv, Ids \subseteq Ids', \A u \in Ids : SameAbout(threads'[u], threads[u]),
         \A u \in Ids' \ Ids : RuleRatified(threads'[u])
  PROVE  \A u \in Ids' : RuleRatified(threads'[u])
  BY DEF AmendInv, RuleRatified, SameAbout

\* One request goes on and no agreement is added.
LEMMA AmendKept ==
  ASSUME IInv, AmendInv, UNCHANGED agreements, Ids \subseteq Ids',
         \A u \in Ids : SameAbout(threads'[u], threads[u]),
         \A u \in Ids : threads'[u].author = threads[u].author,
         \A u \in Ids' \ Ids : RuleRatified(threads'[u]),
         NEW r \in Handler, NEW tx \in Requests, Hold(r, tx),
         tx.step = "creating" => RuleRatified(tx.row),
         tx.step = "ratifying" => NoDeclaration /\ tx.thread \in Ids /\ MayRatify(tx.thread)
  PROVE  AmendInv'
<1>1. /\ inflight'[r] = tx
      /\ \A q \in Handler \ {r} : inflight'[q] = inflight[q]
  BY HoldType DEF IInv, TypeOK
<1>2. \A u \in Ids' : RuleRatified(threads'[u])
  BY RulesStay
<1>3. \A q \in Handler : inflight'[q].step = "creating" => RuleRatified(inflight'[q].row)
  BY <1>1 DEF AmendInv
<1>4. ASSUME Apart PROVE OneRatification' /\ AmendedByAnother'
  <2>1. OneRatification'
    BY <1>1, <1>4 DEF AmendInv, OneRatification, NoDeclaration
  <2>2. QED
    BY <1>4, <2>1, AmendedStays DEF AmendInv
<1>5. ASSUME Apart, NEW q \in Handler PROVE Entitled(inflight[q])'
  <2> SUFFICES ASSUME inflight'[q].step = "ratifying"
               PROVE  MayRatify(inflight[q].thread)'
    BY DEF Entitled
  <2>1. PICK t \in Ids : t = inflight'[q].thread /\ MayRatify(t)
    BY <1>1, <1>5 DEF AmendInv, Entitled, IInv, Relied, Relies
  <2>2. MayRatify(t)'
    BY <2>1, MayRatifyStays
  <2>3. QED
    BY <2>1, <2>2 DEF MayRatify, hasActiveSharedArtifact
<1>6. QED
  BY <1>2, <1>3, <1>4, <1>5 DEF AmendInv, RuleRatified

\* No request goes on and no agreement is added; a candidate may change when no
\* ratification is under way.
LEMMA AmendKeptByAll ==
  ASSUME IInv, AmendInv, UNCHANGED <<agreements, inflight>>, Ids' = Ids,
         \A u \in Ids : SameAbout(threads'[u], threads[u]),
         NoDeclaration \/ \A u \in Ids : threads'[u].author = threads[u].author
  PROVE  AmendInv'
<1>1. \A u \in Ids' : RuleRatified(threads'[u])
  BY RulesStay
<1>2. ASSUME Apart PROVE OneRatification' /\ AmendedByAnother'
  BY <1>2, AmendedStays DEF AmendInv, OneRatification
<1>3. ASSUME Apart, NEW q \in Handler PROVE Entitled(inflight[q])'
  <2> SUFFICES ASSUME inflight'[q].step = "ratifying"
               PROVE  MayRatify(inflight[q].thread)'
    BY DEF Entitled
  <2>1. PICK t \in Ids : t = inflight[q].thread /\ MayRatify(t)
    BY <1>3 DEF AmendInv, Entitled, IInv, Relied, Relies
  <2>2. \A u \in Ids : threads'[u].author = threads[u].author
    BY <1>3 DEF NoDeclaration
  <2>3. MayRatify(t)'
    BY <2>1, <2>2, MayRatifyStays
  <2>4. QED
    BY <2>1, <2>3 DEF MayRatify, hasActiveSharedArtifact
<1>4. QED
  BY <1>1, <1>2, <1>3 DEF AmendInv, RuleRatified

\* An agreement is added that stands up to the earlier ones of its kind.
LEMMA AmendSettled ==
  ASSUME IInv, AmendInv, NEW t \in Ids, NEW binding \in BOOLEAN,
         NEW by \in Participant \cup {None}, NEW how \in {"ratification", "consensus"},
         Settle(t, binding, by, how), UNCHANGED issue,
         Apart /\ how = "ratification" => MayRatify(t) /\ by = threads[t].author,
         how = "consensus" => threads[t].consensus = "rough",
         \A r \in Handler : inflight'[r] # inflight[r] => inflight'[r] = Idle,
         Apart => \A r \in Handler : inflight'[r].step # "ratifying"
  PROVE  AmendInv'
<1> DEFINE new == Len(agreements) + 1
<1>1. /\ Ids' = Ids /\ Grown
      /\ DOMAIN agreements' = DOMAIN agreements \cup {new}
      /\ agreements'[new] = [thread |-> t, binding |-> binding, by |-> by, how |-> how]
  <2>1. how \in {"founding", "ratification", "consensus"}
    OBVIOUS
  <2>2. Ids' = Ids /\ Grown /\ DOMAIN agreements' = DOMAIN agreements \cup {new}
    BY <2>1, SettleGrows
  <2>3. agreements'[new] = [thread |-> t, binding |-> binding, by |-> by, how |-> how]
    BY DEF Settle, IInv, TypeOK
  <2>4. QED
    BY <2>2, <2>3
<1>2. \A k \in DOMAIN agreements : k < new /\ k \in Nat
  BY DEF IInv, TypeOK
<1> HIDE DEF new
<1>3. /\ \A u \in Ids : SameAbout(threads'[u], threads[u])
      /\ \A k \in DOMAIN agreements : agreements'[k] = agreements[k]
  BY <1>1 DEF Grown
<1>4. \A u \in Ids' : RuleRatified(threads'[u])
  BY <1>1, <1>3, RulesStay
<1>5. \A q \in Handler : inflight'[q].step = "creating" => RuleRatified(inflight'[q].row)
  BY DEF AmendInv, Idle
<1>6. ASSUME Apart PROVE AmendedByAnother'
  <2> DEFINE Kind(k) == threads[agreements[k].thread].subject
  <2>1. \A k \in DOMAIN agreements : threads'[agreements'[k].thread].subject = Kind(k)
    BY <1>3 DEF IInv, Grounded, SameAbout
  <2>2. threads'[agreements'[new].thread].subject = threads[t].subject
    BY <1>1, <1>3 DEF SameAbout
  <2>3. ASSUME NEW k \in DOMAIN agreements, Kind(k) = threads[t].subject
        PROVE  /\ how = "ratification" => by # Owner
               /\ threads[t].subject = "project_rule" => how = "ratification"
    <3>1. hasActiveSharedArtifact(threads[t].subject)
      BY <2>3 DEF hasActiveSharedArtifact
    <3>2. how = "ratification" => by # Owner
      BY <1>6, <3>1 DEF MayRatify
    <3>3. threads[t].subject = "project_rule" => how = "ratification"
      BY DEF AmendInv, RuleRatified
    <3>4. QED
      BY <3>2, <3>3
  <2>4. \A i, j \in DOMAIN agreements :
          j < i /\ Kind(i) = Kind(j) =>
            /\ agreements[i].how = "ratification" => agreements[i].by # Owner
            /\ Kind(i) = "project_rule" => agreements[i].how = "ratification"
    BY <1>6 DEF AmendInv, AmendedByAnother
  <2> HIDE DEF Kind
  <2>5. ASSUME NEW i \in DOMAIN agreements', NEW j \in DOMAIN agreements', j < i,
               threads'[agreements'[i].thread].subject = threads'[agreements'[j].thread].subject
        PROVE  /\ agreements'[i].how = "ratification" => agreements'[i].by # Owner
               /\ threads'[agreements'[i].thread].subject = "project_rule" =>
                    agreements'[i].how = "ratification"
    <3>1. j \in DOMAIN agreements
      <4>1. ~(new < i)
        BY <1>1, <1>2, <2>5 DEF new, IInv, TypeOK
      <4>2. QED
        BY <1>1, <2>5, <4>1
    <3>2. CASE i \in DOMAIN agreements
      BY <1>3, <2>1, <2>4, <2>5, <3>1, <3>2
    <3>3. CASE i = new
      BY <1>1, <2>1, <2>2, <2>3, <2>5, <3>1, <3>3
    <3>4. QED
      BY <1>1, <3>2, <3>3
  <2>6. QED
    BY <2>5 DEF AmendedByAnother
<1>7. Apart => OneRatification' /\ \A q \in Handler : Entitled(inflight[q])'
  BY DEF OneRatification, Entitled
<1>8. QED
  BY <1>4, <1>5, <1>6, <1>7 DEF AmendInv, RuleRatified

LEMMA AmendSteps == IInv /\ AmendInv /\ [Next]_vars => AmendInv'
<1> SUFFICES ASSUME IInv, AmendInv, [Next]_vars PROVE AmendInv'
  OBVIOUS
<1> DEFINE Same == /\ Ids' = Ids
                   /\ \A u \in Ids : SameAbout(threads'[u], threads[u])
                   /\ \A u \in Ids : threads'[u].author = threads[u].author
<1>s. UNCHANGED threads => Same
  BY DEF Ids, SameAbout
<1>h. ASSUME NEW r \in Handler, NEW tx \in Requests, Hold(r, tx), UNCHANGED <<threads, agreements>>,
             tx.step # "ratifying", tx.step = "creating" => RuleRatified(tx.row)
      PROVE AmendInv'
  BY <1>h, <1>s, AmendKept
<1>i. Idle \in Requests /\ Idle.step = "idle"
  BY RequestTypes DEF Idle
<1>1. ASSUME NEW r \in Handler, NEW subject \in Subjects, NEW asked \in ConsensusTypes,
             NEW checked \in BOOLEAN, CheckCreate(r, subject, asked, checked)
      PROVE AmendInv'
  <2>1. PICK row \in ThreadRow :
          /\ row = NewThread(subject, ConsensusOf(subject, asked), None)
          /\ row.subject = subject /\ row.consensus = ConsensusOf(subject, asked)
    BY NewThreadType, ConsensusOfType
  <2>2. PICK tx \in Requests : tx = [step |-> "creating", row |-> row]
    BY RequestTypes
  <2>3. Hold(r, tx) /\ RuleRatified(row)
    BY <1>1, <2>1, <2>2 DEF CheckCreate, RuleRatified, ConsensusOf
  <2>4. QED
    BY <1>1, <1>h, <2>2, <2>3 DEF CheckCreate, board
<1>2. ASSUME NEW r \in Handler, InsertThread(r) PROVE AmendInv'
  <2>1. PICK row \in ThreadRow : row = inflight[r].row /\ RuleRatified(row)
    BY <1>2, RequestFields DEF InsertThread, IInv, TypeOK, AmendInv
  <2>2. /\ Ids' = Ids \cup {Len(threads) + 1} /\ threads'[Len(threads) + 1] = row
        /\ \A u \in Ids : threads'[u] = threads[u]
        /\ \A u \in Ids : SameAbout(threads'[u], threads[u])
    BY <1>2, <2>1, RowAppended DEF InsertThread, IInv, TypeOK
  <2>3. PICK tx \in Requests : Hold(r, tx) /\ tx.step \in {"idle", "commenting"}
    <3>1. CASE row.query = None
      BY <1>2, <1>i, <2>1, <3>1 DEF InsertThread
    <3>2. CASE row.query # None
      <4>1. row.query \in Issue /\ Len(threads) + 1 \in Nat
        BY <3>2 DEF ThreadRow, IInv, TypeOK
      <4>2. QED
        BY <1>2, <2>1, <3>2, <4>1, RequestTypes DEF InsertThread
    <3>3. QED
      BY <3>1, <3>2
  <2>4. UNCHANGED agreements
    BY <1>2 DEF InsertThread
  <2>5. QED
    BY <2>1, <2>2, <2>3, <2>4, AmendKept
<1>3. ASSUME NEW r \in Handler, NEW t \in 1 .. MaxThreads, CheckRatify(r, t)
      PROVE AmendInv'
  <2>1. t \in Nat
    OBVIOUS
  <2>2. PICK tx \in Requests : tx = [step |-> "ratifying", thread |-> t]
    BY <2>1, RequestTypes
  <2>3. /\ Hold(r, tx) /\ NoDeclaration /\ tx.thread \in Ids /\ MayRatify(tx.thread)
        /\ UNCHANGED <<threads, agreements>>
    BY <1>3, <2>2 DEF CheckRatify, board
  <2>4. QED
    BY <1>s, <2>2, <2>3, AmendKept
<1>4. ASSUME NEW r \in Handler, NEW b \in BOOLEAN, CommitRatify(r, b) PROVE AmendInv'
  <2>1. PICK t \in Ids : t = inflight[r].thread
    BY <1>4 DEF CommitRatify, IInv, Relied, Relies
  <2>2. threads[t].author \in Participant \cup {None}
    BY RowFields DEF ThreadRow
  <2>3. Settle(t, b, threads[t].author, "ratification") /\ UNCHANGED issue
    BY <1>4, <2>1 DEF CommitRatify, github
  <2>4. Apart => MayRatify(t)
    BY <1>4, <2>1 DEF CommitRatify, AmendInv, Entitled
  <2>5. inflight'[r] = Idle /\ \A q \in Handler \ {r} : inflight'[q] = inflight[q]
    BY <1>4 DEF CommitRatify, Hold, IInv, TypeOK
  <2>6. Apart => \A q \in Handler : inflight'[q].step # "ratifying"
    BY <1>4, <1>i, <2>5 DEF CommitRatify, AmendInv, OneRatification
  <2>7. QED
    BY <2>2, <2>3, <2>4, <2>5, <2>6, AmendSettled
<1>5. ASSUME NEW r \in Handler, NEW i \in Issue, TurnAway(r, i) PROVE AmendInv'
  BY <1>5, <1>s, AmendKeptByAll DEF TurnAway, board
<1>6. ASSUME NEW r \in Handler, NEW i \in Issue, TakeIn(r, i) PROVE AmendInv'
  <2>1. CASE \E t \in ThreadsOf(i) :
               Hold(r, [step |-> "commenting", issue |-> i, thread |-> t])
    <3>1. PICK t \in ThreadsOf(i) :
            Hold(r, [step |-> "commenting", issue |-> i, thread |-> t])
      BY <2>1
    <3>2. t \in Nat
      BY DEF ThreadsOf, Ids, IInv, TypeOK
    <3>3. QED
      BY <1>6, <1>h, <3>1, <3>2, RequestTypes DEF TakeIn, board
  <2>2. CASE Hold(r, [step |-> "creating", row |-> NewThread("talk", "rough", i)])
    <3>1. PICK row \in ThreadRow : row = NewThread("talk", "rough", i) /\ row.subject = "talk"
      BY NewThreadType DEF Subjects, ConsensusTypes
    <3>2. PICK tx \in Requests : tx = [step |-> "creating", row |-> row]
      BY RequestTypes
    <3>3. QED
      BY <1>6, <1>h, <2>2, <3>1, <3>2 DEF TakeIn, board, RuleRatified
  <2>3. QED
    BY <1>6, <2>1, <2>2 DEF TakeIn
<1>7. ASSUME NEW r \in Handler, NEW step \in {"closing", "recording"}, Advance(r, step),
             inflight[r].step \in {"commenting", "closing", "recording"}, UNCHANGED board
      PROVE  AmendInv'
  <2>1. PICK tx \in Requests : Hold(r, tx) /\ tx.step = step
    BY <1>7, AdvanceType
  <2>2. QED
    BY <1>7, <1>h, <2>1 DEF board
<1>8. ASSUME NEW r \in Handler, CommentIssue(r) \/ CloseIssue(r) PROVE AmendInv'
  BY <1>7, <1>8 DEF CommentIssue, CloseIssue
<1>9. ASSUME NEW r \in Handler, RecordIntake(r) \/ FailIntake(r) PROVE AmendInv'
  BY <1>9, <1>h, <1>i DEF RecordIntake, FailIntake, board
<1>10. ASSUME NEW t \in 1 .. MaxThreads, NEW who \in Participant, SelectCandidate(t, who)
       PROVE AmendInv'
  <2>1. Ids' = Ids /\ \A u \in Ids : SameAbout(threads'[u], threads[u])
    BY <1>10, DecisionsChangeNoQuery
  <2>2. QED
    BY <1>10, <2>1, AmendKeptByAll DEF SelectCandidate
<1>11. ASSUME NEW t \in 1 .. MaxThreads, NEW b \in BOOLEAN, DecideByConsensus(t, b)
       PROVE AmendInv'
  <2>1. t \in Ids /\ Settle(t, b, None, "consensus") /\ UNCHANGED <<issue, inflight>>
    BY <1>11 DEF DecideByConsensus, github
  <2>2. threads[t].consensus = "rough" /\ NoDeclaration
    BY <1>11 DEF DecideByConsensus
  <2>3. QED
    BY <2>1, <2>2, AmendSettled DEF NoDeclaration
<1>12. ASSUME NEW t \in 1 .. MaxThreads,
              RequestRatification(t) \/ SendBack(t) \/ archiveThread(t)
       PROVE AmendInv'
  <2>1. Ids' = Ids /\ \A u \in Ids : SameAbout(threads'[u], threads[u])
    BY <1>12, DecisionsChangeNoQuery
  <2>2. \A u \in Ids : threads'[u].author = threads[u].author
    <3>1. threads \in [Ids -> ThreadRow] /\ DOMAIN threads = Ids
      BY DEF IInv, TypeOK, Ids
    <3>2. PICK row : threads' = [threads EXCEPT ![t] = row] /\ row.author = threads[t].author
      <4>1. t \in Ids
        BY <1>12 DEF RequestRatification, SendBack, archiveThread
      <4>2. threads[t] \in ThreadRow
        BY <3>1, <4>1
      <4>3. QED
        BY <1>12, <4>2 DEF RequestRatification, SendBack, archiveThread, ThreadRow
    <3>3. QED
      BY <3>1, <3>2
  <2>3. QED
    BY <1>12, <2>1, <2>2, AmendKeptByAll DEF RequestRatification, SendBack, archiveThread
<1>13. ASSUME NEW i \in Issue, OpenIssue(i) \/ Redeliver(i) PROVE AmendInv'
  BY <1>13, <1>s, AmendKeptByAll DEF OpenIssue, Redeliver, board
<1>14. CASE ConnectInstallation
  BY <1>14, <1>s, AmendKeptByAll DEF ConnectInstallation
<1>15. CASE UNCHANGED vars
  BY <1>15, <1>s, AmendKeptByAll DEF vars, board
<1>16. QED
  BY <1>1, <1>2, <1>3, <1>4, <1>5, <1>6, <1>8, <1>9, <1>10, <1>11, <1>12, <1>13, <1>14, <1>15
  DEF Next

\* At first no request is under way, the founding threads are of no issue, and no
\* kind was founded twice.
LEMMA InitApart == Init => IntakeInv /\ AmendInv
<1> SUFFICES ASSUME Init PROVE IntakeInv /\ AmendInv
  OBVIOUS
<1>1. PICK kinds \in Founding :
        /\ threads = [i \in DOMAIN kinds |-> FoundingThread(kinds[i])]
        /\ agreements = [i \in DOMAIN kinds |->
                           [thread |-> i, binding |-> TRUE, by |-> None, how |-> "founding"]]
  BY DEF Init
<1>2. \A r \in Handler : inflight[r].step = "idle"
  BY DEF Init, Idle
<1>3. \A k \in DOMAIN kinds : kinds[k] \in ConstitutionKinds
  BY DEF Founding, ConstitutionKinds
<1>4. \A kind \in ConstitutionKinds :
        LET row == FoundingThread(kind)
        IN  row.subject = kind /\ row.query = None /\ RuleRatified(row)
  BY DEF FoundingThread, NewThread, ConsensusOf, RuleRatified
<1>5. \A i, j \in DOMAIN kinds : kinds[i] = kinds[j] => i = j
  BY DEF Founding
<1>6. \A k \in Ids : /\ threads[k].subject = kinds[k] /\ threads[k].query = None
                     /\ RuleRatified(threads[k])
  BY <1>1, <1>3, <1>4 DEF Ids
<1>7. IntakeInv
  BY <1>2, <1>6, ConstantsOK DEF IntakeInv, OneIntake, First, Distinct, IsIntake
<1>8. AmendedByAnother
  <2>1. DOMAIN agreements = DOMAIN kinds /\ Ids = DOMAIN kinds
    BY <1>1 DEF Ids
  <2>2. \A k \in DOMAIN agreements : threads[agreements[k].thread].subject = kinds[k]
    BY <1>1, <1>6, <2>1
  <2>3. \A k \in DOMAIN kinds : k \in Nat
    BY DEF Founding
  <2>4. QED
    BY <1>5, <2>1, <2>2, <2>3 DEF AmendedByAnother
<1>9. QED
  BY <1>2, <1>6, <1>7, <1>8 DEF AmendInv, OneRatification, Entitled

\* So do its parts on requests that are served apart.
THEOREM InductiveApart == Spec => [](IntakeInv /\ AmendInv)
<1>1. IInv /\ IntakeInv /\ AmendInv /\ [Next]_vars => (IntakeInv /\ AmendInv)'
  BY IntakeSteps, AmendSteps
<1>2. QED
  BY <1>1, InitApart, Inductive, PTL DEF Spec

-----------------------------------------------------------------------------
(* The theorems. *)

\* Every row and every request in flight keeps its type.
THEOREM TypeCorrect == Spec => []TypeOK
<1>1. IInv => TypeOK
  BY DEF IInv
<1>2. QED
  BY <1>1, Inductive, PTL

\* However requests overlap, a thread that is no part of the constitution stands
\* on a settled rule and template (assertCreateThreadAllowed, createThread).
THEOREM WorkStandsOnSetup == Spec => []SetupBeforeWork
<1>1. IInv => SetupBeforeWork
  BY DEF IInv
<1>2. QED
  BY <1>1, Inductive, PTL

\* However deliveries overlap, fail and are repeated, an issue on record has been
\* closed with a comment that names its thread (intakeOpenedIssue).
THEOREM RedirectsAreTruthful == Spec => []RedirectIsTruthful
<1>1. IInv => RedirectIsTruthful
  BY DEF IInv
<1>2. QED
  BY <1>1, Inductive, PTL

\* When no two deliveries are served at the same time, an issue becomes one
\* thread, whatever fails and is repeated (intakeOpenedIssue).
THEOREM IssuesBecomeOneThread == ASSUME Apart PROVE Spec => []OneThreadPerIssue
<1>1. ASSUME IInv, IntakeInv PROVE OneThreadPerIssue
  <2> SUFFICES ASSUME NEW i \in Issue PROVE Cardinality(ThreadsOf(i)) <= 1
    BY DEF OneThreadPerIssue
  <2>1. \A t, u \in ThreadsOf(i) : t = u
    BY <1>1 DEF IntakeInv, Distinct, ThreadsOf
  <2>2. CASE ThreadsOf(i) = {}
    BY <2>2, FS_EmptySet
  <2>3. ASSUME NEW t, ThreadsOf(i) = {t} PROVE Cardinality(ThreadsOf(i)) <= 1
    <3>1. Cardinality({t}) = 1
      BY FS_Singleton
    <3>2. QED
      BY <2>3, <3>1
  <2>4. QED
    BY <2>1, <2>2, <2>3
<1>2. IInv /\ IntakeInv => OneThreadPerIssue
  BY <1>1
<1>3. QED
  BY <1>2, Inductive, InductiveApart, PTL

\* When no two declarations are served at the same time, who gave the version of
\* a rule or a template cannot ratify it alone once the project has one, and a
\* rule is changed by ratification only (ratify, createThread).
THEOREM RulesAreAmendedByAnother == ASSUME Apart PROVE Spec => []AmendedByAnother
<1>1. AmendInv => AmendedByAnother
  BY DEF AmendInv
<1>2. QED
  BY <1>1, InductiveApart, PTL
=============================================================================
