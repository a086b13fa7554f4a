--------------------------- MODULE TickGatewayProofs ---------------------------
(***************************************************************************)
(* What is proved about TickGateway for any number of handlers, sessions,  *)
(* kept ticks and faults: a tick leaves the mailbox only when the adapter  *)
(* has taken it or its session has closed.                                 *)
(***************************************************************************)
EXTENDS TickGateway, SequenceTheorems, TLAPS

-----------------------------------------------------------------------------
(* The inductive invariant.                                                 *)

\* An id is of one row.
OneRow == \A k, l \in DOMAIN mail : mail[k].id = mail[l].id => k = l

\* Only what is queued counts as taken, so that an id that is used again does
\* not come taken.
TakenIsQueued == \A i \in got : \E t \in ToSet(mail) : t.id = i

\* A send whose line has been answered is of a tick that was taken, while it is
\* queued.
Answered(job) ==
  job.step = "mark" \/ (job.step = "wait" /\ job.line = "taken") =>
    \A t \in ToSet(mail) : t.id = job.id => job.id \in got

\* What a flush has read of the mailbox and is queued still is the same tick.
ReadAsQueued(job) ==
  \A t \in ToSet(job.rest), u \in ToSet(mail) : t.id = u.id => t = u

\* A send is for a session, until the adapter has it.
Addressed(job) ==
  job.step \in {"enqueue", "post"} \/ (job.step = "wait" /\ job.line = "sent") =>
    job.sid \in Sessions

JobInv(job) == Answered(job) /\ ReadAsQueued(job) /\ Addressed(job)

\* A session that is open has been opened.
Opened == phase # "asleep" => count \in Sessions

IInv ==
  /\ TypeOK
  /\ OneRow /\ TakenIsQueued /\ Opened
  /\ \A r \in Slots : JobInv(jobs[r])

-----------------------------------------------------------------------------
(* Lemmas about the mailbox.                                                *)

LEMMA ToSetType ==
  ASSUME NEW s \in Seq(Ticks)
  PROVE  \A t \in ToSet(s) : t \in Ticks
  BY DEF ToSet

LEMMA ToSetHeadTail ==
  ASSUME NEW s \in Seq(Ticks), s # <<>>
  PROVE  /\ Head(s) \in ToSet(s) /\ Head(s) \in Ticks
         /\ Tail(s) \in Seq(Ticks)
         /\ ToSet(Tail(s)) \subseteq ToSet(s)
<1>1. /\ Head(s) = s[1] /\ 1 \in DOMAIN s /\ Head(s) \in Ticks /\ Tail(s) \in Seq(Ticks)
      /\ \A k \in DOMAIN Tail(s) : k + 1 \in DOMAIN s /\ Tail(s)[k] = s[k + 1]
  OBVIOUS
<1>2. QED
  BY <1>1 DEF ToSet

\* A row is appended.
LEMMA ToSetAppend ==
  ASSUME NEW s \in Seq(Ticks), NEW t \in Ticks
  PROVE  /\ Append(s, t) \in Seq(Ticks)
         /\ ToSet(Append(s, t)) = ToSet(s) \cup {t}
<1>1. /\ Append(s, t) \in Seq(Ticks) /\ DOMAIN Append(s, t) = DOMAIN s \cup {Len(s) + 1}
      /\ Append(s, t)[Len(s) + 1] = t
      /\ \A k \in DOMAIN s : Append(s, t)[k] = s[k]
  OBVIOUS
<1>2. QED
  BY <1>1 DEF ToSet

\* A row is removed, the others stay in their order.
LEMMA RowRemoved ==
  ASSUME NEW s \in Seq(Ticks), NEW k \in DOMAIN s
  PROVE  /\ RemoveAt(s, k) \in Seq(Ticks)
         /\ Len(RemoveAt(s, k)) = Len(s) - 1
         /\ \A j \in 1 .. Len(s) - 1 : RemoveAt(s, k)[j] = s[IF j < k THEN j ELSE j + 1]
<1> DEFINE left == SubSeq(s, 1, k - 1)
           right == SubSeq(s, k + 1, Len(s))
<1>1. /\ left \in Seq(Ticks) /\ Len(left) = k - 1
      /\ \A j \in 1 .. k - 1 : left[j] = s[j]
  OBVIOUS
<1>2. /\ right \in Seq(Ticks) /\ Len(right) = Len(s) - k
      /\ \A j \in 1 .. Len(s) - k : right[j] = s[k + j]
  OBVIOUS
<1>3. RemoveAt(s, k) = left \o right
  BY DEF RemoveAt
<1> HIDE DEF left, right
<1>4. /\ left \o right \in Seq(Ticks) /\ Len(left \o right) = Len(s) - 1
      /\ \A j \in 1 .. Len(s) - 1 :
           (left \o right)[j] = IF j <= k - 1 THEN left[j] ELSE right[j - (k - 1)]
  <2>1. /\ left \o right \in Seq(Ticks)
        /\ Len(left \o right) = Len(left) + Len(right)
        /\ \A j \in 1 .. Len(left) + Len(right) :
             (left \o right)[j] = IF j <= Len(left) THEN left[j] ELSE right[j - Len(left)]
    BY <1>1, <1>2, ConcatProperties
  <2>2. Len(left) = k - 1 /\ Len(left) + Len(right) = Len(s) - 1
    BY <1>1, <1>2
  <2>3. QED
    BY <2>1, <2>2
<1>5. ASSUME NEW j \in 1 .. Len(s) - 1
      PROVE  (left \o right)[j] = s[IF j < k THEN j ELSE j + 1]
  <2>1. CASE j < k
    BY <1>1, <1>4, <2>1
  <2>2. CASE ~(j < k)
    <3>1. j - (k - 1) \in 1 .. Len(s) - k /\ ~(j <= k - 1)
      BY <2>2
    <3>2. (left \o right)[j] = right[j - (k - 1)]
      BY <1>4, <3>1
    <3>3. right[j - (k - 1)] = s[k + (j - (k - 1))]
      BY <1>2, <3>1
    <3>4. k + (j - (k - 1)) = j + 1
      OBVIOUS
    <3>5. QED
      BY <2>2, <3>2, <3>3, <3>4
  <2>3. QED
    BY <2>1, <2>2
<1>6. QED
  BY <1>3, <1>4, <1>5

\* What is left when row i has been removed: all the others, each once.
LEMMA DequeueKeeps ==
  ASSUME TypeOK, OneRow, TakenIsQueued, NEW i \in Nat, Dequeue(i)
  PROVE  /\ mail' \in Seq(Ticks) /\ got' \subseteq 1 .. MaxKept
         /\ OneRow' /\ TakenIsQueued'
         /\ ToSet(mail') = {t \in ToSet(mail) : t.id # i}
<1>1. CASE (\A t \in ToSet(mail) : t.id # i) /\ UNCHANGED mail
  BY <1>1 DEF Dequeue, TypeOK, OneRow, TakenIsQueued
<1>2. ASSUME NEW k \in DOMAIN mail, mail[k].id = i, mail' = RemoveAt(mail, k)
      PROVE  /\ mail' \in Seq(Ticks) /\ got' \subseteq 1 .. MaxKept
             /\ OneRow' /\ TakenIsQueued'
             /\ ToSet(mail') = {t \in ToSet(mail) : t.id # i}
  <2> DEFINE n == Len(mail)
             from(j) == IF j < k THEN j ELSE j + 1
  <2>1. /\ mail' \in Seq(Ticks) /\ DOMAIN mail' = 1 .. n - 1
        /\ \A j \in 1 .. n - 1 : mail'[j] = mail[from(j)]
    BY <1>2, RowRemoved DEF TypeOK
  <2>2. n \in Nat /\ k \in 1 .. n /\ DOMAIN mail = 1 .. n
    BY DEF TypeOK
  <2> HIDE DEF n
  <2>3. \A j \in 1 .. n - 1 : from(j) \in (1 .. n) \ {k}
    BY <2>2
  <2>4. \A l \in (1 .. n) \ {k} : \E j \in 1 .. n - 1 : from(j) = l
    <3> TAKE l \in (1 .. n) \ {k}
    <3>1. CASE l < k
      BY <2>2, <3>1
    <3>2. CASE l > k
      <4>1. l - 1 \in 1 .. n - 1 /\ from(l - 1) = l
        BY <2>2, <3>2
      <4>2. QED
        BY <4>1
    <3>3. QED
      BY <2>2, <3>1, <3>2
  <2>5. \A j, l \in 1 .. n - 1 : from(j) = from(l) => j = l
    BY <2>2
  <2> HIDE DEF from
  <2>6. OneRow'
    BY <2>1, <2>2, <2>3, <2>5 DEF OneRow
  <2>7. \A l \in (1 .. n) \ {k} : mail[l].id # i
    BY <1>2, <2>2 DEF OneRow
  <2>8. ToSet(mail') = {mail[l] : l \in (1 .. n) \ {k}}
    BY <2>1, <2>3, <2>4 DEF ToSet
  <2>9. ToSet(mail') = {t \in ToSet(mail) : t.id # i}
    BY <1>2, <2>2, <2>7, <2>8 DEF ToSet
  <2>10. TakenIsQueued' /\ got' \subseteq 1 .. MaxKept
    BY <2>9 DEF Dequeue, TakenIsQueued, TypeOK
  <2>11. QED
    BY <2>1, <2>6, <2>9, <2>10
<1>3. QED
  BY <1>1, <1>2 DEF Dequeue

-----------------------------------------------------------------------------
(* Lemmas about jobs.                                                       *)

Steps == SendSteps \cup ConnectSteps \cup RoundSteps \cup {"idle"}

\* The places at which a job has no tick in hand.
Resting == Steps \ {"enqueue", "post", "wait", "mark"}

LEMMA IdleType == Idle \in Jobs /\ Idle.step = "idle" /\ Idle.rest = <<>>
<1>1. <<>> \in Seq(Ticks)
  OBVIOUS
<1>2. 0 \in 0 .. MaxSessions /\ 0 \in 0 .. MaxKept
  BY GatewayConstants
<1>3. QED
  BY <1>1, <1>2 DEF Idle, Jobs

LEMMA JobFields ==
  ASSUME NEW j \in Jobs
  PROVE  /\ j.step \in Steps /\ j.then \in {"idle", "next", "interrupt", "decide"}
         /\ j.sid \in 0 .. MaxSessions /\ j.id \in 0 .. MaxKept /\ j.rest \in Seq(Ticks)
  BY DEF Jobs, Steps

\* A job that is changed in some columns.
LEMMA JobEdited ==
  ASSUME NEW j \in Jobs
  PROVE  /\ \A step \in Steps, sid \in 0 .. MaxSessions :
              [j EXCEPT !.step = step, !.sid = sid] \in Jobs
         /\ \A step \in Steps, id \in 0 .. MaxKept : [j EXCEPT !.step = step, !.id = id] \in Jobs
         /\ \A step \in Steps, line \in {"none", "sent", "taken", "broken"} :
              [j EXCEPT !.step = step, !.line = line] \in Jobs
         /\ \A line \in {"none", "sent", "taken", "broken"} : [j EXCEPT !.line = line] \in Jobs
         /\ \A rest \in Seq(Ticks) : [j EXCEPT !.rest = rest] \in Jobs
         /\ \A step \in Steps : [j EXCEPT !.step = step] \in Jobs
         /\ \A step \in Steps, id \in 0 .. MaxKept, sid \in 0 .. MaxSessions :
              [j EXCEPT !.step = step, !.id = id, !.sid = sid] \in Jobs
<1> USE DEF Jobs, Steps
<1>1. \A step \in Steps, sid \in 0 .. MaxSessions :
        [j EXCEPT !.step = step, !.sid = sid] \in Jobs
  OBVIOUS
<1>2. \A step \in Steps, id \in 0 .. MaxKept : [j EXCEPT !.step = step, !.id = id] \in Jobs
  OBVIOUS
<1>3. \A step \in Steps, line \in {"none", "sent", "taken", "broken"} :
        [j EXCEPT !.step = step, !.line = line] \in Jobs
  OBVIOUS
<1>4. \A line \in {"none", "sent", "taken", "broken"} : [j EXCEPT !.line = line] \in Jobs
  OBVIOUS
<1>5. \A rest \in Seq(Ticks) : [j EXCEPT !.rest = rest] \in Jobs
  OBVIOUS
<1>6. \A step \in Steps : [j EXCEPT !.step = step] \in Jobs
  OBVIOUS
<1>7. \A step \in Steps, id \in 0 .. MaxKept, sid \in 0 .. MaxSessions :
        [j EXCEPT !.step = step, !.id = id, !.sid = sid] \in Jobs
  OBVIOUS
<1>8. QED
  BY <1>1, <1>2, <1>3, <1>4, <1>5, <1>6, <1>7

\* What a job has read and still has to post shrinks or is nothing: it reads as
\* queued as before.
LEMMA FewerRead ==
  ASSUME NEW j, NEW k, ToSet(k.rest) \subseteq ToSet(j.rest), ReadAsQueued(j)
  PROVE  ReadAsQueued(k)
  BY DEF ReadAsQueued

LEMMA NothingRead == ASSUME NEW j, j.rest = <<>> PROVE ReadAsQueued(j)
  BY DEF ReadAsQueued, ToSet

\* The mailbox changes in no way that a job would notice: what is new in it has
\* an id the job does not know, and what is queued remains taken.
Unnoticed(job) ==
  /\ \A t \in ToSet(mail') : \/ t \in ToSet(mail)
                             \/ t.id # job.id /\ \A u \in ToSet(job.rest) : u.id # t.id
  /\ \A i \in got : (\E t \in ToSet(mail') : t.id = i) => i \in got'

LEMMA JobInvStays ==
  ASSUME NEW job, JobInv(job), Unnoticed(job)
  PROVE  JobInv(job)'
<1>1. Answered(job)'
  BY DEF JobInv, Answered, Unnoticed
<1>2. ReadAsQueued(job)'
  BY DEF JobInv, ReadAsQueued, Unnoticed
<1>3. QED
  BY <1>1, <1>2 DEF JobInv, Answered, ReadAsQueued, Addressed

\* One job goes on; the others do not notice.
LEMMA OneJobGoesOn ==
  ASSUME IInv, NEW r \in Slots, NEW job \in Jobs, Become(r, job), JobInv(job)',
         \A q \in Slots \ {r} : Unnoticed(jobs[q])
  PROVE  jobs' \in [Slots -> Jobs] /\ \A q \in Slots : JobInv(jobs[q])'
<1>1. /\ jobs' \in [Slots -> Jobs] /\ jobs'[r] = job
      /\ \A q \in Slots \ {r} : jobs'[q] = jobs[q]
  BY DEF IInv, TypeOK, Become
<1>2. ASSUME NEW q \in Slots PROVE JobInv(jobs[q])'
  <2>1. PICK j \in Jobs : j = jobs'[q]
    BY <1>1
  <2>2. CASE q = r
    BY <1>1, <2>1, <2>2 DEF JobInv, Answered, ReadAsQueued, Addressed
  <2>3. CASE q # r
    <3>1. j = jobs[q] /\ JobInv(j) /\ Unnoticed(j)
      BY <1>1, <2>1, <2>3 DEF IInv
    <3>2. JobInv(j)'
      BY <3>1, JobInvStays
    <3>3. QED
      BY <2>1, <3>2 DEF JobInv, Answered, ReadAsQueued, Addressed
  <2>4. QED
    BY <2>2, <2>3
<1>3. QED
  BY <1>1, <1>2

\* A job goes on and leaves the mailbox alone.
LEMMA MailboxAlone ==
  ASSUME IInv, NEW r \in Slots, NEW job \in Jobs, Become(r, job), JobInv(job),
         UNCHANGED mailbox
  PROVE  /\ mail' \in Seq(Ticks) /\ got' \subseteq 1 .. MaxKept /\ OneRow' /\ TakenIsQueued'
         /\ jobs' \in [Slots -> Jobs] /\ \A q \in Slots : JobInv(jobs[q])'
<1>1. UNCHANGED <<mail, got>>
  BY DEF mailbox
<1>2. \A q : Unnoticed(q)
  BY <1>1 DEF Unnoticed
<1>3. JobInv(job)'
  BY <1>2, JobInvStays
<1>4. mail' \in Seq(Ticks) /\ got' \subseteq 1 .. MaxKept /\ OneRow' /\ TakenIsQueued'
  BY <1>1 DEF IInv, TypeOK, OneRow, TakenIsQueued
<1>5. QED
  BY <1>2, <1>3, <1>4, OneJobGoesOn

\* The types of all that is neither the mailbox nor a job.
Rest ==
  /\ count \in 0..MaxSessions /\ phase \in {"asleep", "woken", "awake"}
  /\ online \in {"open", "closing", "none"}
  /\ attached \in BOOLEAN /\ fresh \in BOOLEAN
  /\ shown \in {"connected", "disconnected"}
  /\ active \in 0..MaxSessions /\ chain \in Seq(Sessions)
  /\ faults \in 0..MaxFaults

\* A job that is sent on its way anew, or back to nothing.
LEMMA AnewInv ==
  ASSUME NEW step \in Resting,
         NEW then \in {"idle", "next", "interrupt", "decide"}
  PROVE  LET job == [Idle EXCEPT !.step = step, !.then = then]
         IN  job \in Jobs /\ JobInv(job)
<1> DEFINE job == [Idle EXCEPT !.step = step, !.then = then]
<1>1. job \in Jobs /\ job.step = step /\ job.rest = <<>>
  BY IdleType DEF Jobs, Steps, Resting
<1>2. Answered(job) /\ ReadAsQueued(job)
  BY <1>1, NothingRead DEF Answered, Resting
<1>3. QED
  BY <1>1, <1>2 DEF JobInv, Addressed, Resting

\* A job that goes on at another place, with what it has.
LEMMA GotoInv ==
  ASSUME NEW j \in Jobs, JobInv(j), NEW step \in Resting
  PROVE  LET job == [j EXCEPT !.step = step]
         IN  job \in Jobs /\ JobInv(job)
<1> DEFINE job == [j EXCEPT !.step = step]
<1>1. job \in Jobs /\ job.step = step /\ job.rest = j.rest
  BY DEF Jobs, Steps, Resting
<1>2. Answered(job) /\ ReadAsQueued(job)
  BY <1>1, FewerRead DEF Answered, JobInv, Resting
<1>3. QED
  BY <1>1, <1>2 DEF JobInv, Addressed, Resting

\* A send that is over.
LEMMA ReturnInv ==
  ASSUME NEW j \in Jobs, JobInv(j)
  PROVE  LET job == [Idle EXCEPT !.step = j.then, !.then = j.then, !.rest = j.rest]
         IN  job \in Jobs /\ JobInv(job)
<1> DEFINE job == [Idle EXCEPT !.step = j.then, !.then = j.then, !.rest = j.rest]
<1>1. job \in Jobs /\ job.step = j.then /\ job.rest = j.rest
  BY IdleType DEF Jobs, ConnectSteps, RoundSteps
<1>2. j.then \notin {"enqueue", "post", "wait", "mark"}
  BY DEF Jobs
<1>3. Answered(job) /\ ReadAsQueued(job) /\ Addressed(job)
  BY <1>1, <1>2, FewerRead DEF Answered, Addressed, JobInv
<1>4. QED
  BY <1>1, <1>3 DEF JobInv

-----------------------------------------------------------------------------
(* The steps.  Most leave the mailbox alone.                                *)

\* What a step takes out of the mailbox was taken, or its session has closed.
Kept == \A t \in ToSet(mail) \ ToSet(mail') : t.id \in got \/ ~IsOpen(t.sid)

LEMMA GoesOn ==
  ASSUME IInv, NEW r \in Slots, NEW job \in Jobs, Become(r, job), JobInv(job),
         UNCHANGED mailbox, Rest', Opened'
  PROVE  IInv' /\ Kept
  BY MailboxAlone DEF IInv, TypeOK, Rest, Kept, mailbox

LEMMA RestIsTyped == IInv => Rest
  BY DEF IInv, TypeOK, Rest

LEMMA RestStays == ASSUME IInv, UNCHANGED <<board, link, adapter, faults>> PROVE Rest' /\ Opened'
  BY DEF IInv, TypeOK, Rest, Opened, board, link, adapter

\* The steps that end in another place with what the job has, in a new send, back at
\* the caller or in nothing.
LEMMA Moves ==
  ASSUME IInv, NEW r \in Slots, UNCHANGED mailbox, Rest', Opened',
         \/ \E step \in Resting :
              Goto(r, step) \/ Become(r, [Idle EXCEPT !.step = step])
         \/ \E step \in Resting, then \in {"idle", "next", "interrupt", "decide"} :
              Become(r, [Idle EXCEPT !.step = step, !.then = then])
         \/ Return(r)
         \/ Throw(r)
  PROVE  IInv' /\ Kept
<1>1. jobs[r] \in Jobs /\ JobInv(jobs[r])
  BY DEF IInv, TypeOK
<1>2. Idle \in Jobs /\ JobInv(Idle)
  BY IdleType, NothingRead DEF JobInv, Answered, Addressed
<1>3. PICK job \in Jobs : Become(r, job) /\ JobInv(job)
  <2>1. CASE \E step \in Resting :
               Goto(r, step) \/ Become(r, [Idle EXCEPT !.step = step])
    BY <1>1, <1>2, <2>1, GotoInv DEF Goto
  <2>2. CASE \E step \in Resting, then \in {"idle", "next", "interrupt", "decide"} :
              Become(r, [Idle EXCEPT !.step = step, !.then = then])
    BY <2>2, AnewInv
  <2>3. CASE Return(r)
    BY <1>1, <2>3, ReturnInv DEF Return
  <2>4. CASE Throw(r)
    BY <1>2, <2>4 DEF Throw
  <2>5. QED
    BY <2>1, <2>2, <2>3, <2>4
<1>4. QED
  BY <1>3, GoesOn

LEMMA StepNames ==
  {"idle", "prepare", "greet", "list", "next", "look", "part",
   "expire", "cut", "resend", "interrupt", "schedule", "decide"} = Resting
  BY DEF Resting, Steps, SendSteps, ConnectSteps, RoundSteps

LEMMA LoopSlot == Loop \in Slots /\ \A r \in Handler : r \in Slots
  BY DEF Slots

LEMMA WakeStep == ASSUME IInv, NEW r \in Handler, Wake(r) PROVE IInv' /\ Kept
  BY StepNames, LoopSlot, RestStays, Moves DEF Wake

LEMMA PrepareStep == ASSUME IInv, NEW r \in Slots, Prepare(r) PROVE IInv' /\ Kept
<1>1. jobs[r] \in Jobs /\ JobInv(jobs[r])
  BY DEF IInv, TypeOK
<1>2. UNCHANGED <<mailbox, online, attached, shown, fresh, active, chain, faults>>
  BY DEF Prepare, link, adapter
<1>3. ASSUME NEW n \in Sessions, count' = n, phase' \in {"asleep", "woken", "awake"},
             Become(r, [jobs[r] EXCEPT !.step = "enqueue", !.sid = n])
      PROVE  IInv' /\ Kept
  <2> DEFINE job == [jobs[r] EXCEPT !.step = "enqueue", !.sid = n]
  <2>1. job \in Jobs /\ job.step = "enqueue" /\ job.sid = n /\ job.rest = jobs[r].rest
    <3>1. n \in 0 .. MaxSessions /\ "enqueue" \in Steps
      BY DEF Sessions, Steps, SendSteps
    <3>2. job \in Jobs
      BY <1>1, <3>1, JobEdited
    <3>3. QED
      BY <1>1, <3>2 DEF Jobs
  <2> HIDE DEF job
  <2>2. JobInv(job)
    BY <1>1, <2>1, FewerRead DEF JobInv, Answered, Addressed
  <2>3. Rest' /\ Opened'
    BY <1>2, <1>3 DEF Rest, Opened, Sessions, IInv, TypeOK
  <2>4. QED
    BY <1>2, <1>3, <2>1, <2>2, <2>3, GoesOn DEF job
<1>4. count \in 0 .. MaxSessions /\ count \in Nat /\ MaxSessions \in Nat
  BY GatewayConstants DEF IInv, TypeOK
<1>5. CASE phase = "asleep" /\ count < MaxSessions
  <2>1. count + 1 \in Sessions
    BY <1>4, <1>5 DEF Sessions
  <2>2. /\ count' = count + 1 /\ phase' = "woken"
        /\ Become(r, [jobs[r] EXCEPT !.step = "enqueue", !.sid = count + 1])
    BY <1>5 DEF Prepare
  <2>3. QED
    BY <1>3, <2>1, <2>2
<1>6. CASE phase = "asleep" /\ ~(count < MaxSessions)
  <2>1. Return(r) /\ UNCHANGED <<count, phase>>
    BY <1>6 DEF Prepare
  <2>2. Rest' /\ Opened'
    BY <1>2, <2>1 DEF Rest, Opened, IInv, TypeOK
  <2>3. QED
    BY <1>2, <2>1, <2>2, Moves
<1>7. CASE phase # "asleep"
  <2>1. /\ UNCHANGED <<count, phase>>
        /\ Become(r, [jobs[r] EXCEPT !.step = "enqueue", !.sid = count])
    BY <1>7 DEF Prepare
  <2>2. phase \in {"asleep", "woken", "awake"} /\ count \in Sessions
    BY <1>7 DEF IInv, TypeOK, Opened
  <2>3. QED
    BY <1>3, <1>4, <2>1, <2>2
<1>8. QED
  BY <1>5, <1>6, <1>7

\* A send whose tick is inserted, or finds the mailbox full.
LEMMA EnqueueStep == ASSUME IInv, NEW r \in Slots, Enqueue(r) PROVE IInv' /\ Kept
<1>1. jobs[r] \in Jobs /\ JobInv(jobs[r]) /\ jobs[r].sid \in Sessions
  BY DEF IInv, TypeOK, JobInv, Addressed, Enqueue, At
<1>2. Rest' /\ Opened' /\ UNCHANGED got
  BY RestStays DEF Enqueue
<1>3. CASE FreeIds = {}
  <2> DEFINE job == [jobs[r] EXCEPT !.step = "post"]
  <2>1. job \in Jobs /\ job.step = "post" /\ job.rest = jobs[r].rest /\ job.sid = jobs[r].sid
    BY <1>1 DEF Jobs, SendSteps
  <2>2. JobInv(job)
    BY <1>1, <2>1, FewerRead DEF JobInv, Answered, Addressed
  <2>3. Become(r, job) /\ UNCHANGED mailbox
    BY <1>3 DEF Enqueue, Goto, mailbox
  <2>4. QED
    BY <1>2, <2>1, <2>2, <2>3, GoesOn
<1>4. CASE FreeIds # {}
  <2>1. PICK i \in FreeIds :
          /\ mail' = Append(mail, [id |-> i, sid |-> jobs[r].sid])
          /\ Become(r, [jobs[r] EXCEPT !.step = "post", !.id = i])
    BY <1>4 DEF Enqueue
  <2> DEFINE new == [id |-> i, sid |-> jobs[r].sid]
  <2>2. new \in Ticks /\ i \in 0 .. MaxKept
    BY <1>1 DEF Ticks, FreeIds
  <2>3. /\ \A t \in ToSet(mail) : t.id # i
        /\ \A q \in Slots : jobs[q].id # i /\ \A t \in ToSet(jobs[q].rest) : t.id # i
    BY DEF FreeIds
  <2>4. PICK job \in Jobs :
          /\ job = [jobs[r] EXCEPT !.step = "post", !.id = i]
          /\ job.step = "post" /\ job.rest = jobs[r].rest
          /\ job.sid = jobs[r].sid /\ job.id = i
    <3>1. "post" \in Steps
      BY DEF Steps, SendSteps
    <3>2. PICK k \in Jobs : k = [jobs[r] EXCEPT !.step = "post", !.id = i]
      BY <1>1, <2>2, <3>1, JobEdited
    <3>3. k.step = "post" /\ k.rest = jobs[r].rest /\ k.sid = jobs[r].sid /\ k.id = i
      BY <1>1, <3>2 DEF Jobs
    <3>4. QED
      BY <3>2, <3>3
  <2>5. new.id = i
    OBVIOUS
  <2> HIDE DEF new
  <2>6. mail' \in Seq(Ticks) /\ ToSet(mail') = ToSet(mail) \cup {new}
    BY <2>1, <2>2, ToSetAppend DEF IInv, TypeOK, new
  <2>7. OneRow'
    <3>1. /\ DOMAIN mail' = DOMAIN mail \cup {Len(mail) + 1}
          /\ mail'[Len(mail) + 1] = new
          /\ \A k \in DOMAIN mail : mail'[k] = mail[k]
      BY <2>1, <2>2 DEF IInv, TypeOK, new
    <3>2. \A k \in DOMAIN mail : mail[k].id # i
      BY <2>3 DEF ToSet
    <3>3. QED
      BY <2>5, <3>1, <3>2 DEF OneRow, IInv
  <2>8. TakenIsQueued' /\ got' \subseteq 1 .. MaxKept
    BY <1>2, <2>6 DEF TakenIsQueued, IInv, TypeOK
  <2>9. \A q \in Slots : Unnoticed(jobs[q])
    BY <1>2, <2>3, <2>5, <2>6 DEF Unnoticed
  <2>10. JobInv(job)'
    <3>1. ReadAsQueued(job)'
      BY <1>1, <2>3, <2>4, <2>5, <2>6 DEF JobInv, ReadAsQueued
    <3>2. QED
      BY <1>1, <2>4, <3>1 DEF JobInv, Answered, Addressed
  <2>11. Become(r, job)
    BY <2>1, <2>4
  <2>12. jobs' \in [Slots -> Jobs] /\ \A q \in Slots : JobInv(jobs[q])'
    BY <2>4, <2>9, <2>10, <2>11, OneJobGoesOn
  <2>13. Kept
    BY <2>6 DEF Kept
  <2>14. QED
    BY <1>2, <2>6, <2>7, <2>8, <2>12, <2>13 DEF IInv, TypeOK, Rest
<1>5. QED
  BY <1>3, <1>4

\* A send goes on: the line is sent, answered, or lost.
LEMMA PostStep == ASSUME IInv, NEW r \in Slots, Post(r) PROVE IInv' /\ Kept
<1>1. jobs[r] \in Jobs /\ JobInv(jobs[r]) /\ jobs[r].sid \in Sessions
  BY DEF IInv, TypeOK, JobInv, Addressed, Post, At
<1>2. Rest' /\ Opened' /\ UNCHANGED mailbox
  BY RestStays DEF Post
<1>3. CASE online = "open"
  <2>1. PICK job \in Jobs :
          /\ job = [jobs[r] EXCEPT !.step = "wait", !.line = "sent"]
          /\ job.step = "wait" /\ job.line = "sent" /\ job.rest = jobs[r].rest
          /\ job.sid = jobs[r].sid
    <3>1. "wait" \in Steps
      BY DEF Steps, SendSteps
    <3>2. PICK k \in Jobs : k = [jobs[r] EXCEPT !.step = "wait", !.line = "sent"]
      BY <1>1, <3>1, JobEdited
    <3>3. k.step = "wait" /\ k.line = "sent" /\ k.rest = jobs[r].rest /\ k.sid = jobs[r].sid
      BY <1>1, <3>2 DEF Jobs
    <3>4. QED
      BY <3>2, <3>3
  <2>2. JobInv(job)
    BY <1>1, <2>1, FewerRead DEF JobInv, Answered, Addressed
  <2>3. Become(r, job)
    BY <1>3, <2>1 DEF Post
  <2>4. QED
    BY <1>2, <2>2, <2>3, GoesOn
<1>4. CASE online # "open" /\ jobs[r].then = "next"
  BY <1>2, <1>4, StepNames, Moves DEF Post
<1>5. CASE online # "open" /\ jobs[r].then # "next"
  BY <1>2, <1>5, Moves DEF Post
<1>6. QED
  BY <1>3, <1>4, <1>5

LEMMA AnswerStep == ASSUME IInv, NEW r \in Slots, Answer(r) PROVE IInv' /\ Kept
<1>1. /\ jobs[r] \in Jobs /\ JobInv(jobs[r])
      /\ jobs[r].step = "wait" /\ jobs[r].line = "taken"
  BY DEF IInv, TypeOK, Answer, At
<1>2. Rest' /\ Opened' /\ UNCHANGED mailbox
  BY RestStays DEF Answer
<1>3. PICK job \in Jobs :
        /\ job = [jobs[r] EXCEPT !.step = "mark"]
        /\ job.step = "mark" /\ job.rest = jobs[r].rest /\ job.id = jobs[r].id
  <2>1. "mark" \in Steps
    BY DEF Steps, SendSteps
  <2>2. PICK k \in Jobs : k = [jobs[r] EXCEPT !.step = "mark"]
    BY <1>1, <2>1, JobEdited
  <2>3. k.step = "mark" /\ k.rest = jobs[r].rest /\ k.id = jobs[r].id
    BY <1>1, <2>2 DEF Jobs
  <2>4. QED
    BY <2>2, <2>3
<1>4. JobInv(job)
  BY <1>1, <1>3, FewerRead DEF JobInv, Answered, Addressed
<1>5. Become(r, job)
  BY <1>3 DEF Answer, Goto
<1>6. QED
  BY <1>2, <1>4, <1>5, GoesOn

LEMMA FailStep == ASSUME IInv, NEW r \in Slots, Fail(r) PROVE IInv' /\ Kept
  BY RestStays, Moves DEF Fail

LEMMA RefuseStep == ASSUME IInv, NEW r \in Slots, Refuse(r) PROVE IInv' /\ Kept
<1>1. Rest' /\ Opened'
  <2>1. faults' \in 0 .. MaxFaults
    BY GatewayConstants DEF Refuse, CanFail, IInv, TypeOK
  <2>2. QED
    BY <2>1 DEF Refuse, Rest, Opened, IInv, TypeOK, board, link, adapter
<1>2. QED
  BY <1>1, Moves DEF Refuse

\* A row leaves the mailbox for a reason.
LEMMA Dequeued ==
  ASSUME IInv, NEW r \in Slots, NEW i \in Nat, Dequeue(i),
         \A t \in ToSet(mail) : t.id = i => t.id \in got \/ ~IsOpen(t.sid),
         NEW job \in Jobs, Become(r, job), JobInv(job), Rest', Opened'
  PROVE  IInv' /\ Kept
<1>1. /\ mail' \in Seq(Ticks) /\ got' \subseteq 1 .. MaxKept
      /\ OneRow' /\ TakenIsQueued'
      /\ ToSet(mail') = {t \in ToSet(mail) : t.id # i}
  BY DequeueKeeps DEF IInv
<1>2. got' = got \ {i}
  BY DEF Dequeue
<1>3. \A q : Unnoticed(q)
  BY <1>1, <1>2 DEF Unnoticed
<1>4. JobInv(job)'
  BY <1>3, JobInvStays
<1>5. jobs' \in [Slots -> Jobs] /\ \A q \in Slots : JobInv(jobs[q])'
  BY <1>3, <1>4, OneJobGoesOn
<1>6. Kept
  BY <1>1 DEF Kept
<1>7. QED
  BY <1>1, <1>5, <1>6 DEF IInv, TypeOK, Rest

\* markTickDelivered: what it takes out was taken.
LEMMA MarkStep == ASSUME IInv, NEW r \in Slots, Mark(r) PROVE IInv' /\ Kept
<1>1. jobs[r] \in Jobs /\ JobInv(jobs[r]) /\ jobs[r].step = "mark" /\ jobs[r].id \in Nat
  BY JobFields DEF IInv, TypeOK, Mark, At
<1>2. Rest' /\ Opened'
  BY RestStays DEF Mark
<1>3. \A t \in ToSet(mail) : t.id = jobs[r].id => t.id \in got
  BY <1>1 DEF JobInv, Answered
<1>4. PICK job \in Jobs : Become(r, job) /\ JobInv(job)
  BY <1>1, ReturnInv DEF Mark, Return
<1>5. QED
  BY <1>1, <1>2, <1>3, <1>4, Dequeued DEF Mark

\* flushMailbox reads the mailbox.
LEMMA ListStep == ASSUME IInv, NEW r \in Slots, List(r) PROVE IInv' /\ Kept
<1>1. jobs[r] \in Jobs /\ mail \in Seq(Ticks)
  BY DEF IInv, TypeOK
<1>2. PICK job \in Jobs :
        /\ job = [jobs[r] EXCEPT !.step = "next", !.then = "next", !.rest = mail]
        /\ job.step = "next" /\ job.rest = mail
  <2>1. [jobs[r] EXCEPT !.step = "next", !.then = "next", !.rest = mail] \in Jobs
    BY <1>1 DEF Jobs, ConnectSteps
  <2>2. PICK k \in Jobs : k = [jobs[r] EXCEPT !.step = "next", !.then = "next", !.rest = mail]
    BY <2>1
  <2>3. k.step = "next" /\ k.rest = mail
    BY <1>1, <2>2 DEF Jobs
  <2>4. QED
    BY <2>2, <2>3
<1>3. ReadAsQueued(job)
  BY <1>2 DEF ReadAsQueued, ToSet, IInv, OneRow
<1>4. JobInv(job)
  BY <1>2, <1>3 DEF JobInv, Answered, Addressed
<1>5. Become(r, job) /\ UNCHANGED mailbox
  BY <1>2 DEF List
<1>6. Rest' /\ Opened'
  BY RestStays DEF List
<1>7. QED
  BY <1>4, <1>5, <1>6, GoesOn

\* The flush goes on: what it discards is for a session that has closed.
LEMMA NextTickStep == ASSUME IInv, NEW r \in Slots, NextTick(r) PROVE IInv' /\ Kept
<1>1. jobs[r] \in Jobs /\ JobInv(jobs[r]) /\ jobs[r].rest \in Seq(Ticks) /\ jobs[r].step = "next"
  BY JobFields DEF IInv, TypeOK, NextTick, At
<1>2. Rest' /\ Opened'
  BY RestStays DEF NextTick
<1>3. CASE jobs[r].rest = <<>>
  BY <1>2, <1>3, StepNames, Moves DEF NextTick, mailbox
<1>4. CASE jobs[r].rest # <<>>
  <2>1. PICK t \in Ticks, rest \in Seq(Ticks) :
          /\ t = Head(jobs[r].rest) /\ rest = Tail(jobs[r].rest)
          /\ t \in ToSet(jobs[r].rest) /\ ToSet(rest) \subseteq ToSet(jobs[r].rest)
    BY <1>1, <1>4, ToSetHeadTail
  <2>2. PICK job \in Jobs :
          /\ job = [jobs[r] EXCEPT !.rest = rest]
          /\ job.step = "next" /\ job.rest = rest
    <3>1. PICK k \in Jobs : k = [jobs[r] EXCEPT !.rest = rest]
      BY <1>1, JobEdited
    <3>2. k.step = "next" /\ k.rest = rest
      BY <1>1, <3>1 DEF Jobs
    <3>3. QED
      BY <3>1, <3>2
  <2>3. JobInv(job)
    BY <1>1, <2>1, <2>2, FewerRead DEF JobInv, Answered, Addressed
  <2>4. CASE ~IsOpen(t.sid)
    <3>1. Dequeue(t.id) /\ Become(r, job)
      BY <1>4, <2>1, <2>2, <2>4 DEF NextTick
    <3>2. \A u \in ToSet(mail) : u.id = t.id => ~IsOpen(u.sid)
      BY <1>1, <2>1, <2>4 DEF JobInv, ReadAsQueued
    <3>3. t.id \in Nat
      BY DEF Ticks
    <3>4. QED
      BY <1>2, <2>3, <3>1, <3>2, <3>3, Dequeued
  <2>5. CASE IsOpen(t.sid)
    <3>1. Become(r, [job EXCEPT !.step = "post", !.id = t.id, !.sid = t.sid])
          /\ UNCHANGED mailbox
      BY <1>4, <2>1, <2>2, <2>5 DEF NextTick, mailbox
    <3>2. PICK id \in 0 .. MaxKept, sid \in Sessions : id = t.id /\ sid = t.sid
      BY DEF Ticks
    <3>3. [job EXCEPT !.step = "post", !.id = id, !.sid = sid] \in Jobs
      <4>1. "post" \in Steps /\ sid \in 0 .. MaxSessions
        BY DEF Steps, SendSteps, Sessions
      <4>2. QED
        BY <4>1, JobEdited
    <3>4. PICK k \in Jobs : k = [job EXCEPT !.step = "post", !.id = id, !.sid = sid]
      BY <3>3
    <3>5. k.step = "post" /\ k.rest = job.rest /\ k.sid \in Sessions
      BY <3>4 DEF Jobs
    <3>6. JobInv(k)
      BY <2>3, <3>5, FewerRead DEF JobInv, Answered, Addressed
    <3>7. QED
      BY <1>2, <3>1, <3>2, <3>4, <3>6, GoesOn
  <2>6. QED
    BY <2>4, <2>5
<1>5. QED
  BY <1>3, <1>4

LEMMA ConnectionSteps ==
  ASSUME IInv, NEW r \in Slots, Greet(r) \/ Look(r) \/ Part(r)
  PROVE  IInv' /\ Kept
<1>1. CASE Greet(r)
  <2>1. Rest' /\ Opened'
    BY <1>1 DEF Greet, Rest, Opened, IInv, TypeOK, board, adapter
  <2>2. QED
    BY <1>1, <2>1, StepNames, Moves DEF Greet
<1>2. CASE Look(r)
  BY <1>2, RestStays, StepNames, Moves DEF Look
<1>3. CASE Part(r)
  <2>1. Rest' /\ Opened'
    BY <1>3 DEF Part, Rest, Opened, IInv, TypeOK, board, adapter
  <2>2. QED
    BY <1>3, <2>1, Moves DEF Part
<1>4. QED
  BY <1>1, <1>2, <1>3

\* The rounds of the loop.
LEMMA LoopSteps == ASSUME IInv, Round \/ RoundStep PROVE IInv' /\ Kept
<1> USE LoopSlot
<1>1. CASE Round
  BY <1>1, RestStays, StepNames, Moves DEF Round
<1>2. CASE Expire
  <2>1. Rest' /\ Opened'
    BY <1>2 DEF Expire, Rest, Opened, IInv, TypeOK, board, adapter
  <2>2. QED
    BY <1>2, <2>1, StepNames, Moves DEF Expire
<1>3. CASE Cut
  <2>1. Rest' /\ Opened'
    BY <1>3 DEF Cut, Rest, Opened, IInv, TypeOK, board, adapter
  <2>2. QED
    BY <1>3, <2>1, StepNames, Moves DEF Cut
<1>4. CASE Resend
  <2>1. \/ Goto(Loop, "interrupt")
        \/ Become(Loop, [Idle EXCEPT !.step = "prepare", !.then = "interrupt"])
    BY <1>4 DEF Resend
  <2>2. QED
    BY <1>4, <2>1, RestStays, StepNames, Moves DEF Resend
<1>5. CASE Interrupt
  <2>1. Rest' /\ Opened'
    BY <1>5 DEF Interrupt, Rest, Opened, IInv, TypeOK, link, adapter
  <2>2. QED
    BY <1>5, <2>1, StepNames, Moves DEF Interrupt
<1>6. CASE Schedule
  <2>1. \/ Goto(Loop, "decide")
        \/ Become(Loop, [Idle EXCEPT !.step = "prepare", !.then = "decide"])
    BY <1>6 DEF Schedule
  <2>2. QED
    BY <1>6, <2>1, RestStays, StepNames, Moves DEF Schedule
<1>7. CASE Decide
  BY <1>7, RestStays, Moves DEF Decide, Throw
<1>8. QED
  BY <1>1, <1>2, <1>3, <1>4, <1>5, <1>6, <1>7 DEF RoundStep

\* The adapter takes a tick: from now on its row may go.
LEMMA TakeStep == ASSUME IInv, NEW r \in Slots, Take(r) PROVE IInv' /\ Kept
<1>1. /\ jobs[r] \in Jobs /\ JobInv(jobs[r])
      /\ jobs[r].step = "wait" /\ jobs[r].line = "sent" /\ jobs[r].sid \in Sessions
  BY DEF IInv, TypeOK, JobInv, Addressed, Take, At
<1>2. /\ UNCHANGED mail
      /\ got' = got \cup ({jobs[r].id} \cap {t.id : t \in ToSet(mail)})
  BY DEF Take
<1>3. PICK job \in Jobs :
        /\ job = [jobs[r] EXCEPT !.line = "taken", !.sid = 0]
        /\ job.step = "wait" /\ job.line = "taken"
        /\ job.rest = jobs[r].rest /\ job.id = jobs[r].id
  <2>1. [jobs[r] EXCEPT !.line = "taken", !.sid = 0] \in Jobs
    <3>1. 0 \in 0 .. MaxSessions
      BY GatewayConstants
    <3>2. QED
      BY <1>1, <3>1 DEF Jobs
  <2>2. PICK k \in Jobs : k = [jobs[r] EXCEPT !.line = "taken", !.sid = 0]
    BY <2>1
  <2>3. /\ k.step = "wait" /\ k.line = "taken"
        /\ k.rest = jobs[r].rest /\ k.id = jobs[r].id
    BY <1>1, <2>2 DEF Jobs
  <2>4. QED
    BY <2>2, <2>3
<1>4. JobInv(job)'
  <2>1. Answered(job)'
    BY <1>2, <1>3 DEF Answered
  <2>2. ReadAsQueued(job)'
    BY <1>1, <1>2, <1>3 DEF JobInv, ReadAsQueued
  <2>3. QED
    BY <1>3, <2>1, <2>2 DEF JobInv, Answered, ReadAsQueued, Addressed
<1>5. \A q : Unnoticed(q)
  BY <1>2 DEF Unnoticed
<1>6. Become(r, job)
  BY <1>3 DEF Take
<1>7. jobs' \in [Slots -> Jobs] /\ \A q \in Slots : JobInv(jobs[q])'
  BY <1>4, <1>5, <1>6, OneJobGoesOn
<1>8. TakenIsQueued' /\ OneRow' /\ got' \subseteq 1 .. MaxKept
  <2>1. \A t \in ToSet(mail) : t.id \in 1 .. MaxKept
    BY ToSetType DEF IInv, TypeOK, Ticks
  <2>2. QED
    BY <1>2, <2>1 DEF TakenIsQueued, OneRow, IInv, TypeOK
<1>9. Rest' /\ Opened'
  <2>1. jobs[r].sid \in 0 .. MaxSessions
    BY <1>1 DEF Sessions
  <2>2. active' \in 0 .. MaxSessions /\ chain' \in Seq(Sessions)
    <3>1. /\ active \in 0 .. MaxSessions /\ chain \in Seq(Sessions)
          /\ Append(chain, jobs[r].sid) \in Seq(Sessions)
      BY <1>1 DEF IInv, TypeOK
    <3>2. \/ UNCHANGED <<active, chain>>
          \/ active' = jobs[r].sid /\ chain' = Append(chain, jobs[r].sid)
      BY DEF Take
    <3>3. QED
      BY <2>1, <3>1, <3>2
  <2>3. QED
    BY <2>2 DEF Take, Rest, Opened, IInv, TypeOK, board, link
<1>10. QED
  BY <1>2, <1>7, <1>8, <1>9 DEF IInv, TypeOK, Rest, Kept

\* The relay tells the jobs that wait that their line is gone.
LEMMA LineGone ==
  ASSUME IInv, NEW r \in Slots, NEW job \in Jobs, JobInv(job),
         jobs' = [Broken(jobs) EXCEPT ![r] = job], UNCHANGED mailbox, Rest', Opened'
  PROVE  IInv' /\ Kept
<1>1. UNCHANGED <<mail, got>>
  BY DEF mailbox
<1>2. \A q : Unnoticed(q)
  BY <1>1 DEF Unnoticed
<1>3. ASSUME NEW q \in Slots PROVE \E k \in Jobs : k = jobs'[q] /\ JobInv(k)
  <2>1. jobs[q] \in Jobs /\ JobInv(jobs[q])
    BY DEF IInv, TypeOK
  <2>2. CASE q = r
    BY <2>2 DEF Broken
  <2>3. CASE q # r /\ jobs[q].step = "wait"
    <3>1. PICK k \in Jobs : k = [jobs[q] EXCEPT !.line = "broken"]
      BY <2>1, JobEdited
    <3>2. k.step = "wait" /\ k.line = "broken" /\ k.rest = jobs[q].rest
      BY <2>1, <2>3, <3>1 DEF Jobs
    <3>3. JobInv(k)
      BY <2>1, <3>2, FewerRead DEF JobInv, Answered, Addressed
    <3>4. QED
      BY <2>3, <3>1, <3>3 DEF Broken
  <2>4. CASE q # r /\ jobs[q].step # "wait"
    BY <2>1, <2>4 DEF Broken
  <2>5. QED
    BY <2>2, <2>3, <2>4
<1>4. ASSUME NEW q \in Slots PROVE JobInv(jobs[q])'
  <2>1. PICK k \in Jobs : k = jobs'[q] /\ JobInv(k)
    BY <1>3
  <2>2. JobInv(k)'
    BY <1>2, <2>1, JobInvStays
  <2>3. QED
    BY <2>1, <2>2 DEF JobInv, Answered, ReadAsQueued, Addressed
<1>5. jobs' \in [Slots -> Jobs]
  BY <1>3 DEF Broken
<1>6. QED
  BY <1>1, <1>4, <1>5 DEF IInv, TypeOK, Rest, OneRow, TakenIsQueued, Kept

LEMMA SocketSteps ==
  ASSUME IInv, NEW r \in Handler, Connect(r) \/ CloseSeen(r)
  PROVE  IInv' /\ Kept
<1>1. PICK step \in {"greet", "part"} :
        jobs' = [Broken(jobs) EXCEPT ![r] = [Idle EXCEPT !.step = step]]
  BY DEF Connect, CloseSeen
<1>2. step \in Resting
  BY StepNames
<1>3. Idle \in Jobs /\ JobInv(Idle)
  BY IdleType, NothingRead DEF JobInv, Answered, Addressed
<1>4. PICK job \in Jobs : job = [Idle EXCEPT !.step = step] /\ JobInv(job)
  BY <1>2, <1>3, GotoInv
<1>5. UNCHANGED mailbox /\ Rest' /\ Opened'
  BY DEF Connect, CloseSeen, Rest, Opened, IInv, TypeOK, board, adapter
<1>6. QED
  BY <1>1, <1>4, <1>5, LoopSlot, LineGone

\* No job goes on.
LEMMA JobsAlone ==
  ASSUME IInv, UNCHANGED <<mailbox, jobs>>, Rest', Opened'
  PROVE  IInv' /\ Kept
<1>1. UNCHANGED <<mail, got, jobs>>
  BY DEF mailbox
<1>2. ASSUME NEW q \in Slots PROVE JobInv(jobs[q])'
  BY <1>1 DEF IInv, JobInv, Answered, ReadAsQueued, Addressed
<1>3. QED
  BY <1>1, <1>2 DEF IInv, TypeOK, Rest, OneRow, TakenIsQueued, Kept

LEMMA LineSteps ==
  ASSUME IInv, Pong \/ Lapse \/ FallSilent \/ Break \/ AdapterCrash
  PROVE  IInv' /\ Kept
<1>1. UNCHANGED <<mailbox, jobs, board, shown>>
  BY DEF Pong, Lapse, FallSilent, Break, AdapterCrash
<1>2. faults' \in 0 .. MaxFaults
  BY GatewayConstants DEF Pong, Lapse, FallSilent, Break, AdapterCrash, CanFail, IInv, TypeOK
<1>3. active' \in 0 .. MaxSessions /\ chain' \in Seq(Sessions)
  <2>1. UNCHANGED adapter \/ (active' = 0 /\ chain' = <<>>)
    BY DEF Pong, Lapse, FallSilent, Break, AdapterCrash
  <2>2. 0 \in 0 .. MaxSessions /\ <<>> \in Seq(Sessions)
    BY GatewayConstants
  <2>3. QED
    BY <2>1, <2>2 DEF adapter, IInv, TypeOK
<1>4. /\ online' \in {"open", "closing", "none"}
      /\ attached' \in BOOLEAN /\ fresh' \in BOOLEAN
  BY DEF Pong, Lapse, FallSilent, Break, AdapterCrash, IInv, TypeOK
<1>5. Rest' /\ Opened'
  BY <1>1, <1>2, <1>3, <1>4 DEF Rest, Opened, IInv, TypeOK, board
<1>6. QED
  BY <1>1, <1>5, JobsAlone

\* The rows survive a crash of the server, its jobs do not.
LEMMA ServerCrashStep == ASSUME IInv, ServerCrash PROVE IInv' /\ Kept
<1>1. UNCHANGED <<mail, got>> /\ jobs' = [r \in Slots |-> Idle]
  BY DEF ServerCrash, mailbox
<1>2. PICK idle \in Jobs : idle = Idle /\ idle.step = "idle" /\ idle.rest = <<>>
  BY IdleType
<1>3. JobInv(idle)
  BY <1>2, NothingRead DEF JobInv, Answered, Addressed
<1>4. ASSUME NEW q \in Slots PROVE JobInv(jobs[q])'
  <2>1. jobs'[q] = idle
    BY <1>1, <1>2
  <2>2. QED
    BY <1>1, <1>3, <2>1 DEF JobInv, Answered, ReadAsQueued, Addressed
<1>5. faults' \in 0 .. MaxFaults
  BY GatewayConstants DEF ServerCrash, CanFail, IInv, TypeOK
<1>6. Rest' /\ Opened'
  BY <1>5 DEF ServerCrash, Rest, Opened, IInv, TypeOK, board, adapter
<1>7. jobs' \in [Slots -> Jobs]
  BY <1>1, <1>2
<1>8. QED
  BY <1>1, <1>4, <1>6, <1>7 DEF IInv, TypeOK, Rest, OneRow, TakenIsQueued, Kept

\* The adapter's loops and the engine they run.
LEMMA EngineSteps ==
  ASSUME IInv, LoopDone \/ Brief \/ EndDay
  PROVE  IInv' /\ Kept
<1>1. UNCHANGED <<mailbox, jobs, link, faults>>
  BY DEF LoopDone, Brief, EndDay
<1>2. chain # <<>> => Tail(chain) \in Seq(Sessions)
  BY DEF IInv, TypeOK
<1>3. active' \in 0 .. MaxSessions /\ chain' \in Seq(Sessions)
  <2>1. \/ UNCHANGED adapter
        \/ /\ chain # <<>> /\ chain' = Tail(chain)
           /\ active' = IF active = Head(chain) THEN 0 ELSE active
    BY DEF LoopDone, Brief, EndDay
  <2>2. 0 \in 0 .. MaxSessions /\ active \in 0 .. MaxSessions /\ chain \in Seq(Sessions)
    BY GatewayConstants DEF IInv, TypeOK
  <2>3. QED
    BY <1>2, <2>1, <2>2 DEF adapter
<1>4. count' \in 0 .. MaxSessions /\ phase' \in {"asleep", "woken", "awake"} /\ Opened'
  BY GatewayConstants DEF LoopDone, Brief, EndDay, board, IInv, TypeOK, Opened, Sessions
<1>5. Rest'
  BY <1>1, <1>3, <1>4 DEF Rest, IInv, TypeOK, link
<1>6. QED
  BY <1>1, <1>4, <1>5, JobsAlone

-----------------------------------------------------------------------------
(* The whole. *)

LEMMA InitIInv == Init => IInv
<1> SUFFICES ASSUME Init PROVE IInv
  OBVIOUS
<1>1. jobs \in [Slots -> Jobs] /\ \A r \in Slots : jobs[r] = Idle
  BY IdleType DEF Init
<1>2. JobInv(Idle)
  BY IdleType, NothingRead DEF JobInv, Answered, Addressed
<1>3. /\ mail \in Seq(Ticks) /\ chain \in Seq(Sessions)
      /\ 0 \in 0 .. MaxSessions /\ 0 \in 0 .. MaxFaults
  BY GatewayConstants DEF Init
<1>4. TypeOK
  BY <1>1, <1>3 DEF Init, TypeOK
<1>5. OneRow /\ TakenIsQueued /\ Opened
  BY DEF Init, OneRow, TakenIsQueued, Opened
<1>6. QED
  BY <1>1, <1>2, <1>4, <1>5 DEF IInv

LEMMA NextKeeps == IInv /\ [Next]_vars => IInv' /\ Kept
<1> SUFFICES ASSUME IInv, [Next]_vars PROVE IInv' /\ Kept
  OBVIOUS
<1>1. ASSUME NEW r \in Handler, Wake(r) \/ Connect(r) \/ CloseSeen(r) PROVE IInv' /\ Kept
  BY <1>1, WakeStep, SocketSteps
<1>2. ASSUME NEW r \in Slots, Serve(r) \/ Refuse(r) PROVE IInv' /\ Kept
  BY <1>2, PrepareStep, EnqueueStep, PostStep, AnswerStep, FailStep, MarkStep, ListStep,
     NextTickStep, ConnectionSteps, TakeStep, RefuseStep DEF Serve
<1>3. CASE Round \/ RoundStep
  BY <1>3, LoopSteps
<1>4. CASE Pong \/ Lapse \/ Fault
  BY <1>4, LineSteps, ServerCrashStep DEF Fault
<1>5. CASE LoopDone \/ Brief \/ EndDay
  BY <1>5, EngineSteps
<1>6. CASE UNCHANGED vars
  BY <1>6, RestStays, JobsAlone DEF vars
<1>7. QED
  BY <1>1, <1>2, <1>3, <1>4, <1>5, <1>6 DEF Next

\* The invariant holds in every state that can be reached.
THEOREM Inductive == Spec => []IInv
  BY InitIInv, NextKeeps, PTL DEF Spec

-----------------------------------------------------------------------------
(* The theorems. *)

\* Every variable, and every job in progress on the board, keeps its type.
THEOREM TypeCorrect == Spec => []TypeOK
<1>1. IInv => TypeOK
  BY DEF IInv
<1>2. QED
  BY <1>1, Inductive, PTL

\* However sends, flushes, reconnections and crashes interleave, a tick leaves
\* the mailbox only when the adapter has taken it or its session has closed
\* (insertTick before deliverTick, markTickDelivered, flushMailbox).
THEOREM TicksAreKept == Spec => KeptUntilTaken
<1>1. IInv /\ [Next]_vars =>
        [\A t \in ToSet(mail) \ ToSet(mail') : t.id \in got \/ ~IsOpen(t.sid)]_vars
  BY NextKeeps DEF Kept
<1>2. QED
  BY <1>1, Inductive, PTL DEF Spec, KeptUntilTaken
=============================================================================
