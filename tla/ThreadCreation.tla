--------------------------- MODULE ThreadCreation ---------------------------
(***************************************************************************)
(* What a project must have settled before its threads, and where threads  *)
(* come from: the founding artifacts, the gate of createThread, the        *)
(* amendment of project rules, and the issues opened on GitHub, each of    *)
(* which becomes a thread and is closed with a pointer to it               *)
(* (packages/board/src/domain: projects.ts, founding.ts, constitution.ts,  *)
(* threads.ts, issue-intake.ts, archive.ts, the ratification of            *)
(* declare.ts, and http/github-routes.ts).                                 *)
(*                                                                         *)
(* Nothing of it is a transaction.  A request awaits the database between  *)
(* its checks and its insert, an intake awaits GitHub in between as well   *)
(* and may fail there; what a request has decided is kept in inflight.     *)
(***************************************************************************)
EXTENDS Integers, Sequences, FiniteSets

CONSTANTS
  Participant,    \* members of the project
  Owner,          \* projects.owner_participant_id, a human
  Issue,          \* issues of the connected repository
  Handler,        \* requests the server can be serving at the same time
  Apart,          \* TRUE: neither two deliveries nor two declarations are
                  \* served at the same time; all else is
  None,           \* a null column
  MaxThreads,     \* bound: at most so many threads when a request creates one
  MaxDeliveries,  \* bound: deliveries of the webhook for one issue
  MaxFaults       \* bound: calls to GitHub or inserts that fail

ConstitutionKinds == {"project_rule", "thread_template"}
\* What a thread is about: "talk" stands for all that is not the constitution.
Subjects == ConstitutionKinds \cup {"talk"}
\* rough stands for the consensus types that need no ratification.
ConsensusTypes == {"human_ratification", "rough"}

ASSUME ConstantsOK ==
  /\ Owner \in Participant
  /\ None \notin Participant \cup Issue
  /\ Apart \in BOOLEAN
  /\ {MaxThreads, MaxDeliveries, MaxFaults} \subseteq Nat

VARIABLES
  threads,      \* the rows of threads, in the order of their insertion
  agreements,   \* the rows of agreements, likewise
  connected,    \* the project has an installation of the GitHub App
  issue,        \* each issue on GitHub: state and the comments of the board
  intakes,      \* the rows of github_issue_intakes
  deliveries,   \* webhook deliveries of each issue: sent and not yet taken
  sent,         \* how many deliveries of each issue there have been
  inflight,     \* what each handler has checked and not yet done
  faults        \* how many calls have failed

board == <<threads, agreements, connected>>
github == <<issue, deliveries, sent>>
vars == <<board, github, intakes, inflight, faults>>

-----------------------------------------------------------------------------
Ids == DOMAIN threads

ThreadRow ==
  [subject : Subjects, consensus : ConsensusTypes, query : Issue \cup {None},
   author : Participant \cup {None},      \* of the candidate version
   state : {"discussing", "awaiting_decision", "decided"}, archived : BOOLEAN]

\* A rejection settles nothing here: agreements are those with outcome adopted.
AgreementRow ==
  [thread : Nat, binding : BOOLEAN, by : Participant \cup {None},
   how : {"founding", "ratification", "consensus"}]

Idle == [step |-> "idle"]
Requests ==
  {Idle}
  \cup [step : {"creating"}, row : ThreadRow]
  \cup [step : {"ratifying"}, thread : Nat]
  \cup [step : {"commenting", "closing", "recording"}, issue : Issue, thread : Nat]

IsIntake(tx) ==
  \/ tx.step \in {"commenting", "closing", "recording"}
  \/ tx.step = "creating" /\ tx.row.query # None

Free(r) == inflight[r] = Idle
NoIntake == Apart => \A r \in Handler : ~IsIntake(inflight[r])
NoDeclaration == Apart => \A r \in Handler : inflight[r].step # "ratifying"
Hold(r, tx) == inflight' = [inflight EXCEPT ![r] = tx]

-----------------------------------------------------------------------------
(* constitution.ts: an artifact is active once it was adopted.  No caller of *)
(* supersedeAgreement takes an agreement out of force again.                 *)

hasActiveSharedArtifact(kind) ==
  \E i \in DOMAIN agreements : threads[agreements[i].thread].subject = kind

isSetupComplete == \A kind \in ConstitutionKinds : hasActiveSharedArtifact(kind)

\* Mutated form: one of the two artifacts is enough.
AllowedHalfFounded(subject) ==
  \/ \E kind \in ConstitutionKinds : hasActiveSharedArtifact(kind)
  \/ subject \in ConstitutionKinds

assertCreateThreadAllowed(subject) == isSetupComplete \/ subject \in ConstitutionKinds

countActiveBindingAgreements == Cardinality({i \in DOMAIN agreements : agreements[i].binding})

\* Mutated form: the consensus type asked for is taken for a rule as well.
ConsensusAsked(subject, asked) == asked

\* A rule is amended by ratification; the other types default to rough.
ConsensusOf(subject, asked) ==
  IF subject = "project_rule" THEN "human_ratification" ELSE asked

NewThread(subject, consensus, query) ==
  [subject |-> subject, consensus |-> consensus, query |-> query,
   author |-> None, state |-> "discussing", archived |-> FALSE]

\* The gates of createThread, which it passes before it awaits its insert.
CreateAllowed(subject, checked) ==
  /\ assertCreateThreadAllowed(subject)
  /\ countActiveBindingAgreements > 0 => checked

-----------------------------------------------------------------------------
(* createProject founds the rule and then the template, each if one is given; *)
(* when an adoption fails, the project stays as far as it got.               *)

Founding == {<<>>, <<"project_rule">>, <<"thread_template">>,
             <<"project_rule", "thread_template">>}

FoundingThread(kind) ==
  [NewThread(kind, ConsensusOf(kind, "rough"), None)
     EXCEPT !.author = Owner, !.state = "decided"]

Init ==
  /\ \E kinds \in Founding :
       /\ threads = [i \in DOMAIN kinds |-> FoundingThread(kinds[i])]
       /\ agreements = [i \in DOMAIN kinds |->
                          [thread |-> i, binding |-> TRUE, by |-> None, how |-> "founding"]]
  /\ connected = FALSE
  /\ issue = [i \in Issue |-> [state |-> "none", comments |-> <<>>]]
  /\ intakes = {}
  /\ deliveries = [i \in Issue |-> 0] /\ sent = [i \in Issue |-> 0]
  /\ inflight = [r \in Handler |-> Idle]
  /\ faults = 0

-----------------------------------------------------------------------------
(* createThread, from a route or a tool. *)

CheckCreate(r, subject, asked, checked) ==
  /\ Free(r)
  /\ Len(threads) < MaxThreads
  /\ CreateAllowed(subject, checked)
  /\ Hold(r, [step |-> "creating",
              row |-> NewThread(subject, ConsensusOf(subject, asked), None)])
  /\ UNCHANGED <<board, github, intakes, faults>>

\* An intake goes on to tell the issue.
InsertThread(r) ==
  /\ inflight[r].step = "creating"
  /\ LET row == inflight[r].row
     IN  /\ threads' = Append(threads, row)
         /\ Hold(r, IF row.query = None THEN Idle
                    ELSE [step |-> "commenting", issue |-> row.query,
                          thread |-> Len(threads) + 1])
  /\ UNCHANGED <<agreements, connected, github, intakes, faults>>

-----------------------------------------------------------------------------
(* The decision on a proposal, as far as it settles the constitution; the    *)
(* rest of declare.ts is the subject of ThreadDecision.                      *)

Settle(t, binding, by, how) ==
  /\ threads' = [threads EXCEPT ![t].state = "decided"]
  /\ agreements' = Append(agreements, [thread |-> t, binding |-> binding,
                                       by |-> by, how |-> how])

\* A version is proposed and selected as the candidate.
SelectCandidate(t, author) ==
  /\ NoDeclaration
  /\ t \in Ids
  /\ threads[t].subject \in ConstitutionKinds /\ threads[t].state = "discussing"
  /\ threads' = [threads EXCEPT ![t].author = author]
  /\ UNCHANGED <<agreements, connected, github, intakes, inflight, faults>>

DecideByConsensus(t, binding) ==
  /\ NoDeclaration
  /\ t \in Ids
  /\ threads[t].consensus = "rough"
  /\ threads[t].state = "discussing" /\ threads[t].author # None
  /\ Settle(t, binding, None, "consensus")
  /\ UNCHANGED <<connected, github, intakes, inflight, faults>>

RequestRatification(t) ==
  /\ NoDeclaration
  /\ t \in Ids
  /\ threads[t].consensus = "human_ratification"
  /\ threads[t].state = "discussing" /\ threads[t].author # None
  /\ threads' = [threads EXCEPT ![t].state = "awaiting_decision"]
  /\ UNCHANGED <<agreements, connected, github, intakes, inflight, faults>>

\* Mutated form: the author's own version is let through for any constitution kind.
OwnVersionAllowed(t) == threads[t].subject \in ConstitutionKinds

\* ratify: the owner may ratify a version of their own only to found a kind.
MayRatify(t) ==
  \/ threads[t].author # Owner
  \/ threads[t].subject \in ConstitutionKinds /\ ~hasActiveSharedArtifact(threads[t].subject)

CheckRatify(r, t) ==
  /\ Free(r)
  /\ NoDeclaration
  /\ t \in Ids
  /\ threads[t].state = "awaiting_decision" /\ MayRatify(t)
  /\ Hold(r, [step |-> "ratifying", thread |-> t])
  /\ UNCHANGED <<board, github, intakes, faults>>

CommitRatify(r, binding) ==
  /\ inflight[r].step = "ratifying"
  /\ Settle(inflight[r].thread, binding, threads[inflight[r].thread].author, "ratification")
  /\ Hold(r, Idle)
  /\ UNCHANGED <<connected, github, intakes, faults>>

SendBack(t) ==
  /\ NoDeclaration
  /\ t \in Ids
  /\ threads[t].state = "awaiting_decision"
  /\ threads' = [threads EXCEPT ![t].state = "discussing"]
  /\ UNCHANGED <<agreements, connected, github, intakes, inflight, faults>>

\* archiveThread: by the owner, and not under a binding agreement.
archiveThread(t) ==
  /\ t \in Ids
  /\ ~threads[t].archived
  /\ ~\E i \in DOMAIN agreements : agreements[i].thread = t /\ agreements[i].binding
  /\ threads' = [threads EXCEPT ![t].archived = TRUE]
  /\ UNCHANGED <<agreements, connected, github, intakes, inflight, faults>>

-----------------------------------------------------------------------------
(* The intake of an issue: handleGithubEvent and intakeOpenedIssue. *)

ThreadsOf(i) == {t \in Ids : threads[t].query = i}

\* A delivery is over when it has been answered, whatever came of it.
Take(i) ==
  /\ deliveries[i] > 0
  /\ deliveries' = [deliveries EXCEPT ![i] = @ - 1]
  /\ UNCHANGED <<issue, sent>>

MayTake(r) == Free(r) /\ NoIntake

\* Nothing to do, or createThread throws: the issue is left as it is.
TurnAway(r, i) ==
  /\ MayTake(r)
  /\ Take(i)
  /\ \/ \E x \in intakes : x.issue = i
     \/ ~connected
     \/ ThreadsOf(i) = {} /\ ~CreateAllowed("talk", TRUE)
  /\ UNCHANGED <<board, intakes, inflight, faults>>

\* Mutated form: no look for the thread that an earlier delivery created.
TakeInAnew(r, i) ==
  /\ MayTake(r)
  /\ Take(i)
  /\ ~\E x \in intakes : x.issue = i
  /\ connected
  /\ CreateAllowed("talk", TRUE)
  /\ Hold(r, [step |-> "creating", row |-> NewThread("talk", "rough", i)])
  /\ UNCHANGED <<board, intakes, faults>>

TakeIn(r, i) ==
  /\ MayTake(r)
  /\ Take(i)
  /\ ~\E x \in intakes : x.issue = i
  /\ connected
  /\ \/ \E t \in ThreadsOf(i) :
          Hold(r, [step |-> "commenting", issue |-> i, thread |-> t])
     \/ /\ ThreadsOf(i) = {}
        /\ CreateAllowed("talk", TRUE)
        /\ Hold(r, [step |-> "creating", row |-> NewThread("talk", "rough", i)])
  /\ UNCHANGED <<board, intakes, faults>>

Advance(r, step) == Hold(r, [inflight[r] EXCEPT !.step = step])

\* Mutated form: the intake is recorded before GitHub has answered.
CommentLast(r) ==
  /\ inflight[r].step = "commenting"
  /\ intakes' = intakes \cup {[issue |-> inflight[r].issue, thread |-> inflight[r].thread]}
  /\ Advance(r, "closing")
  /\ UNCHANGED <<board, github, faults>>

CommentIssue(r) ==
  /\ inflight[r].step = "commenting"
  /\ issue' = [issue EXCEPT ![inflight[r].issue].comments = Append(@, inflight[r].thread)]
  /\ Advance(r, "closing")
  /\ UNCHANGED <<board, deliveries, sent, intakes, faults>>

CloseIssue(r) ==
  /\ inflight[r].step = "closing"
  /\ issue' = [issue EXCEPT ![inflight[r].issue].state = "closed"]
  /\ Advance(r, "recording")
  /\ UNCHANGED <<board, deliveries, sent, intakes, faults>>

\* The insert is refused when another delivery has recorded the issue.
RecordIntake(r) ==
  /\ inflight[r].step = "recording"
  /\ LET i == inflight[r].issue
     IN  intakes' = IF \E x \in intakes : x.issue = i THEN intakes
                    ELSE intakes \cup {[issue |-> i, thread |-> inflight[r].thread]}
  /\ Hold(r, Idle)
  /\ UNCHANGED <<board, github, faults>>

\* A call fails, or the server stops: the rest of the intake is not done.
FailIntake(r) ==
  /\ faults < MaxFaults
  /\ IsIntake(inflight[r])
  /\ faults' = faults + 1
  /\ Hold(r, Idle)
  /\ UNCHANGED <<board, github, intakes>>

-----------------------------------------------------------------------------
(* GitHub and the owner of the project. *)

ConnectInstallation ==
  /\ ~connected
  /\ connected' = TRUE
  /\ UNCHANGED <<threads, agreements, github, intakes, inflight, faults>>

OpenIssue(i) ==
  /\ issue[i].state = "none"
  /\ issue' = [issue EXCEPT ![i].state = "open"]
  /\ deliveries' = [deliveries EXCEPT ![i] = @ + 1]
  /\ sent' = [sent EXCEPT ![i] = @ + 1]
  /\ UNCHANGED <<board, intakes, inflight, faults>>

\* A delivery that failed is sent again by hand, or twice by the network.
Redeliver(i) ==
  /\ issue[i].state # "none"
  /\ sent[i] < MaxDeliveries
  /\ deliveries' = [deliveries EXCEPT ![i] = @ + 1]
  /\ sent' = [sent EXCEPT ![i] = @ + 1]
  /\ UNCHANGED <<board, issue, intakes, inflight, faults>>

Next ==
  \/ \E r \in Handler :
       \/ \E subject \in Subjects, asked \in ConsensusTypes, checked \in BOOLEAN :
            CheckCreate(r, subject, asked, checked)
       \/ InsertThread(r)
       \/ \E t \in 1 .. MaxThreads : CheckRatify(r, t)
       \/ \E b \in BOOLEAN : CommitRatify(r, b)
       \/ \E i \in Issue : TurnAway(r, i) \/ TakeIn(r, i)
       \/ CommentIssue(r) \/ CloseIssue(r) \/ RecordIntake(r) \/ FailIntake(r)
  \/ \E t \in 1 .. MaxThreads :
       \/ \E who \in Participant : SelectCandidate(t, who)
       \/ \E b \in BOOLEAN : DecideByConsensus(t, b)
       \/ RequestRatification(t) \/ SendBack(t) \/ archiveThread(t)
  \/ \E i \in Issue : OpenIssue(i) \/ Redeliver(i)
  \/ ConnectInstallation

Spec == Init /\ [][Next]_vars

-----------------------------------------------------------------------------
(* Properties *)

\* Types: rows have their columns, requests what they need.
TypeOK ==
  /\ threads \in Seq(ThreadRow) /\ agreements \in Seq(AgreementRow)
  /\ connected \in BOOLEAN
  /\ issue \in [Issue -> [state : {"none", "open", "closed"}, comments : Seq(Nat)]]
  /\ intakes \subseteq [issue : Issue, thread : Nat]
  /\ deliveries \in [Issue -> Nat] /\ sent \in [Issue -> Nat]
  /\ inflight \in [Handler -> Requests]
  /\ faults \in 0 .. MaxFaults

\* Every thread but those that settle the rule and the template stands on a
\* settled rule and template, for ever, whatever was decided or archived while
\* it was being created (assertCreateThreadAllowed).
SetupBeforeWork ==
  (\E t \in Ids : threads[t].subject \notin ConstitutionKinds) => isSetupComplete

\* The rule and the template are given by the author of the version alone only
\* when the project had none: an agreement its author ratified, and a rule not
\* ratified at all, have no earlier one of their kind (ratify, createThread).
AmendedByAnother ==
  \A i, j \in DOMAIN agreements :
    (j < i /\ threads[agreements[i].thread].subject = threads[agreements[j].thread].subject) =>
      /\ agreements[i].how = "ratification" => agreements[i].by # Owner
      /\ threads[agreements[i].thread].subject = "project_rule" =>
           agreements[i].how = "ratification"

\* However often its delivery fails and is repeated, an issue becomes one thread
\* (intakeOpenedIssue).
OneThreadPerIssue == \A i \in Issue : Cardinality(ThreadsOf(i)) <= 1

\* An issue on record as redirected has been closed with a comment that names
\* the very thread the record names, and that thread is about the issue
\* (intakeOpenedIssue).
RedirectIsTruthful ==
  \A x \in intakes :
    /\ issue[x.issue].state = "closed"
    /\ \E k \in DOMAIN issue[x.issue].comments : issue[x.issue].comments[k] = x.thread
    /\ x.thread \in ThreadsOf(x.issue)

\* What docs/07-projects-and-repositories.md says: the pointer is written once.
CommentedOnce == \A i \in Issue : Len(issue[i].comments) <= 1
=============================================================================
