----------------------------- MODULE PullRequests -----------------------------
(***************************************************************************)
(* The pull requests linked to the threads of one project, and how the     *)
(* board follows their state at GitHub (packages/board/src: domain/        *)
(* pull-requests.ts, http/github-routes.ts, github/, and the setting of    *)
(* the repository in domain/projects.ts).                                  *)
(*                                                                         *)
(* A link and a sync read the board's rows, ask GitHub, and write what     *)
(* GitHub answered: three steps, between which other requests are served   *)
(* and the pull request goes on.  A sync is caused by a webhook, by the    *)
(* refresh of rows older than five minutes that opening the inbox begins,  *)
(* or by the project owner.  A webhook says only which pull request        *)
(* changed; it may be lost.                                                *)
(***************************************************************************)
EXTENDS Naturals

CONSTANTS
  Pr,           \* the numbers of pull requests
  Repo,         \* repositories the project may be set to
  Thread,       \* threads of the project
  None,         \* a null column
  Handler,      \* requests the server can be serving at the same time
  MaxChanges,   \* bound: changes of pull requests at GitHub
  MaxSettings,  \* bound: changes of the project's repository
  MaxFaults     \* bound: requests to GitHub that fail

ASSUME ConstantsOK ==
  /\ None \notin Repo \cup Thread
  /\ MaxChanges \in Nat /\ MaxSettings \in Nat /\ MaxFaults \in Nat

VARIABLES
  installed,   \* projects.github_installation_id is set
  repo,        \* projects.github_owner and github_repo
  remote,      \* the state of each pull request at GitHub
  deliveries,  \* webhooks under way
  rows,        \* thread_pull_requests: one row per number, or None
  told,        \* what the latest event said of each number's state
  inflight,    \* what each handler has read
  used         \* how much of each bound is used up

github == <<remote, deliveries>>
project == <<installed, repo>>
board == <<rows, told>>
vars == <<project, github, board, inflight, used>>

PullRequestState == {"open", "merged", "closed"}

\* A row: its thread, the repository its url names, the state it shows, the
\* repository that state was read from, and whether it is younger than maxAgeMs.
Row ==
  [thread : Thread, of : Repo, state : PullRequestState, from : Repo, fresh : BOOLEAN]

Idle == [step |-> "idle"]
Requests ==
  {Idle}
  \cup [step : {"ask"}, job : {"link", "sync"}, pr : Pr, repo : Repo,
        thread : Thread \cup {None}, old : PullRequestState \cup {None}]
  \cup [step : {"write"}, job : {"link", "sync"}, pr : Pr, repo : Repo,
        thread : Thread \cup {None}, old : PullRequestState \cup {None},
        snapshot : PullRequestState]

Hold(r, request) == inflight' = [inflight EXCEPT ![r] = request]
Free(r) == inflight[r] = Idle
Spend(bound) == used' = [used EXCEPT ![bound] = @ + 1]

Connected == installed /\ repo # None

Init ==
  /\ installed = FALSE /\ repo = None
  /\ remote = [q \in Repo \X Pr |-> "open"]
  /\ deliveries = {}
  /\ rows = [p \in Pr |-> None]
  /\ told = [p \in Pr |-> None]
  /\ inflight = [r \in Handler |-> Idle]
  /\ used = [changes |-> 0, settings |-> 0, faults |-> 0]

\* Mutated form: what is not open is thought final.
StaleOpen(p) == rows[p] # None /\ ~rows[p].fresh /\ rows[p].state = "open"

-----------------------------------------------------------------------------
(* linkPullRequest *)

\* A number linked already is refused, or answered with its row.
ReadLink(r, t, p) ==
  /\ Free(r)
  /\ Connected
  /\ rows[p] = None
  /\ Hold(r, [step |-> "ask", job |-> "link", pr |-> p, repo |-> repo,
              thread |-> t, old |-> None])
  /\ UNCHANGED <<project, github, board, used>>

\* The second of two links that overlap breaks the unique index and fails.
InsertLink(r) ==
  /\ inflight[r].step = "write" /\ inflight[r].job = "link"
  /\ LET q == inflight[r]
     IN  IF rows[q.pr] = None
         THEN /\ rows' = [rows EXCEPT ![q.pr] =
                            [thread |-> q.thread, of |-> q.repo, state |-> q.snapshot,
                             from |-> q.repo, fresh |-> TRUE]]
              /\ told' = [told EXCEPT ![q.pr] = q.snapshot]
         ELSE UNCHANGED board
  /\ Hold(r, Idle)
  /\ UNCHANGED <<project, github, used>>

(* syncPullRequest *)

Sync(r, p) ==
  IF rows[p] # None /\ Connected
  THEN Hold(r, [step |-> "ask", job |-> "sync", pr |-> p, repo |-> repo,
                thread |-> None, old |-> rows[p].state])
  ELSE UNCHANGED inflight

\* The webhook is for a pull request of the repository the project has now.
ReceiveWebhook(r, q) ==
  /\ Free(r)
  /\ q \in deliveries
  /\ deliveries' = deliveries \ {q}
  /\ IF q[1] = repo THEN Sync(r, q[2]) ELSE UNCHANGED inflight
  /\ UNCHANGED <<project, remote, board, used>>

\* A row refreshStalePullRequests selects.
Stale(p) == rows[p] # None /\ ~rows[p].fresh

\* One turn of the refresh's loop: a row that fails does not keep the others.
Refresh(r, p) ==
  /\ Free(r)
  /\ Stale(p)
  /\ Sync(r, p)
  /\ UNCHANGED <<project, github, board, used>>

\* POST /v1/github/sync
SyncAll(r, p) ==
  /\ Free(r)
  /\ rows[p] # None
  /\ Sync(r, p)
  /\ UNCHANGED <<project, github, board, used>>

\* The event is recorded if GitHub's answer differs from the row that was read.
WriteSync(r) ==
  /\ inflight[r].step = "write" /\ inflight[r].job = "sync"
  /\ LET q == inflight[r]
     IN  /\ rows' = [rows EXCEPT ![q.pr].state = q.snapshot, ![q.pr].from = q.repo,
                                 ![q.pr].fresh = TRUE]
         /\ told' = IF q.old = q.snapshot THEN told
                    ELSE [told EXCEPT ![q.pr] = q.snapshot]
  /\ Hold(r, Idle)
  /\ UNCHANGED <<project, github, used>>

(* GitHub's answer to getPullRequest, or its failure. *)

Answer(r) ==
  /\ inflight[r].step = "ask"
  /\ LET q == inflight[r]
     IN  Hold(r, [step |-> "write", job |-> q.job, pr |-> q.pr, repo |-> q.repo,
                  thread |-> q.thread, old |-> q.old,
                  snapshot |-> remote[<<q.repo, q.pr>>]])
  /\ UNCHANGED <<project, github, board, used>>

FailToAnswer(r) ==
  /\ inflight[r].step = "ask"
  /\ used.faults < MaxFaults
  /\ Spend("faults")
  /\ Hold(r, Idle)
  /\ UNCHANGED <<project, github, board>>

-----------------------------------------------------------------------------
(* GitHub, the clock, and the settings of the project. *)

\* A pull request is merged, closed or reopened; the app is told.
Change(q, s) ==
  /\ used.changes < MaxChanges
  /\ <<remote[q], s>> \in
       {<<"open", "merged">>, <<"open", "closed">>, <<"closed", "open">>}
  /\ remote' = [remote EXCEPT ![q] = s]
  /\ deliveries' = deliveries \cup {q}
  /\ Spend("changes")
  /\ UNCHANGED <<project, board, inflight>>

Lose(q) ==
  /\ q \in deliveries
  /\ deliveries' = deliveries \ {q}
  /\ UNCHANGED <<project, remote, board, inflight, used>>

Age(p) ==
  /\ rows[p] # None /\ rows[p].fresh
  /\ rows' = [rows EXCEPT ![p].fresh = FALSE]
  /\ UNCHANGED <<project, github, told, inflight, used>>

\* connectInstallation: the app is installed on one repository.
connectInstallation(n) ==
  /\ used.settings < MaxSettings
  /\ installed' = TRUE /\ repo' = n
  /\ Spend("settings")
  /\ UNCHANGED <<github, board, inflight>>

\* updateProject: another repository, or none; the rows are left as they are.
updateProject(n) ==
  /\ used.settings < MaxSettings
  /\ repo' = n
  /\ Spend("settings")
  /\ UNCHANGED <<installed, github, board, inflight>>

Next ==
  \/ \E r \in Handler :
       \/ \E t \in Thread, p \in Pr : ReadLink(r, t, p)
       \/ InsertLink(r)
       \/ \E q \in Repo \X Pr : ReceiveWebhook(r, q)
       \/ \E p \in Pr : Refresh(r, p) \/ SyncAll(r, p)
       \/ WriteSync(r)
       \/ Answer(r)
       \/ FailToAnswer(r)
  \/ \E q \in Repo \X Pr :
       \/ \E s \in PullRequestState : Change(q, s)
       \/ Lose(q)
  \/ \E p \in Pr : Age(p)
  \/ \E n \in Repo : connectInstallation(n)
  \/ \E n \in Repo \cup {None} : updateProject(n)

Spec == Init /\ [][Next]_vars

\* A request that was begun is answered; five minutes pass; the inbox is opened
\* again and again.  Nothing else is fair: webhooks may all be lost.
Fairness ==
  /\ \A r \in Handler : WF_vars(InsertLink(r)) /\ WF_vars(WriteSync(r)) /\ WF_vars(Answer(r))
  /\ \A p \in Pr : WF_vars(Age(p)) /\ SF_vars(\E r \in Handler : Refresh(r, p))

FairSpec == Spec /\ Fairness

-----------------------------------------------------------------------------
(* Properties *)

\* Types: a row has its columns and a request what it has read.
TypeOK ==
  /\ installed \in BOOLEAN /\ repo \in Repo \cup {None}
  /\ remote \in [Repo \X Pr -> PullRequestState]
  /\ deliveries \subseteq Repo \X Pr
  /\ rows \in [Pr -> Row \cup {None}]
  /\ told \in [Pr -> PullRequestState \cup {None}]
  /\ inflight \in [Handler -> Requests]
  /\ used \in [changes : Nat, settings : Nat, faults : Nat]

Shows(p, row) == repo # row.of \/ row.state = remote[<<row.of, p>>]

\* Whatever webhooks are lost and whatever late answers overwrite, a row comes to
\* show the state of its pull request, while the project is connected to its
\* repository (refreshStalePullRequests).
ShownInTheEnd ==
  \A p \in Pr :
    (rows[p] # None) ~>
      (~Connected \/ \E row \in {rows[p]} \ {None} : Shows(p, row))

\* What docs/design/17-dashboard-activity.md says: the events tell each change
\* of a pull request's state as it happened.
EventsTellState ==
  \A p \in Pr : rows[p] # None => told[p] = rows[p].state

\* What docs/superpowers/specs/2026-08-16-m5-github-ops-design.md says: a row
\* follows the pull request of its own repository.
RowsKeepTheirRepo ==
  \A p \in Pr : rows[p] # None => rows[p].from = rows[p].of
=============================================================================
