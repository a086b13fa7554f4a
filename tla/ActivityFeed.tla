--------------------------- MODULE ActivityFeed ---------------------------
(***************************************************************************)
(* The dashboard's recent activity: a projection of the append-only table  *)
(* `events` (board/src/domain/activity-feed.ts) and the lines the web      *)
(* client makes of it (web/src/components/ActivityList.tsx).  An event is  *)
(* a record; `act` is the operation that wrote it, which the program does  *)
(* not store and the properties need.  Wording, previews and links out of  *)
(* the site are left out: a line is who, what kind, where and about whom.  *)
(***************************************************************************)
EXTENDS Naturals, Sequences, FiniteSets, TLC

CONSTANTS
  None,    \* an absent value
  GitHub, System,  \* who a line names when no participant acted
  Limit    \* how many lines the dashboard asks for

DASHBOARD_ACTIVITY_KINDS == {
  "thread_created", "post_added", "proposal_added", "proposal_version_added",
  "objection_resolved", "thread_declaration", "work_claimed", "work_released",
  "pull_request_linked", "pull_request_synced", "agreement_superseded",
  "proposal_archived", "thread_archived", "project_created", "project_updated",
  "project_membership_added", "project_membership_removed",
  "project_invite_created", "role_assigned", "github_installation_connected",
  "github_issue_redirected", "goals_set", "session_ended", "session_interrupted"}

\* What is absent is no id, no kind of event (a cause is one) and no label.
ASSUME FeedConstants ==
  /\ Limit \in Nat
  /\ None \notin Nat /\ None \notin DASHBOARD_ACTIVITY_KINDS
  /\ None \notin [id : Nat, owner : Nat \cup {None}]

(***************************************************************************)
(* An event as recordEvent stores it: its project (None for an event of an *)
(* account), kind and actor, and of its payload the participant it names,  *)
(* the operation it is a consequence of (`cause`) and the reason of a      *)
(* release.                                                                *)
(***************************************************************************)
Event(project, kind, actor, about, cause, reason, act) ==
  [project |-> project, kind |-> kind, actor |-> actor, about |-> about,
   cause |-> cause, reason |-> reason, act |-> act]

\* The place of a position among others, the greatest first.
Place(positions, i) == Cardinality({j \in positions : j >= i})

\* The rows at the greatest of the positions, in descending order.
Newest(rows, positions) ==
  LET n == Cardinality(positions) IN
  [k \in 1 .. (IF n < Limit THEN n ELSE Limit) |->
     rows[CHOOSE i \in positions : Place(positions, i) = k]]

(***************************************************************************)
(* The rows of listRecentActivity: filtered first, then the newest.        *)
(***************************************************************************)
Telling(e, p) ==
  /\ e.project = p
  /\ e.kind \in DASHBOARD_ACTIVITY_KINDS
  /\ e.cause = None
  /\ e.kind = "work_released" => e.reason = "released"

\* mutated form: the limit is applied to the rows before they are filtered
LimitFirst(events, p) ==
  LET of == {i \in DOMAIN events : events[i].project = p}
  IN  Newest(events, {i \in of : Place(of, i) <= Limit /\ Telling(events[i], p)})

ActivityRows(events, p) == Newest(events, {i \in DOMAIN events : Telling(events[i], p)})

(***************************************************************************)
(* A participant's label: the label of an agent carries its owner.         *)
(***************************************************************************)
FormatParticipantLabel(participants, i) ==
  [id |-> i, owner |-> IF participants[i].kind = "agent" THEN participants[i].owner ELSE None]

\* the members among those an added row or a role names may be named
AllowedTargets(rows, members, p) ==
  {t \in {rows[i].about : i \in {j \in DOMAIN rows :
            rows[j].kind \in {"project_membership_added", "role_assigned"}}} :
     <<p, t>> \in members}

(***************************************************************************)
(* Where a line leads: the thread (the list of threads once it is          *)
(* archived), or the page of the project the kind belongs to.              *)
(***************************************************************************)
ThreadKinds == {
  "thread_created", "post_added", "proposal_added", "proposal_version_added",
  "objection_resolved", "thread_declaration", "work_claimed", "work_released",
  "pull_request_linked", "pull_request_synced", "agreement_superseded",
  "proposal_archived", "thread_archived", "github_issue_redirected"}

ActivityProjectHref(kind) ==
  CASE kind \in {"project_membership_added", "project_membership_removed",
                 "role_assigned", "goals_set", "session_ended",
                 "session_interrupted"} -> "participants"
    [] kind \in {"project_updated", "project_invite_created",
                 "github_installation_connected"} -> "settings"
    [] OTHER -> "dashboard"

SubjectFor(e) ==
  IF e.kind \in ThreadKinds
  THEN [type |-> "thread", href |-> IF e.kind = "thread_archived" THEN "threads" ELSE "thread"]
  ELSE [type |-> "project", href |-> ActivityProjectHref(e.kind)]

(***************************************************************************)
(* The shape of the detail, by kind, and whom it names.  A member that     *)
(* left keeps the name the removal stored; an added one loses it.          *)
(***************************************************************************)
ThreadDetail ==
     [k \in {"thread_created", "thread_archived"} |-> "thread"]
  @@ [k \in {"post_added"} |-> "post"]
  @@ [k \in {"proposal_added", "proposal_version_added", "proposal_archived"} |-> "proposal"]
  @@ [k \in {"objection_resolved"} |-> "objection"]
  @@ [k \in {"thread_declaration"} |-> "declaration"]
  @@ [k \in {"work_claimed", "work_released"} |-> "work"]
  @@ [k \in {"pull_request_linked", "pull_request_synced"} |-> "pullRequest"]
  @@ [k \in {"agreement_superseded"} |-> "agreement"]

ProjectDetail ==
     [k \in {"project_created", "project_updated"} |-> "project"]
  @@ [k \in {"project_membership_added", "project_membership_removed"} |-> "membership"]
  @@ [k \in {"project_invite_created"} |-> "invite"]
  @@ [k \in {"role_assigned"} |-> "role"]
  @@ [k \in {"github_installation_connected"} |-> "repository"]
  @@ [k \in {"github_issue_redirected"} |-> "issue"]
  @@ [k \in {"goals_set"} |-> "goals"]
  @@ [k \in {"session_ended", "session_interrupted"} |-> "session"]

ActivityDetail == ThreadDetail @@ ProjectDetail

Named(e, allowed) ==
  CASE e.kind \in {"project_membership_added", "role_assigned"} ->
         IF e.about \in allowed THEN e.about ELSE None
    [] e.kind = "project_membership_removed" -> e.about
    [] e.kind = "session_interrupted" -> e.actor
    [] OTHER -> None

ActivityItem(e, participants, allowed) ==
  [act     |-> e.act,
   kind    |-> e.kind,
   actor   |-> IF e.kind = "session_interrupted" \/ e.actor = None THEN None
               ELSE FormatParticipantLabel(participants, e.actor),
   subject |-> SubjectFor(e),
   detail  |-> [type |-> ActivityDetail[e.kind], names |-> Named(e, allowed)]]

ListRecentActivity(events, p, participants, members) ==
  LET rows == ActivityRows(events, p)
      allowed == AllowedTargets(rows, members, p)
  IN  [i \in DOMAIN rows |-> ActivityItem(rows[i], participants, allowed)]

(***************************************************************************)
(* A line of the dashboard.  Without an actor it is GitHub or the system   *)
(* that acted, except that an interrupted day is the day of its agent.     *)
(***************************************************************************)
ActorLabel(item) ==
  IF item.actor # None THEN item.actor.id
  ELSE IF item.kind \in {"pull_request_synced", "github_issue_redirected"} THEN GitHub
  ELSE System

ActivitySentence(item) ==
  [act   |-> item.act,
   who   |-> IF item.kind = "session_interrupted" THEN item.detail.names ELSE ActorLabel(item),
   kind  |-> item.kind,
   whom  |-> IF item.kind = "session_interrupted" THEN None ELSE item.detail.names,
   where |-> item.subject.href]

ActivityList(items) == [i \in DOMAIN items |-> ActivitySentence(items[i])]
=============================================================================
