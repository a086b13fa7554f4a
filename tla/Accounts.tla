----------------------------- MODULE Accounts -----------------------------
(***************************************************************************)
(* Accounts, projects, memberships and the feed that tells of them: the    *)
(* login over GitHub, the requests by which people change who belongs to   *)
(* what, at the statements their handlers await between, and the config    *)
(* file the owner's command line reads and writes.  What is done inside a  *)
(* thread or a day is one step here: other modules have its parts.  Events *)
(* of no project (participant_registered, github_owner_bound,              *)
(* agent_archived) are left out: no feed selects them.                     *)
(***************************************************************************)
EXTENDS ActivityFeed

CONSTANTS
  Identity,     \* users of GitHub
  Shell,        \* the one at the machine with the config file
  Attempt,      \* numbers of the logins under way at once
  Handler,      \* numbers of the requests under way at once
  Roles,        \* agents are registered with a role
  FirstAlone,   \* no login overlaps the one that may bind the first account
  Deeds,        \* what people and agents do in threads and days
  MaxProjects,
  Budgets       \* how often what is bounded may happen, in each family of behaviours

Counters ==
  {"acts", "agents", "uses", "byName", "wants", "outs", "tabs", "internal", "faults",
   "open", "deeds"}

ASSUME AccountsAssumption ==
  /\ Shell \in Identity /\ None \notin Identity
  /\ Deeds \subseteq {"claim", "release", "complete", "goals", "interrupt"}
  /\ Attempt \subseteq Nat /\ Handler \subseteq Nat
  /\ Roles \in BOOLEAN /\ FirstAlone \in BOOLEAN
  /\ MaxProjects \in Nat /\ Budgets \subseteq [Counters -> Nat]

VARIABLES
  participants,  \* the table; an id is an index
  projects,      \* their owners; an id is an index
  members,       \* project_memberships, unique on both columns
  invites,       \* projects with an invitation: none is revoked or used up
  revoked,       \* agents whose credential is revoked
  events,        \* the table `events`
  acts,          \* who asked for what, where, and what came of it (history)
  login,         \* the logins under way
  session,       \* the account a person's browser has a token of, 0 without
  waiting,       \* clients whose person wants in
  config,        \* the config file: the account of ownerToken, projectId, agents
  req,           \* the requests under way
  left           \* what is left of the budget

vars == <<participants, projects, members, invites, revoked, events, acts,
          login, session, waiting, config, req, left>>
board == <<participants, projects, members, invites, revoked, events>>
people == <<login, session, waiting>>

Idle == [at |-> "idle"]
FirstIdle(slots, s) == slots[s] = Idle /\ \A r \in DOMAIN slots : r < s => slots[r] # Idle
Spend(c) == left[c] > 0 /\ left' = [left EXCEPT ![c] = @ - 1]

Person(kind, owner) == [kind |-> kind, owner |-> owner, github |-> None, archived |-> FALSE]

(***************************************************************************)
(* bootstrapBoard and the init command: the owner has a token in the       *)
(* config file, and no GitHub user yet.                                    *)
(***************************************************************************)
BootstrapBoard ==
  /\ participants = <<Person("human", 0), Person("system", 0)>>
  /\ projects = <<1>>
  /\ members = {<<1, 1>>}
  /\ events = << Event(1, "project_membership_added", 1, 1, "project_created", None, 0),
                 Event(1, "project_created", 1, None, None, None, 0) >>

InitCommand == config = [owner |-> 1, project |-> 1, agents |-> {}]

Init ==
  /\ BootstrapBoard /\ InitCommand
  /\ invites = {} /\ revoked = {} /\ acts = <<>>
  /\ login = [a \in Attempt |-> Idle]
  /\ session = [g \in Identity |-> 0]
  /\ waiting = {}
  /\ req = [h \in Handler |-> Idle]
  /\ left \in Budgets

(***************************************************************************)
(* Reading the tables.                                                     *)
(***************************************************************************)
Humans == {i \in DOMAIN participants : participants[i].kind = "human"}
Agents == {i \in DOMAIN participants : participants[i].kind = "agent"}

\* mutated forms of the two that follow: an account is not found, or taken from another
NeverFound(g) == {}
UnboundOrNot == {i \in Humans : Humans = {i}}

FindHumanByGithubUserId(g) == {i \in Humans : participants[i].github = g}
FindUnboundSingleHuman == {i \in Humans : Humans = {i} /\ participants[i].github = None}
AccountOf(g) == FindHumanByGithubUserId(g)

IsProjectMember(p, i) == <<p, i>> \in members
Memberships(i) == {p \in DOMAIN projects : IsProjectMember(p, i)}
ResolveUniqueMembershipProjectId(i) == {p \in Memberships(i) : Memberships(i) = {p}}

\* a header, a body or the config names the project, or it is the only one
ResolveHumanProjectId(i, named) ==
  {p \in (IF named # 0 THEN {named} ELSE ResolveUniqueMembershipProjectId(i)) :
     IsProjectMember(p, i)}

\* the argument of the tool, the day's focus, or the only project
ResolveAgentToolProjectId(i, named, focus) ==
  {p \in (IF named # 0 THEN {named} ELSE IF focus # 0 THEN {focus}
          ELSE ResolveUniqueMembershipProjectId(i)) : IsProjectMember(p, i)}

RequireAuth(i) ==
  participants[i].kind = "agent" => i \notin revoked /\ ~participants[i].archived

\* the project a person's request is about: its path or header names it, or it is the only one
RequireProjectMember(i) ==
  UNION {ResolveHumanProjectId(i, named) : named \in 0 .. Len(projects)}

ListOwnedAgents(i) == {a \in Agents : participants[a].owner = i /\ ~participants[a].archived}
IsProjectOwner(i, p) == projects[p] = i

\* buildMeResponse for a person, and where the client goes with it
Me(i) == [id |-> i, projects |-> Memberships(i),
          projectId |-> IF Cardinality(Memberships(i)) = 1
                        THEN CHOOSE p \in Memberships(i) : TRUE ELSE 0]

(***************************************************************************)
(* Logging in over GitHub.  A client is the browser of a person, or the    *)
(* command line; a login runs from its row of github_oauth_states to the   *)
(* token that reaches the client.                                          *)
(***************************************************************************)
Client == [who : Identity, by : {"web"}] \cup {[who |-> Shell, by |-> "cli"]}

SignedIn(c) ==
  (IF c.by = "web" THEN session[c.who] ELSE config.owner) \in AccountOf(c.who)

WantIn(c) ==
  /\ c \notin waiting
  /\ IF c.by = "web" THEN session[c.who] = 0 ELSE ~SignedIn(c)
  /\ waiting' = waiting \cup {c}
  /\ Spend("wants")
  /\ UNCHANGED <<board, acts, login, session, config, req>>

StartLogin(a, c) ==
  /\ c \in waiting /\ FirstIdle(login, a)
  /\ Cardinality({b \in Attempt : login[b] # Idle}) < left["tabs"]
  /\ login' = [login EXCEPT ![a] =
       [at |-> "github", client |-> c, human |-> 0, fresh |-> TRUE, listens |-> TRUE]]
  /\ UNCHANGED <<board, acts, session, waiting, config, req, left>>

At(a, step) == login[a].at = step
Move(a, step, human) == login' = [login EXCEPT ![a].at = step, ![a].human = human]
Drop(a) == login' = [login EXCEPT ![a] = Idle]

\* the state of the login is good for ten minutes, and for one callback
Callback(a) ==
  /\ At(a, "github")
  /\ IF login[a].fresh THEN Move(a, "identify", 0) ELSE Drop(a)
  /\ UNCHANGED <<board, acts, session, waiting, config, req, left>>

MayBindFirst(a) == a \in {b \in Attempt : login[b].at \in {"choose", "bind"}}

Identify(a) ==
  LET found == FindHumanByGithubUserId(login[a].client.who) IN
  /\ At(a, "identify")
  /\ FirstAlone /\ FindUnboundSingleHuman # {} => \A b \in Attempt : ~MayBindFirst(b)
  /\ IF found = {} THEN Move(a, "choose", 0)
     ELSE \E i \in found : Move(a, "issue", i)
  /\ UNCHANGED <<board, acts, session, waiting, config, req, left>>

Choose(a) ==
  /\ At(a, "choose")
  /\ IF FindUnboundSingleHuman = {} THEN Move(a, "register", 0)
     ELSE \E i \in FindUnboundSingleHuman : Move(a, "bind", i)
  /\ UNCHANGED <<board, acts, session, waiting, config, req, left>>

\* the github user of a participant is unique: a second row is an error
NameAccount(a, i) ==
  IF AccountOf(login[a].client.who) \ {i} = {}
  THEN /\ participants' = [participants EXCEPT ![i].github = login[a].client.who]
       /\ Move(a, "issue", i)
  ELSE UNCHANGED participants /\ Drop(a)

BindGithubIdentity(a) ==
  LET i == login[a].human IN
  /\ At(a, "bind")
  /\ NameAccount(a, i)
  /\ UNCHANGED <<projects, members, invites, revoked, events, acts, session, waiting,
                 config, req, left>>

\* registerHuman inserts the participant and gives it its GitHub user next
RegisterParticipant(person) == participants' = Append(participants, person)

RegisterHuman(a) ==
  /\ At(a, "register")
  /\ RegisterParticipant(Person("human", 0))
  /\ Move(a, "name", Len(participants) + 1)
  /\ UNCHANGED <<projects, members, invites, revoked, events, acts, session, waiting,
                 config, req, left>>

NameHuman(a) ==
  /\ At(a, "name")
  /\ NameAccount(a, login[a].human)
  /\ UNCHANGED <<projects, members, invites, revoked, events, acts, session, waiting,
                 config, req, left>>

IssueIdentityToken(a) ==
  /\ At(a, "issue")
  /\ Move(a, "land", login[a].human)
  /\ UNCHANGED <<board, acts, session, waiting, config, req, left>>

\* LoginCallbackPage keeps the token and asks who it is
LandInBrowser(a) ==
  /\ At(a, "land") /\ login[a].client.by = "web"
  /\ RequireAuth(login[a].human)
  /\ session' = [session EXCEPT ![login[a].client.who] = login[a].human]
  /\ waiting' = waiting \ {login[a].client}
  /\ Drop(a)
  /\ UNCHANGED <<board, acts, config, req, left>>

\* loginCommand reads the config after /v1/me answered and writes it back
LandInShell(a) ==
  LET me == Me(login[a].human) IN
  /\ At(a, "land") /\ login[a].client.by = "cli"
  /\ Drop(a)
  /\ IF login[a].listens
     THEN /\ config' = [config EXCEPT !.owner = me.id,
                          !.project = IF me.projectId # 0 THEN me.projectId ELSE @]
          /\ waiting' = waiting \ {login[a].client}
     ELSE UNCHANGED <<config, waiting>>
  /\ UNCHANGED <<board, acts, session, req, left>>

LogOut(g) ==
  /\ session[g] # 0
  /\ session' = [session EXCEPT ![g] = 0]
  /\ Spend("outs")
  /\ UNCHANGED <<board, acts, login, waiting, config, req>>

\* POST /v1/register: a person of a board without GitHub
RegisterByName ==
  /\ RegisterParticipant(Person("human", 0))
  /\ Spend("byName")
  /\ UNCHANGED <<projects, members, invites, revoked, events, acts, people, config, req>>

(***************************************************************************)
(* What may fail: the state of a login runs out, the command line stops    *)
(* listening after two minutes, a handler throws.                          *)
(***************************************************************************)
Fault == Spend("faults")

Age(a) ==
  /\ Fault /\ At(a, "github")
  /\ login' = [login EXCEPT ![a].fresh = FALSE]
  /\ UNCHANGED <<board, acts, session, waiting, config, req>>

StopListening(a) ==
  /\ Fault /\ login[a] # Idle /\ login[a].client.by = "cli"
  /\ login' = [login EXCEPT ![a].listens = FALSE]
  /\ UNCHANGED <<board, acts, session, waiting, config, req>>

LoginFails(a) ==
  /\ Fault /\ login[a].at \notin {"idle", "github"}
  /\ Drop(a)
  /\ UNCHANGED <<board, acts, session, waiting, config, req>>

(***************************************************************************)
(* Requests.  An asker is an account with the client its token is in; the  *)
(* pages offer what the board would accept.                                *)
(***************************************************************************)
Web(i) == [id |-> i, by |-> "web"]
Cli == [id |-> config.owner, by |-> "cli"]
SignedInHere == {session[g] : g \in Identity} \ {0}
Asker == {Web(i) : i \in SignedInHere} \cup {Cli}

Begin(h, op, at, asker, p, about) ==
  /\ FirstIdle(req, h) /\ Len(acts) < left["acts"]
  /\ Cardinality({k \in Handler : req[k] # Idle}) < left["open"]
  /\ RequireAuth(asker.id)
  /\ acts' = Append(acts, [by |-> asker.id, project |-> p, state |-> "open"])
  /\ req' = [req EXCEPT ![h] =
       [at |-> at, op |-> op, by |-> asker.id, project |-> p, about |-> about,
        act |-> Len(acts) + 1, config |-> IF asker.by = "cli" THEN config ELSE None]]

Does(h, at) == req[h].at = at
Goto(h, at) == req' = [req EXCEPT ![h].at = at] /\ UNCHANGED acts

\* the answer: the command line has its config file to write, a page is done
Answer(h, state, keeps) ==
  /\ acts' = [acts EXCEPT ![req[h].act].state = state]
  /\ req' = [req EXCEPT ![h] = IF keeps /\ @.config # None THEN [@ EXCEPT !.at = "save"] ELSE Idle]

Tell(h, p, kind, about, cause) ==
  events' = Append(events, Event(p, kind, req[h].by, about, cause, None, req[h].act))

Pages == <<people, config, left>>

\* ---- createProject, from a page or a command: no transaction around it
AskCreateProject(h, asker) ==
  /\ Len(projects) < MaxProjects
  /\ \A k \in Handler : ~Does(k, "project")
  /\ Begin(h, "createProject", "project", asker, 0, asker.id)
  /\ UNCHANGED <<board, Pages>>

CreateInProjectsPage(h) == \E i \in SignedInHere : AskCreateProject(h, Web(i))
ProjectCreateCommand(h) == AskCreateProject(h, Cli)

InsertProject(h) ==
  LET p == Len(projects) + 1 IN
  /\ Does(h, "project")
  /\ projects' = Append(projects, req[h].by)
  /\ req' = [req EXCEPT ![h].at = "look", ![h].project = p]
  /\ acts' = [acts EXCEPT ![req[h].act].project = p]
  /\ UNCHANGED <<participants, members, invites, revoked, events, Pages>>

TellCreated(h) ==
  /\ Does(h, "created")
  /\ Tell(h, req[h].project, "project_created", None, None)
  /\ Goto(h, "founding")
  /\ UNCHANGED <<participants, projects, members, invites, revoked, Pages>>

\* the artifacts given with the project are adopted, each in a thread
Founding(h) ==
  LET Consequence(kind) ==
        Event(req[h].project, kind, req[h].by, None, "project_created", None, req[h].act)
  IN
  /\ Does(h, "founding")
  /\ \/ events' = events
     \/ events' = events \o <<Consequence("thread_created"), Consequence("proposal_added")>>
  /\ Answer(h, "done", TRUE)
  /\ UNCHANGED <<participants, projects, members, invites, revoked, Pages>>

\* ---- addMembership: look, insert, tell
LookMembership(h) ==
  /\ Does(h, "look")
  /\ IF IsProjectMember(req[h].project, req[h].about)
     THEN Answer(h, "nothing", FALSE) ELSE Goto(h, "insert")
  /\ UNCHANGED <<board, Pages>>

InsertMembership(h) ==
  /\ Does(h, "insert")
  /\ IF IsProjectMember(req[h].project, req[h].about)
     THEN Answer(h, "failed", FALSE) /\ UNCHANGED members     \* the unique constraint
     ELSE Goto(h, "told") /\ members' = members \cup {<<req[h].project, req[h].about>>}
  /\ UNCHANGED <<participants, projects, invites, revoked, events, Pages>>

\* mutated form of TellMembership: the cause is not passed on
TellWithoutCause(h) ==
  /\ Does(h, "told")
  /\ Tell(h, req[h].project, "project_membership_added", req[h].about, None)
  /\ IF req[h].op = "createProject" THEN Goto(h, "created") ELSE Answer(h, "done", FALSE)
  /\ UNCHANGED <<participants, projects, members, invites, revoked, Pages>>

TellMembership(h) ==
  LET founds == req[h].op = "createProject" IN
  /\ Does(h, "told")
  /\ Tell(h, req[h].project, "project_membership_added", req[h].about,
          IF founds THEN "project_created" ELSE None)
  /\ IF founds THEN Goto(h, "created") ELSE Answer(h, "done", FALSE)
  /\ UNCHANGED <<participants, projects, members, invites, revoked, Pages>>

JoinProjectByInvite(h) ==
  /\ \E i \in SignedInHere, p \in invites : Begin(h, "join", "look", Web(i), p, i)
  /\ UNCHANGED <<board, Pages>>

AddOwnedAgentToProject(h) ==
  /\ \E a \in Asker : \E p \in Memberships(a.id), agent \in ListOwnedAgents(a.id) :
       Begin(h, "addAgent", "look", [id |-> a.id, by |-> "api"], p, agent)
  /\ UNCHANGED <<board, Pages>>

\* ---- what the page of a project offers: to edit it, to invite, to remove people
ProjectSettingsPage(i, p) ==
  LET owner == IsProjectMember(p, i) /\ IsProjectOwner(i, p) IN
  [edits   |-> owner,
   invites |-> owner,
   removes |-> {x \in Humans : owner /\ IsProjectMember(p, x) /\ x # projects[p] /\ x # i}]

RemoveHumanMember(h) ==
  /\ \E i \in SignedInHere, p \in DOMAIN projects :
       \E x \in ProjectSettingsPage(i, p).removes : Begin(h, "remove", "delete", Web(i), p, x)
  /\ UNCHANGED <<board, Pages>>

DeleteMembership(h) ==
  LET row == <<req[h].project, req[h].about>> IN
  /\ Does(h, "delete")
  /\ IF row \in members THEN Goto(h, "removed") ELSE Answer(h, "failed", FALSE)
  /\ members' = members \ {row}
  /\ UNCHANGED <<participants, projects, invites, revoked, events, Pages>>

TellRemoved(h) ==
  /\ Does(h, "removed")
  /\ Tell(h, req[h].project, "project_membership_removed", req[h].about, None)
  /\ Answer(h, "done", FALSE)
  /\ UNCHANGED <<participants, projects, members, invites, revoked, Pages>>

\* ---- updateProject and createProjectInvite: a row, then its event
UpdateProject(h, asker, p) ==
  /\ IsProjectOwner(asker.id, p)
  /\ Begin(h, "project_updated", "tell", asker, p, None)
  /\ UNCHANGED <<board, Pages>>

SaveInSettings(h) ==
  \E i \in SignedInHere, p \in DOMAIN projects :
    ProjectSettingsPage(i, p).edits /\ UpdateProject(h, Web(i), p)

ProjectSetCommand(h) ==
  \E p \in ResolveHumanProjectId(config.owner, config.project) : UpdateProject(h, Cli, p)

CreateProjectInvite(h) ==
  /\ \E i \in SignedInHere, p \in DOMAIN projects :
       /\ ProjectSettingsPage(i, p).invites
       /\ Begin(h, "project_invite_created", "tell", Web(i), p, None)
       /\ invites' = invites \cup {p}
  /\ UNCHANGED <<participants, projects, members, revoked, events, Pages>>

TellChange(h) ==
  /\ Does(h, "tell")
  /\ Tell(h, req[h].project, req[h].op, None, None)
  /\ Answer(h, "done", FALSE)
  /\ UNCHANGED <<participants, projects, members, invites, revoked, Pages>>

\* ---- agents
SettingsPage(i) == [registersIn |-> Memberships(i), deletes |-> ListOwnedAgents(i)]

AskRegisterAgent(h, asker, p) ==
  /\ Begin(h, "registerAgent", "register", asker, p, 0)
  /\ Spend("agents")
  /\ UNCHANGED <<board, people, config>>

AddInSettings(h) ==
  \E i \in SignedInHere : \E p \in SettingsPage(i).registersIn : AskRegisterAgent(h, Web(i), p)

RegisterCommand(h) ==
  \E p \in ResolveHumanProjectId(config.owner, config.project) : AskRegisterAgent(h, Cli, p)

\* one transaction, which looks at the membership again
RegisterAgent(h) ==
  LET i == Len(participants) + 1
      p == req[h].project
      Told(kind) == Event(p, kind, req[h].by, i, None, None, req[h].act)
  IN
  /\ Does(h, "register")
  /\ IF IsProjectMember(p, req[h].by)
     THEN /\ participants' = Append(participants, Person("agent", req[h].by))
          /\ members' = members \cup {<<p, i>>}
          /\ events' = events \o <<Told("project_membership_added")>>
               \o (IF Roles THEN <<Told("role_assigned")>> ELSE <<>>)
          /\ acts' = [acts EXCEPT ![req[h].act].state = "done"]
          /\ req' = [req EXCEPT ![h] = IF @.config # None
                       THEN [@ EXCEPT !.at = "save", !.about = i] ELSE Idle]
     ELSE Answer(h, "failed", FALSE) /\ UNCHANGED <<participants, members, events>>
  /\ UNCHANGED <<projects, invites, revoked, Pages>>

\* archivedAt first, the credential next; what follows is told to no project
ArchiveOwnedAgent(h) ==
  /\ \E i \in SignedInHere :
       \E agent \in SettingsPage(i).deletes :
         /\ Begin(h, "archive", "revoke", Web(i), None, agent)
         /\ participants' = [participants EXCEPT ![agent].archived = TRUE]
  /\ UNCHANGED <<projects, members, invites, revoked, events, Pages>>

RevokeAgent(h) ==
  /\ Does(h, "revoke")
  /\ revoked' = revoked \cup {req[h].about}
  /\ Answer(h, "done", FALSE)
  /\ UNCHANGED <<participants, projects, members, invites, events, Pages>>

\* an exception, or the process ends, between two statements of a handler
RequestFails(h) ==
  /\ Fault /\ req[h] # Idle
  /\ req' = [req EXCEPT ![h] = Idle]
  /\ acts' = [acts EXCEPT ![req[h].act].state = IF @ = "open" THEN "failed" ELSE @]
  /\ UNCHANGED <<board, people, config>>

(***************************************************************************)
(* The config file: register and project create write back what they read  *)
(* before the request, with their answer added.                            *)
(***************************************************************************)
SaveConfig(h) ==
  LET read == req[h].config IN
  /\ Does(h, "save")
  /\ config' = [read EXCEPT !.project = req[h].project,
                 !.agents = IF req[h].op = "registerAgent" THEN @ \cup {req[h].about} ELSE @]
  /\ req' = [req EXCEPT ![h] = Idle]
  /\ UNCHANGED <<board, acts, people, left>>

ProjectListCommand == Memberships(config.owner)

ProjectUse(p) ==
  /\ config.project # p /\ p \in ProjectListCommand
  /\ config' = [config EXCEPT !.project = p]
  /\ Spend("uses")
  /\ UNCHANGED <<board, acts, people, req>>

\* LoginPage takes the owner's token, which the token command prints
LoginWithToken ==
  /\ session[Shell] = 0 /\ [who |-> Shell, by |-> "web"] \notin waiting
  /\ session' = [session EXCEPT ![Shell] = config.owner]
  /\ UNCHANGED <<board, acts, login, waiting, config, req, left>>

(***************************************************************************)
(* What is done in threads and days, by the events it leaves, in order;    *)
(* a day is interrupted by the scheduler in the name of its agent.         *)
(***************************************************************************)
DeedEvents(deed, by, p, n) ==
  LET Of(kind, cause, reason) == Event(p, kind, by, None, cause, reason, n) IN
  CASE deed = "claim"     -> <<Of("post_added", "work_claimed", None), Of("work_claimed", None, None)>>
    [] deed = "release"   -> <<Of("work_released", None, "released")>>
    [] deed = "complete"  -> <<Of("thread_declaration", None, None), Of("state_changed", None, None),
                               Of("work_released", None, "thread_closed")>>
    [] deed = "goals"     -> <<Of("goals_set", None, None)>>
    [] deed = "interrupt" -> <<Of("session_interrupted", None, None)>>

OfAgentsOnly == {"goals", "interrupt"}

Do(by, p, deed) ==
  /\ Len(acts) < left["acts"]
  /\ events' = events \o DeedEvents(deed, by, p, Len(acts) + 1)
  /\ acts' = Append(acts, [by |-> by, project |-> p, state |-> "done"])
  /\ Spend("deeds")
  /\ UNCHANGED <<participants, projects, members, invites, revoked, people, config, req>>

PersonActs ==
  \E a \in Asker, deed \in Deeds \ OfAgentsOnly :
    \E p \in RequireProjectMember(a.id) : Do(a.id, p, deed)

AgentActs ==
  \E i \in Agents, deed \in Deeds, named, focus \in 0 .. Len(projects) :
    /\ RequireAuth(i)
    /\ \E p \in ResolveAgentToolProjectId(i, named, focus) : Do(i, p, deed)

\* events of the machinery, which the dashboard leaves out
Internal ==
  /\ \E p \in DOMAIN projects :
       events' = Append(events, Event(p, "tick_queued", None, None, None, None, 0))
  /\ Spend("internal")
  /\ UNCHANGED <<participants, projects, members, invites, revoked, acts, people, config, req>>

LoginStep(a) ==
  \/ Callback(a) \/ Identify(a) \/ Choose(a) \/ BindGithubIdentity(a)
  \/ RegisterHuman(a) \/ NameHuman(a) \/ IssueIdentityToken(a)
  \/ LandInBrowser(a) \/ LandInShell(a)

RequestStep(h) ==
  \/ InsertProject(h) \/ TellCreated(h) \/ Founding(h)
  \/ LookMembership(h) \/ InsertMembership(h) \/ TellMembership(h)
  \/ DeleteMembership(h) \/ TellRemoved(h) \/ TellChange(h)
  \/ RegisterAgent(h) \/ RevokeAgent(h) \/ SaveConfig(h)

Ask(h) ==
  \/ CreateInProjectsPage(h) \/ ProjectCreateCommand(h)
  \/ JoinProjectByInvite(h) \/ AddOwnedAgentToProject(h)
  \/ RemoveHumanMember(h) \/ SaveInSettings(h) \/ ProjectSetCommand(h)
  \/ CreateProjectInvite(h)
  \/ AddInSettings(h) \/ RegisterCommand(h) \/ ArchiveOwnedAgent(h)

Next ==
  \/ \E c \in Client : WantIn(c) \/ \E a \in Attempt : StartLogin(a, c)
  \/ \E a \in Attempt : LoginStep(a) \/ Age(a) \/ StopListening(a) \/ LoginFails(a)
  \/ \E g \in Identity : LogOut(g)
  \/ LoginWithToken
  \/ RegisterByName
  \/ \E h \in Handler : Ask(h) \/ RequestStep(h) \/ RequestFails(h)
  \/ \E p \in DOMAIN projects : ProjectUse(p)
  \/ PersonActs
  \/ AgentActs
  \/ Internal

(***************************************************************************)
(* The steps of a login end; a person who wants in tries again.  Requests  *)
(* need no fairness: no login waits for one.                               *)
(***************************************************************************)
Fairness ==
  /\ \A a \in Attempt : WF_vars(LoginStep(a))
  /\ \A c \in Client : SF_vars(\E a \in Attempt : StartLogin(a, c))

Spec == Init /\ [][Next]_vars /\ Fairness

(***************************************************************************)
(* Properties.                                                             *)
(***************************************************************************)
States == {"open", "done", "failed", "nothing"}

\* Every table, login and request has its type (schema.ts).
TypeOK ==
  /\ \A i \in DOMAIN participants :
       /\ participants[i].kind \in {"human", "agent", "system"}
       /\ participants[i].github \in Identity \cup {None}
       /\ participants[i].owner \in {0} \cup Humans
  /\ \A p \in DOMAIN projects : projects[p] \in Humans
  /\ members \subseteq ((DOMAIN projects) \X (Humans \cup Agents))
  /\ invites \subseteq DOMAIN projects /\ revoked \subseteq Agents
  /\ \A n \in DOMAIN acts : acts[n].state \in States
  /\ \A g \in Identity : session[g] \in {0} \cup Humans
  /\ waiting \subseteq Client
  /\ config.owner \in Humans /\ config.agents \subseteq Agents

\* A GitHub user that has an account keeps it: whatever logins overlap, are
\* retried or fail half way, no later login takes it to another account
\* (the callback of github-auth-routes.ts).
IdentityKeepsItsAccount ==
  [][\A g \in Identity : AccountOf(g) # {} => AccountOf(g)' = AccountOf(g)]_vars

\* The dashboard tells each thing done once: no two of its lines come from one
\* operation, and one that was done is there in the name of who did it, unless
\* the feed is full (listRecentActivity and the events its callers record).
FeedTellsActs ==
  \A p \in DOMAIN projects :
    LET lines == ActivityList(ListRecentActivity(events, p, participants, members)) IN
    /\ \A i, j \in DOMAIN lines : i # j /\ lines[i].act # 0 => lines[i].act # lines[j].act
    /\ \A n \in DOMAIN acts :
         acts[n].project = p /\ acts[n].state = "done"
           => \/ Len(lines) = Limit
              \/ \E i \in DOMAIN lines : lines[i].act = n /\ lines[i].who = acts[n].by

\* Who wants in over GitHub gets in, to an account of their own, whatever ran
\* out, failed or was closed before (startOAuthCallbackServer, the callback).
LoginSucceeds == \A c \in Client : c \in waiting ~> SignedIn(c)

\* What web/src/pages/SettingsPage.tsx:204 says: who has an account without a
\* GitHub user links it by entering over GitHub.  Not so unless he is the only
\* human of the board: the callback makes a second account for him.
LinkedByLogin == AccountOf(Shell) \subseteq {config.owner}
=============================================================================
