--------------------------- MODULE AccountsProofs ---------------------------
(***************************************************************************)
(* What is proved about Accounts for any identities, logins, requests and  *)
(* budgets.                                                                *)
(***************************************************************************)
EXTENDS Accounts, FiniteSetTheorems, TLAPS

-----------------------------------------------------------------------------
(* The inductive invariant: types. *)

Rows ==
  [kind : {"human", "agent", "system"}, owner : Nat, github : Identity \cup {None},
   archived : BOOLEAN]

Logins ==
  [at : {"github", "identify", "choose", "bind", "register", "name", "issue", "land"},
   client : Client, human : Nat, fresh : BOOLEAN, listens : BOOLEAN]

Configs == [owner : Nat, project : Nat \cup {None}, agents : SUBSET Nat]

Untold ==
  {"project", "look", "insert", "told", "created", "delete", "removed", "tell",
   "register", "revoke"}

Operations ==
  {"createProject", "join", "addAgent", "remove", "project_updated",
   "project_invite_created", "registerAgent", "archive"}

Requests ==
  [at : Untold \cup {"founding", "save"}, op : Operations, by : Nat,
   project : Nat \cup {None}, about : Nat \cup {None}, act : Nat,
   config : Configs \cup {None}]

Operation == [by : Nat, project : Nat \cup {None}, state : States]

Kinds == DASHBOARD_ACTIVITY_KINDS \cup {"state_changed", "tick_queued"}
Reasons == {"released", "thread_closed", None}

Events ==
  [project : Nat \cup {None}, kind : Kinds, actor : Nat \cup {None},
   about : Nat \cup {None}, cause : DASHBOARD_ACTIVITY_KINDS \cup {None},
   reason : Reasons, act : Nat]

\* The table of participants; its first row is the owner's.
PeopleInv ==
  /\ participants \in Seq(Rows)
  /\ 1 \in Humans
  /\ \A i \in DOMAIN participants : participants[i].owner \in {0} \cup Humans

\* A login has whom it will bind, name or let in.
LoginInv ==
  /\ login \in [Attempt -> {Idle} \cup Logins]
  /\ \A a \in Attempt :
       login[a].at \in {"bind", "name", "issue", "land"} => login[a].human \in Humans
  /\ session \in [Identity -> {0} \cup Humans]
  /\ waiting \subseteq Client

ConfigOK(c) == c \in Configs /\ c.owner \in Humans /\ c.agents \subseteq Agents

BoardInv ==
  /\ projects \in Seq(Nat)
  /\ \A p \in DOMAIN projects : projects[p] \in Humans
  /\ members \subseteq ((DOMAIN projects) \X (Humans \cup Agents))
  /\ invites \subseteq DOMAIN projects /\ revoked \subseteq Agents

\* What a request has looked up.
Looked(r) ==
  /\ r.by \in Humans
  /\ r.at = "project" => r.op = "createProject" /\ r.about = r.by
  /\ r.at \in {"look", "insert", "told", "register"} => r.project \in DOMAIN projects
  /\ r.at \in {"look", "insert", "told"} => r.about \in Humans \cup Agents
  /\ r.at = "revoke" \/ (r.at = "save" /\ r.op = "registerAgent") => r.about \in Agents
  /\ r.at = "save" => r.config # None
  /\ r.at = "register" => r.op = "registerAgent"
  /\ r.at \in {"created", "founding"} => r.op = "createProject"
  /\ r.at = "tell" => r.op \in {"project_updated", "project_invite_created"}
  /\ r.at = "revoke" => r.project = None
  /\ r.config # None => ConfigOK(r.config)

ReqInv ==
  /\ req = [h \in Handler |-> req[h]]
  /\ \A h \in Handler : req[h] = Idle \/ (req[h] \in Requests /\ Looked(req[h]))

TypeInv ==
  PeopleInv /\ LoginInv /\ ConfigOK(config) /\ BoardInv /\ ReqInv /\ acts \in Seq(Operation)

(* What keeps an account with its identity. *)

\* Who may still be given an identity has none; the account that is bound is the
\* first one, and no two logins have the same in hand.
Nameless(a) ==
  /\ login[a].at = "bind" => login[a].human = 1
  /\ login[a].at = "name" => login[a].human # 1
  /\ login[a].at \in {"bind", "name"} => participants[login[a].human].github = None

Apart ==
  \A a, b \in Attempt :
    \/ login[a].at \in {"bind", "name"} /\ login[b].at = login[a].at
         /\ login[a].human = login[b].human
    \/ FindUnboundSingleHuman # {} /\ MayBindFirst(a) /\ MayBindFirst(b)
    => a = b

NameInv == (\A a \in Attempt : Nameless(a)) /\ Apart

(* What the feed tells. *)

\* An event that the feed of its project tells.
Loud(e) == Telling(e, e.project)
Tells(x) == Loud(events[x])

Silent(n) == \A x \in DOMAIN events : Tells(x) => events[x].act # n

\* Some event of the operation n tells of it, in the name of who asked for it.
Told(n) ==
  \E x \in DOMAIN events :
    /\ Tells(x) /\ events[x].act = n
    /\ events[x].actor = acts[n].by /\ events[x].project = acts[n].project

LinkInv ==
  /\ \A h \in Handler : req[h] # Idle =>
       /\ req[h].act \in DOMAIN acts
       /\ acts[req[h].act].by = req[h].by /\ acts[req[h].act].project = req[h].project
       /\ acts[req[h].act].state = IF req[h].at = "save" THEN "done" ELSE "open"
  /\ \A h, k \in Handler : req[h] # Idle /\ req[k] # Idle /\ req[h].act = req[k].act => h = k

\* No operation is told twice.
EventsInv ==
  /\ events \in Seq(Events)
  /\ \A x \in DOMAIN events : events[x].act \in 0 .. Len(acts)
  /\ \A x, y \in DOMAIN events :
       Tells(x) /\ Tells(y) /\ events[x].act = events[y].act /\ events[x].act # 0 => x = y

\* What is done is told, and what a request has still to tell is not told yet.
ToldInv ==
  /\ \A h \in Handler :
       /\ req[h].at \in Untold => Silent(req[h].act)
       /\ req[h].at = "founding" => Told(req[h].act)
  /\ \A n \in DOMAIN acts :
       acts[n].state = "done" /\ acts[n].project # None => Told(n)

FeedInv == EventsInv /\ ToldInv

-----------------------------------------------------------------------------
(* Lemmas: what is in the tables stays there. *)

\* Nobody stops being a person or an agent, and no project goes away.
Grown == Humans \subseteq Humans' /\ Agents \subseteq Agents' /\ DOMAIN projects \subseteq DOMAIN projects'

LEMMA PersonType ==
  \A kind \in {"human", "agent", "system"}, owner \in Nat :
    /\ Person(kind, owner) \in Rows
    /\ Person(kind, owner).kind = kind /\ Person(kind, owner).owner = owner
    /\ Person(kind, owner).github = None
  BY DEF Person, Rows

LEMMA Enrolled ==
  ASSUME PeopleInv, NEW row \in Rows, row.owner \in {0} \cup Humans,
         participants' = Append(participants, row)
  PROVE  /\ PeopleInv' /\ Humans \subseteq Humans' /\ Agents \subseteq Agents'
         /\ Len(participants) + 1 \in DOMAIN participants'
         /\ participants'[Len(participants) + 1] = row
         /\ \A i \in DOMAIN participants :
              i \in DOMAIN participants' /\ participants'[i] = participants[i]
         /\ DOMAIN participants' = DOMAIN participants \cup {Len(participants) + 1}
         /\ Len(participants) + 1 \notin DOMAIN participants
<1>1. participants \in Seq(Rows) /\ Len(participants) \in Nat
  BY DEF PeopleInv
<1>2. /\ DOMAIN participants = 1 .. Len(participants)
      /\ DOMAIN participants' = 1 .. Len(participants) + 1
      /\ participants'[Len(participants) + 1] = row
      /\ \A i \in DOMAIN participants : participants'[i] = participants[i]
      /\ participants' \in Seq(Rows)
  BY <1>1
<1>3. Humans \subseteq Humans' /\ Agents \subseteq Agents'
  BY <1>1, <1>2 DEF Humans, Agents
<1>4. \A i \in DOMAIN participants' : participants'[i].owner \in {0} \cup Humans'
  <2> SUFFICES ASSUME NEW i \in DOMAIN participants'
               PROVE  participants'[i].owner \in {0} \cup Humans'
    OBVIOUS
  <2>1. CASE i \in DOMAIN participants
    BY <1>2, <1>3, <2>1 DEF PeopleInv
  <2>2. CASE i = Len(participants) + 1
    BY <1>2, <1>3, <2>2
  <2>3. QED
    BY <1>1, <1>2, <2>1, <2>2
<1>5. QED
  BY <1>1, <1>2, <1>3, <1>4 DEF PeopleInv

LEMMA Changed ==
  ASSUME PeopleInv, NEW i \in DOMAIN participants, NEW row \in Rows,
         row.kind = participants[i].kind, row.owner = participants[i].owner,
         participants' = [participants EXCEPT ![i] = row]
  PROVE  /\ PeopleInv' /\ Humans' = Humans /\ Agents' = Agents
         /\ DOMAIN participants' = DOMAIN participants
<1>1. participants \in Seq(Rows) /\ participants' \in Seq(Rows)
  BY DEF PeopleInv
<1>2. /\ DOMAIN participants' = DOMAIN participants
      /\ \A j \in DOMAIN participants :
           participants'[j].kind = participants[j].kind /\ participants'[j].owner = participants[j].owner
  BY <1>1
<1>3. Humans' = Humans /\ Agents' = Agents
  BY <1>2 DEF Humans, Agents
<1>4. QED
  BY <1>1, <1>2, <1>3 DEF PeopleInv

\* What was right of a table, of the config file and of a request remains so.
LEMMA BoardGrows ==
  ASSUME BoardInv, Grown, UNCHANGED <<projects, members, invites, revoked>>
  PROVE  BoardInv'
  BY DEF BoardInv, Grown

LEMMA ConfigGrows == ASSUME Grown, NEW c, ConfigOK(c) PROVE ConfigOK(c)'
  BY DEF ConfigOK, Grown

LEMMA LookedGrows == ASSUME Grown, NEW r, Looked(r) PROVE Looked(r)'
  BY ConfigGrows DEF Looked, Grown

LEMMA ReqGrows == ASSUME Grown, ReqInv, UNCHANGED req PROVE ReqInv'
  BY LookedGrows DEF ReqInv

LEMMA LoginGrows == ASSUME LoginInv, Grown, UNCHANGED people PROVE LoginInv'
  BY DEF LoginInv, Grown, people

LEMMA Numbers == ASSUME PeopleInv PROVE Humans \subseteq Nat \ {0} /\ Agents \subseteq Nat \ {0}
  BY DEF PeopleInv, Humans, Agents

\* A step that leaves the tables alone.
LEMMA BoardStays ==
  ASSUME TypeInv, UNCHANGED board
  PROVE  /\ PeopleInv' /\ BoardInv' /\ Grown /\ Humans' = Humans /\ Agents' = Agents
         /\ DOMAIN projects' = DOMAIN projects /\ members' = members
  BY DEF TypeInv, PeopleInv, BoardInv, Grown, board, Humans, Agents

\* A step of a login and its end.
LEMMA Landing ==
  ASSUME LoginInv, NEW a \in Attempt
  PROVE  login[a] # Idle <=> login[a] \in Logins
<1>1. Idle.at = "idle" /\ \A l \in Logins : l.at # "idle"
  BY DEF Idle, Logins
<1>2. login[a] = Idle \/ login[a] \in Logins
  BY DEF LoginInv
<1>3. QED
  BY <1>1, <1>2

LEMMA LoginSet ==
  ASSUME LoginInv, Grown, UNCHANGED <<session, waiting>>,
         NEW a \in Attempt, NEW l \in {Idle} \cup Logins,
         l.at \in {"bind", "name", "issue", "land"} => l.human \in Humans',
         login' = [login EXCEPT ![a] = l]
  PROVE  LoginInv'
<1>1. login' \in [Attempt -> {Idle} \cup Logins]
  BY DEF LoginInv
<1>2. \A b \in Attempt : login'[b] = IF b = a THEN l ELSE login[b]
  BY DEF LoginInv
<1>3. QED
  BY <1>1, <1>2 DEF LoginInv, Grown

LEMMA LoginMoves ==
  ASSUME LoginInv, Grown, UNCHANGED <<session, waiting>>,
         NEW a \in Attempt, login[a] # Idle,
         NEW step \in {"identify", "choose", "bind", "register", "name", "issue", "land"},
         NEW human \in Nat,
         step \in {"bind", "name", "issue", "land"} => human \in Humans',
         Move(a, step, human)
  PROVE  LoginInv'
<1>1. login[a] \in Logins
  BY Landing
<1>2. PICK l : l = [login[a] EXCEPT !.at = step, !.human = human]
  OBVIOUS
<1>3. l \in Logins /\ l.at = step /\ l.human = human
  BY <1>1, <1>2 DEF Logins
<1>4. login' = [login EXCEPT ![a] = l]
  BY <1>2 DEF Move
<1>5. QED
  BY <1>3, <1>4, LoginSet

LEMMA LoginDrops ==
  ASSUME LoginInv, Grown, NEW a \in Attempt, Drop(a)
  PROVE  /\ login' \in [Attempt -> {Idle} \cup Logins]
         /\ \A b \in Attempt :
              login'[b].at \in {"bind", "name", "issue", "land"} => login'[b].human \in Humans'
<1>1. login' = [login EXCEPT ![a] = Idle] /\ login \in [Attempt -> {Idle} \cup Logins]
  BY DEF Drop, LoginInv
<1>2. login' \in [Attempt -> {Idle} \cup Logins]
  BY <1>1
<1>3. \A b \in Attempt : login'[b] = IF b = a THEN Idle ELSE login[b]
  BY <1>1
<1>4. Idle.at = "idle"
  BY DEF Idle
<1>5. QED
  BY <1>2, <1>3, <1>4 DEF LoginInv, Grown

\* A step of a request and its end.
LEMMA Asked ==
  ASSUME ReqInv, NEW h \in Handler, req[h] # Idle \/ req[h].at # "idle"
  PROVE  req[h] \in Requests /\ Looked(req[h]) /\ req[h] # Idle
<1>1. \A r \in Requests : r.at # "idle"
  BY DEF Requests, Untold
<1>2. QED
  BY <1>1 DEF ReqInv, Idle

LEMMA ReqSet ==
  ASSUME ReqInv, Grown, NEW h \in Handler, NEW r, r = Idle \/ (r \in Requests /\ Looked(r)'),
         req' = [req EXCEPT ![h] = r]
  PROVE  ReqInv'
<1>1. /\ req' = [k \in Handler |-> req'[k]]
      /\ \A k \in Handler : req'[k] = IF k = h THEN r ELSE req[k]
  BY DEF ReqInv
<1>2. (\A k \in Handler : req[k] = Idle \/ (req[k] \in Requests /\ Looked(req[k])))'
  <2> SUFFICES ASSUME NEW k \in Handler
               PROVE  (req[k] = Idle \/ (req[k] \in Requests /\ Looked(req[k])))'
    OBVIOUS
  <2>1. CASE k = h
    <3>1. req'[k] = r
      BY <1>1, <2>1
    <3>2. QED
      BY <3>1 DEF Looked, ConfigOK
  <2>2. CASE k # h
    <3> PICK q : q = req[k]
      OBVIOUS
    <3>1. req'[k] = q /\ (q = Idle \/ (q \in Requests /\ Looked(q)))
      BY <1>1, <2>2 DEF ReqInv
    <3>2. Looked(q) => Looked(q)'
      BY LookedGrows
    <3>3. QED
      BY <3>1, <3>2 DEF Looked, ConfigOK
  <2>3. QED
    BY <2>1, <2>2
<1>3. QED
  BY <1>1, <1>2 DEF ReqInv

\* What a request starts with.
Startable(op, at, by, p, about) ==
  /\ op \in Operations /\ at \in {"project", "look", "delete", "tell", "register", "revoke"}
  /\ by \in Humans /\ by \in Nat /\ p \in Nat \cup {None} /\ about \in Nat \cup {None}
  /\ at = "project" => op = "createProject" /\ about = by
  /\ at \in {"look", "register"} => p \in DOMAIN projects
  /\ at = "look" => about \in Humans \cup Agents
  /\ at = "revoke" => about \in Agents /\ p = None
  /\ at = "register" => op = "registerAgent"
  /\ at = "tell" => op \in {"project_updated", "project_invite_created"}

LEMMA Begins ==
  ASSUME ReqInv, ConfigOK(config), acts \in Seq(Operation), Grown, NEW h \in Handler,
         NEW op, NEW at, NEW asker, NEW p, NEW about,
         Startable(op, at, asker.id, p, about), Begin(h, op, at, asker, p, about)
  PROVE  ReqInv' /\ acts' \in Seq(Operation)
<1>1. acts' \in Seq(Operation) /\ Len(acts) + 1 \in Nat
  <2>1. [by |-> asker.id, project |-> p, state |-> "open"] \in Operation
    BY DEF Operation, States, Startable
  <2>2. QED
    BY <2>1 DEF Begin
<1>2. PICK c : c = IF asker.by = "cli" THEN config ELSE None
  OBVIOUS
<1>3. PICK n : n = Len(acts) + 1
  OBVIOUS
<1>4. PICK r : r = [at |-> at, op |-> op, by |-> asker.id, project |-> p, about |-> about,
                    act |-> n, config |-> c]
  OBVIOUS
<1>5. (c = None \/ ConfigOK(c)) /\ (c \in Configs \cup {None}) /\ n \in Nat
  BY <1>1, <1>2, <1>3 DEF ConfigOK
<1>6. r \in Requests
  BY <1>4, <1>5 DEF Requests, Untold, Startable
<1>7. Looked(r)
  BY <1>4, <1>5 DEF Looked, Startable
<1>8. Looked(r)'
  BY <1>7, LookedGrows
<1>9. req' = [req EXCEPT ![h] = r]
  BY <1>2, <1>3, <1>4 DEF Begin
<1>10. QED
  BY <1>1, <1>6, <1>8, <1>9, ReqSet

LEMMA Goes ==
  ASSUME ReqInv, acts \in Seq(Operation), Grown, NEW h \in Handler, req[h] # Idle,
         NEW at \in {"insert", "told", "created", "founding", "removed"},
         at \in {"insert", "told"} =>
           req[h].project \in DOMAIN projects /\ req[h].about \in Humans \cup Agents,
         at \in {"created", "founding"} => req[h].op = "createProject",
         Goto(h, at)
  PROVE  ReqInv' /\ acts' \in Seq(Operation)
<1>1. req[h] \in Requests /\ Looked(req[h])
  BY Asked
<1>2. PICK r : r = [req[h] EXCEPT !.at = at]
  OBVIOUS
<1>3. r \in Requests
  BY <1>1, <1>2 DEF Requests, Untold
<1>4. /\ r.at = at /\ r.op = req[h].op /\ r.by = req[h].by /\ r.project = req[h].project
      /\ r.about = req[h].about /\ r.config = req[h].config
  BY <1>1, <1>2 DEF Requests
<1>5. Looked(r)
  BY <1>1, <1>4 DEF Looked
<1>6. Looked(r)'
  BY <1>5, LookedGrows
<1>7. req' = [req EXCEPT ![h] = r] /\ acts' = acts
  BY <1>2 DEF Goto
<1>8. QED
  BY <1>3, <1>6, <1>7, ReqSet

LEMMA ActsSet ==
  ASSUME acts \in Seq(Operation), NEW n, NEW state \in States,
         acts' = [acts EXCEPT ![n].state = state]
  PROVE  /\ acts' \in Seq(Operation) /\ Len(acts') = Len(acts)
         /\ \A k \in DOMAIN acts :
              /\ acts'[k].by = acts[k].by /\ acts'[k].project = acts[k].project
              /\ acts'[k].state = IF k = n THEN state ELSE acts[k].state
<1>1. CASE n \in DOMAIN acts
  <2>1. PICK o : o = [acts[n] EXCEPT !.state = state]
    OBVIOUS
  <2>2. acts[n] \in Operation
    BY <1>1
  <2>3. o \in Operation /\ o.by = acts[n].by /\ o.project = acts[n].project /\ o.state = state
    BY <2>1, <2>2 DEF Operation
  <2>4. acts' = [acts EXCEPT ![n] = o]
    BY <2>1
  <2>5. QED
    BY <1>1, <2>3, <2>4
<1>2. CASE n \notin DOMAIN acts
  <2>1. acts' = acts
    BY <1>2
  <2>2. QED
    BY <1>2, <2>1
<1>3. QED
  BY <1>1, <1>2

LEMMA ActsPlace ==
  ASSUME acts \in Seq(Operation), NEW n, NEW p \in Nat,
         acts' = [acts EXCEPT ![n].project = p]
  PROVE  /\ acts' \in Seq(Operation) /\ Len(acts') = Len(acts)
         /\ \A k \in DOMAIN acts :
              /\ acts'[k].by = acts[k].by /\ acts'[k].state = acts[k].state
              /\ acts'[k].project = IF k = n THEN p ELSE acts[k].project
<1>1. CASE n \in DOMAIN acts
  <2>1. PICK o : o = [acts[n] EXCEPT !.project = p]
    OBVIOUS
  <2>2. acts[n] \in Operation
    BY <1>1
  <2>3. o \in Operation /\ o.by = acts[n].by /\ o.project = p /\ o.state = acts[n].state
    BY <2>1, <2>2 DEF Operation
  <2>4. acts' = [acts EXCEPT ![n] = o]
    BY <2>1
  <2>5. QED
    BY <1>1, <2>3, <2>4
<1>2. CASE n \notin DOMAIN acts
  <2>1. acts' = acts
    BY <1>2
  <2>2. QED
    BY <1>2, <2>1
<1>3. QED
  BY <1>1, <1>2

LEMMA Answers ==
  ASSUME ReqInv, acts \in Seq(Operation), Grown, NEW h \in Handler, req[h] # Idle,
         NEW state \in States, NEW keeps \in BOOLEAN,
         keeps => req[h].op = "createProject", Answer(h, state, keeps)
  PROVE  ReqInv' /\ acts' \in Seq(Operation)
<1>1. req[h] \in Requests /\ Looked(req[h])
  BY Asked
<1>2. PICK r : r = IF keeps /\ req[h].config # None THEN [req[h] EXCEPT !.at = "save"] ELSE Idle
  OBVIOUS
<1>3. r = Idle \/ (r \in Requests /\ Looked(r)')
  <2>1. CASE keeps /\ req[h].config # None
    <3>1. r = [req[h] EXCEPT !.at = "save"]
      BY <1>2, <2>1
    <3>2. r \in Requests
      BY <1>1, <3>1 DEF Requests, Untold
    <3>3. /\ r.at = "save" /\ r.op = req[h].op /\ r.by = req[h].by /\ r.project = req[h].project
          /\ r.about = req[h].about /\ r.config = req[h].config
      BY <1>1, <3>1 DEF Requests
    <3>4. Looked(r)
      BY <1>1, <2>1, <3>3 DEF Looked
    <3>5. QED
      BY <3>2, <3>4, LookedGrows
  <2>2. QED
    BY <1>2, <2>1
<1>4. req' = [req EXCEPT ![h] = r]
  BY <1>2 DEF Answer
<1>5. acts' \in Seq(Operation)
  <2>1. PICK n : n = req[h].act
    OBVIOUS
  <2>2. acts' = [acts EXCEPT ![n].state = state]
    BY <2>1 DEF Answer
  <2>3. QED
    BY <2>2, ActsSet
<1>6. QED
  BY <1>3, <1>4, <1>5, ReqSet

-----------------------------------------------------------------------------
(* Every step preserves the types. *)

LEMMA Rest ==
  ASSUME TypeInv, UNCHANGED <<board, acts, req>>, LoginInv', ConfigOK(config)'
  PROVE  TypeInv'
<1>1. PeopleInv' /\ BoardInv' /\ Grown
  BY BoardStays
<1>2. ReqInv'
  BY <1>1, ReqGrows DEF TypeInv
<1>3. QED
  BY <1>1, <1>2 DEF TypeInv

LEMMA ConfigStays == ASSUME ConfigOK(config), Grown, UNCHANGED config PROVE ConfigOK(config)'
  BY DEF ConfigOK, Grown

LEMMA MeType ==
  ASSUME TypeInv, NEW i \in Humans
  PROVE  Me(i).id = i /\ Me(i).projectId \in Nat
<1>1. Memberships(i) \subseteq Nat
  BY DEF Memberships, TypeInv, BoardInv
<1>2. Cardinality(Memberships(i)) = 1 => Memberships(i) # {}
  BY FS_EmptySet
<1>3. QED
  BY <1>1, <1>2 DEF Me

LEMMA WaitTypes ==
  ASSUME TypeInv, NEW c \in Client, WantIn(c) \/ \E a \in Attempt : StartLogin(a, c)
  PROVE  TypeInv'
<1>1. UNCHANGED <<board, acts, req, config, session>>
  BY DEF WantIn, StartLogin
<1>2. Grown
  BY <1>1, BoardStays
<1>3. LoginInv'
  <2>1. CASE WantIn(c)
    BY <1>1, <1>2, <2>1 DEF WantIn, LoginInv, TypeInv, Grown
  <2>2. ASSUME NEW a \in Attempt, StartLogin(a, c) PROVE LoginInv'
    <3>1. PICK l : l = [at |-> "github", client |-> c, human |-> 0, fresh |-> TRUE, listens |-> TRUE]
      OBVIOUS
    <3>2. l \in Logins /\ l.at = "github"
      BY <3>1 DEF Logins
    <3>3. login' = [login EXCEPT ![a] = l] /\ UNCHANGED <<session, waiting>>
      BY <2>2, <3>1 DEF StartLogin
    <3>4. QED
      BY <1>2, <3>2, <3>3, LoginSet DEF TypeInv
  <2>3. QED
    BY <2>1, <2>2
<1>4. QED
  BY <1>1, <1>2, <1>3, ConfigStays, Rest DEF TypeInv

LEMMA LoginTypes ==
  ASSUME TypeInv, NEW a \in Attempt,
         \/ Callback(a) \/ Identify(a) \/ Choose(a) \/ IssueIdentityToken(a)
         \/ Age(a) \/ StopListening(a) \/ LoginFails(a)
  PROVE  TypeInv'
<1>1. UNCHANGED <<board, acts, req, config, session, waiting>>
  BY DEF Callback, Identify, Choose, IssueIdentityToken, Age, StopListening, LoginFails
<1>2. Grown /\ Humans' = Humans
  BY <1>1, BoardStays
<1>3. LoginInv /\ Humans \subseteq Nat \ {0}
  BY Numbers DEF TypeInv
<1>4. Idle.at = "idle"
  BY DEF Idle
<1>5. Drop(a) => LoginInv'
  BY <1>1, <1>2, <1>3, LoginDrops DEF LoginInv
<1>6. LoginInv'
  <2>1. CASE Callback(a)
    <3>1. login[a] # Idle
      BY <1>4, <2>1 DEF Callback, At
    <3>2. QED
      BY <1>1, <1>2, <1>3, <1>5, <2>1, <3>1, LoginMoves DEF Callback
  <2>2. CASE Identify(a)
    <3>1. login[a] # Idle
      BY <1>4, <2>2 DEF Identify, At
    <3>2. CASE FindHumanByGithubUserId(login[a].client.who) = {}
      BY <1>1, <1>2, <1>3, <2>2, <3>1, <3>2, LoginMoves DEF Identify
    <3>3. CASE FindHumanByGithubUserId(login[a].client.who) # {}
      <4>1. PICK i \in Humans : Move(a, "issue", i)
        BY <2>2, <3>3 DEF Identify, FindHumanByGithubUserId
      <4>2. QED
        BY <1>1, <1>2, <1>3, <3>1, <4>1, LoginMoves
    <3>4. QED
      BY <3>2, <3>3
  <2>3. CASE Choose(a)
    <3>1. login[a] # Idle
      BY <1>4, <2>3 DEF Choose, At
    <3>2. CASE FindUnboundSingleHuman = {}
      BY <1>1, <1>2, <1>3, <2>3, <3>1, <3>2, LoginMoves DEF Choose
    <3>3. CASE FindUnboundSingleHuman # {}
      <4>1. PICK i \in Humans : Move(a, "bind", i)
        BY <2>3, <3>3 DEF Choose, FindUnboundSingleHuman
      <4>2. QED
        BY <1>1, <1>2, <1>3, <3>1, <4>1, LoginMoves
    <3>4. QED
      BY <3>2, <3>3
  <2>4. CASE IssueIdentityToken(a)
    <3>1. login[a] # Idle /\ login[a].human \in Humans /\ Move(a, "land", login[a].human)
      BY <1>3, <1>4, <2>4 DEF IssueIdentityToken, At, LoginInv
    <3>2. PICK i \in Humans : i = login[a].human
      BY <3>1
    <3>3. Move(a, "land", i)
      BY <3>1, <3>2
    <3>4. QED
      BY <1>1, <1>2, <1>3, <3>1, <3>3, LoginMoves
  <2>5. CASE Age(a) \/ StopListening(a)
    <3>1. login[a] \in Logins
      BY <1>3, <1>4, <2>5, Landing DEF Age, At, StopListening
    <3>2. PICK l : /\ l \in Logins /\ l.at = login[a].at /\ l.human = login[a].human
                   /\ login' = [login EXCEPT ![a] = l]
      <4>1. CASE Age(a)
        <5>1. PICK l : l = [login[a] EXCEPT !.fresh = FALSE]
          OBVIOUS
        <5>2. l \in Logins /\ l.at = login[a].at /\ l.human = login[a].human
          BY <3>1, <5>1 DEF Logins
        <5>3. QED
          BY <4>1, <5>1, <5>2 DEF Age
      <4>2. CASE StopListening(a)
        <5>1. PICK l : l = [login[a] EXCEPT !.listens = FALSE]
          OBVIOUS
        <5>2. l \in Logins /\ l.at = login[a].at /\ l.human = login[a].human
          BY <3>1, <5>1 DEF Logins
        <5>3. QED
          BY <4>2, <5>1, <5>2 DEF StopListening
      <4>3. QED
        BY <2>5, <4>1, <4>2
    <3>3. l.at \in {"bind", "name", "issue", "land"} => l.human \in Humans'
      BY <1>2, <1>3, <3>2 DEF LoginInv
    <3>4. QED
      BY <1>1, <1>2, <1>3, <3>2, <3>3, LoginSet
  <2>6. CASE LoginFails(a)
    BY <1>5, <2>6 DEF LoginFails
  <2>7. QED
    BY <2>1, <2>2, <2>3, <2>4, <2>5, <2>6
<1>7. QED
  BY <1>1, <1>2, <1>6, ConfigStays, Rest DEF TypeInv

LEMMA LandTypes ==
  ASSUME TypeInv, NEW a \in Attempt, LandInBrowser(a) \/ LandInShell(a)
  PROVE  TypeInv'
<1>1. UNCHANGED <<board, acts, req>> /\ Drop(a) /\ login[a].at = "land"
  BY DEF LandInBrowser, LandInShell, At
<1>2. Grown /\ Humans' = Humans /\ Agents' = Agents
  BY <1>1, BoardStays
<1>3. login[a] \in Logins /\ login[a].human \in Humans /\ login[a].client \in Client
  <2>1. Idle.at = "idle"
    BY DEF Idle
  <2>2. login[a] \in Logins
    BY <1>1, <2>1, Landing DEF TypeInv
  <2>3. QED
    BY <1>1, <2>2 DEF Logins, TypeInv, LoginInv
<1>4. login[a].client.who \in Identity
  BY <1>3, AccountsAssumption DEF Client
<1>5. LoginInv'
  <2>1. session' \in [Identity -> {0} \cup Humans'] /\ waiting' \subseteq Client
    BY <1>2, <1>3, <1>4 DEF LandInBrowser, LandInShell, TypeInv, LoginInv
  <2>2. QED
    BY <1>1, <1>2, <2>1, LoginDrops DEF LoginInv, TypeInv
<1>6. ConfigOK(config)'
  <2>1. CASE UNCHANGED config
    BY <1>2, <2>1, ConfigStays DEF TypeInv
  <2>2. CASE LandInShell(a) /\ config' # config
    <3>1. PICK i, p : i = Me(login[a].human).id
              /\ p = IF Me(login[a].human).projectId # 0 THEN Me(login[a].human).projectId ELSE config.project
      OBVIOUS
    <3>2. i \in Humans /\ i \in Nat /\ p \in Nat \cup {None}
      BY <1>3, <3>1, MeType, Numbers DEF TypeInv, ConfigOK, Configs
    <3>3. config' = [config EXCEPT !.owner = i, !.project = p]
      BY <2>2, <3>1 DEF LandInShell
    <3>4. QED
      BY <1>2, <3>2, <3>3 DEF TypeInv, ConfigOK, Configs
  <2>3. QED
    BY <2>1, <2>2 DEF LandInBrowser
<1>7. QED
  BY <1>1, <1>5, <1>6, Rest

\* A step of the table of participants alone.
LEMMA TablesGrow ==
  ASSUME TypeInv, PeopleInv', Humans \subseteq Humans', Agents \subseteq Agents',
         LoginInv', UNCHANGED <<projects, members, invites, revoked, acts, req, config>>
  PROVE  TypeInv'
<1>1. Grown
  BY DEF Grown
<1>2. QED
  BY <1>1, BoardGrows, ReqGrows, ConfigStays DEF TypeInv

\* The row that NameAccount writes.
LEMMA NamedRow ==
  ASSUME TypeInv, NEW i \in DOMAIN participants, NEW g \in Identity,
         participants' = [participants EXCEPT ![i].github = g]
  PROVE  /\ PeopleInv' /\ Humans' = Humans /\ Agents' = Agents
         /\ DOMAIN participants' = DOMAIN participants
         /\ \A j \in DOMAIN participants :
              participants'[j].github = IF j = i THEN g ELSE participants[j].github
<1>1. PICK row : row = [participants[i] EXCEPT !.github = g]
  OBVIOUS
<1>2. participants \in Seq(Rows) /\ participants[i] \in Rows
  BY DEF TypeInv, PeopleInv
<1>3. /\ row \in Rows /\ row.kind = participants[i].kind /\ row.owner = participants[i].owner
      /\ row.github = g
  BY <1>1, <1>2 DEF Rows
<1>4. participants' = [participants EXCEPT ![i] = row]
  BY <1>1
<1>5. QED
  BY <1>2, <1>3, <1>4, Changed DEF TypeInv

LEMMA Client2 ==
  ASSUME TypeInv, NEW a \in Attempt, login[a].at # "idle"
  PROVE  /\ login[a] # Idle /\ login[a] \in Logins
         /\ login[a].client \in Client /\ login[a].client.who \in Identity
<1>1. login[a] # Idle
  BY DEF Idle
<1>2. login[a] \in Logins
  BY <1>1, Landing DEF TypeInv
<1>3. login[a].client \in Client
  BY <1>2 DEF Logins
<1>4. QED
  BY <1>1, <1>2, <1>3, AccountsAssumption DEF Client

LEMMA NamingTypes ==
  ASSUME TypeInv, NEW a \in Attempt, BindGithubIdentity(a) \/ NameHuman(a)
  PROVE  TypeInv'
<1>1. /\ UNCHANGED <<projects, members, invites, revoked, acts, req, config, session, waiting>>
      /\ login[a].at \in {"bind", "name"} /\ NameAccount(a, login[a].human)
  BY DEF BindGithubIdentity, NameHuman, At
<1>2. PICK i : i = login[a].human
  OBVIOUS
<1>3. /\ i \in Humans /\ i \in DOMAIN participants /\ i \in Nat
      /\ NameAccount(a, i) /\ login[a] # Idle /\ login[a].client.who \in Identity
  BY <1>1, <1>2, Client2, Numbers DEF TypeInv, LoginInv, Humans
<1>4. CASE AccountOf(login[a].client.who) \ {i} = {}
  <2>1. participants' = [participants EXCEPT ![i].github = login[a].client.who] /\ Move(a, "issue", i)
    BY <1>3, <1>4 DEF NameAccount
  <2>2. PeopleInv' /\ Humans' = Humans /\ Agents' = Agents
    BY <1>3, <2>1, NamedRow
  <2>3. LoginInv'
    <3>1. Grown
      BY <1>1, <2>2 DEF Grown
    <3>2. QED
      BY <1>1, <1>3, <2>1, <2>2, <3>1, LoginMoves DEF TypeInv
  <2>4. QED
    BY <1>1, <2>2, <2>3, TablesGrow
<1>5. CASE AccountOf(login[a].client.who) \ {i} # {}
  <2>1. UNCHANGED participants /\ Drop(a)
    BY <1>3, <1>5 DEF NameAccount
  <2>2. PeopleInv' /\ Humans' = Humans /\ Agents' = Agents
    BY <2>1 DEF TypeInv, PeopleInv, Humans, Agents
  <2>3. LoginInv'
    <3>1. Grown
      BY <1>1, <2>2 DEF Grown
    <3>2. QED
      BY <1>1, <2>1, <2>2, <3>1, LoginDrops DEF LoginInv, TypeInv
  <2>4. QED
    BY <1>1, <2>2, <2>3, TablesGrow
<1>6. QED
  BY <1>4, <1>5

LEMMA NewPerson ==
  ASSUME TypeInv, RegisterParticipant(Person("human", 0))
  PROVE  /\ PeopleInv' /\ Humans \subseteq Humans' /\ Agents \subseteq Agents'
         /\ Len(participants) + 1 \in Humans' /\ Len(participants) + 1 \in Nat
         /\ Len(participants) + 1 \notin Humans
         /\ Humans' = Humans \cup {Len(participants) + 1}
         /\ participants'[Len(participants) + 1].github = None
         /\ \A i \in DOMAIN participants :
              i \in DOMAIN participants' /\ participants'[i] = participants[i]
<1>1. PICK row \in Rows : /\ row = Person("human", 0) /\ row.kind = "human" /\ row.owner = 0
                          /\ row.github = None
  BY PersonType
<1>2. participants' = Append(participants, row)
  BY <1>1 DEF RegisterParticipant
<1>3. /\ PeopleInv' /\ Humans \subseteq Humans' /\ Agents \subseteq Agents'
      /\ Len(participants) + 1 \in DOMAIN participants'
      /\ participants'[Len(participants) + 1] = row
      /\ \A i \in DOMAIN participants :
           i \in DOMAIN participants' /\ participants'[i] = participants[i]
      /\ DOMAIN participants' = DOMAIN participants \cup {Len(participants) + 1}
      /\ Len(participants) + 1 \notin DOMAIN participants
  BY <1>1, <1>2, Enrolled DEF TypeInv
<1>4. Len(participants) + 1 \in Nat
  BY DEF TypeInv, PeopleInv
<1>5. QED
  BY <1>1, <1>3, <1>4 DEF Humans

LEMMA RegisterTypes ==
  ASSUME TypeInv, NEW a \in Attempt, RegisterHuman(a)
  PROVE  TypeInv'
<1>1. /\ UNCHANGED <<projects, members, invites, revoked, acts, req, config, session, waiting>>
      /\ login[a].at = "register" /\ RegisterParticipant(Person("human", 0))
      /\ Move(a, "name", Len(participants) + 1)
  BY DEF RegisterHuman, At
<1>2. /\ PeopleInv' /\ Humans \subseteq Humans' /\ Agents \subseteq Agents'
      /\ Len(participants) + 1 \in Humans' /\ Len(participants) + 1 \in Nat
  BY <1>1, NewPerson
<1>3. Grown /\ login[a] # Idle
  BY <1>1, <1>2, Client2 DEF Grown
<1>4. PICK i : i = Len(participants) + 1
  OBVIOUS
<1>5. LoginInv'
  BY <1>1, <1>2, <1>3, <1>4, LoginMoves DEF TypeInv
<1>6. QED
  BY <1>1, <1>2, <1>5, TablesGrow

LEMMA OtherTypes ==
  ASSUME TypeInv,
         \/ \E g \in Identity : LogOut(g)
         \/ LoginWithToken \/ RegisterByName
         \/ \E p \in DOMAIN projects : ProjectUse(p)
  PROVE  TypeInv'
<1>1. ASSUME NEW g \in Identity, LogOut(g) PROVE TypeInv'
  <2>1. UNCHANGED <<board, acts, req, config>> /\ Grown /\ Humans' = Humans
    BY <1>1, BoardStays DEF LogOut
  <2>2. LoginInv'
    BY <1>1, <2>1 DEF LogOut, TypeInv, LoginInv
  <2>3. QED
    BY <2>1, <2>2, ConfigStays, Rest DEF TypeInv
<1>2. CASE LoginWithToken
  <2>1. UNCHANGED <<board, acts, req, config>> /\ Grown /\ Humans' = Humans
    BY <1>2, BoardStays DEF LoginWithToken
  <2>2. config.owner \in Humans
    BY DEF TypeInv, ConfigOK
  <2>3. LoginInv'
    BY <1>2, <2>1, <2>2 DEF LoginWithToken, TypeInv, LoginInv
  <2>4. QED
    BY <2>1, <2>3, ConfigStays, Rest DEF TypeInv
<1>3. CASE RegisterByName
  <2>1. /\ UNCHANGED <<projects, members, invites, revoked, acts, req, config, people>>
        /\ RegisterParticipant(Person("human", 0))
    BY <1>3 DEF RegisterByName
  <2>2. PeopleInv' /\ Humans \subseteq Humans' /\ Agents \subseteq Agents'
    BY <2>1, NewPerson
  <2>3. Grown
    BY <2>1, <2>2 DEF Grown
  <2>4. LoginInv'
    BY <2>1, <2>3, LoginGrows DEF TypeInv
  <2>5. QED
    BY <2>1, <2>2, <2>4, TablesGrow
<1>4. ASSUME NEW p \in DOMAIN projects, ProjectUse(p) PROVE TypeInv'
  <2>1. /\ UNCHANGED <<board, acts, req, people>> /\ Grown /\ Humans' = Humans
        /\ Agents' = Agents
    BY <1>4, BoardStays DEF ProjectUse
  <2>2. LoginInv'
    BY <2>1, LoginGrows DEF TypeInv
  <2>3. p \in Nat
    BY DEF TypeInv, BoardInv
  <2>4. config' = [config EXCEPT !.project = p]
    BY <1>4 DEF ProjectUse
  <2>5. ConfigOK(config)'
    BY <2>1, <2>3, <2>4 DEF ConfigOK, Configs, TypeInv
  <2>6. QED
    BY <2>1, <2>2, <2>5, Rest DEF TypeInv
<1>5. QED
  BY <1>1, <1>2, <1>3, <1>4

LEMMA AskerType ==
  ASSUME TypeInv
  PROVE  /\ \A i \in SignedInHere : i \in Humans /\ i \in Nat /\ Web(i).id = i /\ Web(i).by = "web"
         /\ \A c \in Asker : c.id \in Humans /\ c.id \in Nat
         /\ Cli.id \in Humans /\ Cli.id \in Nat
<1>1. Humans \subseteq Nat
  BY Numbers DEF TypeInv
<1>2. \A i \in SignedInHere : i \in Humans
  BY DEF SignedInHere, TypeInv, LoginInv
<1>3. config.owner \in Humans
  BY DEF TypeInv, ConfigOK
<1>4. \A i : Web(i).id = i /\ Web(i).by = "web"
  BY DEF Web
<1>5. Cli.id \in Humans
  BY <1>3 DEF Cli
<1>6. \A c \in Asker : c.id \in Humans
  BY <1>2, <1>4, <1>5 DEF Asker
<1>7. QED
  BY <1>1, <1>2, <1>4, <1>5, <1>6

LEMMA DoTypes ==
  ASSUME TypeInv, PersonActs \/ AgentActs \/ Internal
  PROVE  TypeInv'
<1>1. CASE Internal
  <2>1. /\ UNCHANGED <<participants, projects, members, invites, revoked, acts, people, config, req>>
    BY <1>1 DEF Internal
  <2>2. PeopleInv' /\ Humans' = Humans /\ Agents' = Agents
    BY <2>1 DEF TypeInv, PeopleInv, Humans, Agents
  <2>3. Grown
    BY <2>1, <2>2 DEF Grown
  <2>4. QED
    BY <2>1, <2>2, <2>3, LoginGrows, TablesGrow DEF TypeInv
<1>2. ASSUME NEW by \in Nat, NEW p \in Nat, NEW deed, Do(by, p, deed) PROVE TypeInv'
  <2>1. /\ UNCHANGED <<participants, projects, members, invites, revoked, people, config, req>>
        /\ acts' = Append(acts, [by |-> by, project |-> p, state |-> "done"])
    BY <1>2 DEF Do
  <2>2. PeopleInv' /\ Humans' = Humans /\ Agents' = Agents
    BY <2>1 DEF TypeInv, PeopleInv, Humans, Agents
  <2>3. Grown
    BY <2>1, <2>2 DEF Grown
  <2>4. acts' \in Seq(Operation)
    <3>1. [by |-> by, project |-> p, state |-> "done"] \in Operation
      BY DEF Operation, States
    <3>2. QED
      BY <2>1, <3>1 DEF TypeInv
  <2>5. QED
    BY <2>1, <2>2, <2>3, <2>4, LoginGrows, BoardGrows, ReqGrows, ConfigStays DEF TypeInv
<1>3. members \subseteq (DOMAIN projects) \X (Humans \cup Agents) /\ DOMAIN projects \subseteq Nat
  BY DEF TypeInv, BoardInv
<1>4. CASE PersonActs
  <2>0. PICK a \in Asker, deed \in Deeds : \E p \in RequireProjectMember(a.id) : Do(a.id, p, deed)
    BY <1>4 DEF PersonActs
  <2>1. PICK p \in RequireProjectMember(a.id) : Do(a.id, p, deed)
    BY <2>0
  <2>2. p \in Nat
    BY <1>3, <2>1 DEF RequireProjectMember, ResolveHumanProjectId, IsProjectMember
  <2>3. PICK by : by = a.id
    OBVIOUS
  <2>4. by \in Nat /\ Do(by, p, deed)
    BY <2>1, <2>3, AskerType
  <2>5. QED
    BY <1>2, <2>2, <2>4
<1>5. CASE AgentActs
  <2>1. PICK i \in Agents, deed \in Deeds, named \in 0 .. Len(projects), focus \in 0 .. Len(projects) :
          \E p \in ResolveAgentToolProjectId(i, named, focus) : Do(i, p, deed)
    BY <1>5 DEF AgentActs
  <2>2. PICK p \in ResolveAgentToolProjectId(i, named, focus) : Do(i, p, deed)
    BY <2>1
  <2>3. p \in Nat /\ i \in Nat
    BY <1>3, <2>2, Numbers DEF ResolveAgentToolProjectId, IsProjectMember, TypeInv
  <2>4. QED
    BY <1>2, <2>2, <2>3
<1>6. QED
  BY <1>1, <1>4, <1>5

\* Every request begins so, and changes no table but the two that follow.
LEMMA AskBegins ==
  ASSUME TypeInv, NEW h \in Handler, Ask(h)
  PROVE  /\ \E op, at, asker, p, about :
              Startable(op, at, asker.id, p, about) /\ Begin(h, op, at, asker, p, about)
         /\ UNCHANGED <<projects, members, revoked, events, people, config>>
         /\ \/ UNCHANGED <<participants, invites>>
            \/ UNCHANGED participants /\ \E p \in DOMAIN projects : invites' = invites \cup {p}
            \/ UNCHANGED invites
               /\ \E agent \in Agents : participants' = [participants EXCEPT ![agent].archived = TRUE]
<1>1. /\ members \subseteq (DOMAIN projects) \X (Humans \cup Agents) /\ DOMAIN projects \subseteq Nat
      /\ Humans \subseteq Nat /\ Agents \subseteq Nat /\ invites \subseteq DOMAIN projects
  BY Numbers DEF TypeInv, BoardInv
<1>2. \A i : Memberships(i) \subseteq DOMAIN projects /\ ListOwnedAgents(i) \subseteq Agents
  BY DEF Memberships, ListOwnedAgents
<1>3. CASE CreateInProjectsPage(h) \/ ProjectCreateCommand(h)
  <2>1. PICK asker : asker.id \in Humans /\ asker.id \in Nat /\ AskCreateProject(h, asker)
    BY <1>3, AskerType DEF CreateInProjectsPage, ProjectCreateCommand
  <2>2. Startable("createProject", "project", asker.id, 0, asker.id)
    BY <2>1 DEF Startable, Operations
  <2>3. QED
    BY <2>1, <2>2 DEF AskCreateProject, board, Pages
<1>4. CASE JoinProjectByInvite(h)
  <2>1. PICK i \in SignedInHere, p \in invites : Begin(h, "join", "look", Web(i), p, i)
    BY <1>4 DEF JoinProjectByInvite
  <2>2. PICK asker : asker = Web(i)
    OBVIOUS
  <2>3. Startable("join", "look", asker.id, p, i)
    BY <1>1, <2>2, AskerType DEF Startable, Operations
  <2>4. QED
    BY <1>4, <2>1, <2>2, <2>3 DEF JoinProjectByInvite, board, Pages
<1>5. CASE AddOwnedAgentToProject(h)
  <2>1. PICK a \in Asker : \E p \in Memberships(a.id), agent \in ListOwnedAgents(a.id) :
          Begin(h, "addAgent", "look", [id |-> a.id, by |-> "api"], p, agent)
    BY <1>5 DEF AddOwnedAgentToProject
  <2>2. PICK p \in Memberships(a.id), agent \in ListOwnedAgents(a.id) :
          Begin(h, "addAgent", "look", [id |-> a.id, by |-> "api"], p, agent)
    BY <2>1
  <2>3. PICK asker : asker = [id |-> a.id, by |-> "api"]
    OBVIOUS
  <2>4. asker.id \in Humans /\ asker.id \in Nat
    BY <2>3, AskerType
  <2>5. Startable("addAgent", "look", asker.id, p, agent)
    BY <1>1, <1>2, <2>4 DEF Startable, Operations
  <2>6. QED
    BY <1>5, <2>2, <2>3, <2>5 DEF AddOwnedAgentToProject, board, Pages
<1>6. CASE RemoveHumanMember(h)
  <2>1. PICK i \in SignedInHere, p \in DOMAIN projects :
          \E x \in ProjectSettingsPage(i, p).removes : Begin(h, "remove", "delete", Web(i), p, x)
    BY <1>6 DEF RemoveHumanMember
  <2>2. PICK x \in Humans : Begin(h, "remove", "delete", Web(i), p, x)
    BY <2>1 DEF ProjectSettingsPage
  <2>3. PICK asker : asker = Web(i)
    OBVIOUS
  <2>4. Startable("remove", "delete", asker.id, p, x)
    BY <1>1, <2>3, AskerType DEF Startable, Operations
  <2>5. QED
    BY <1>6, <2>2, <2>3, <2>4 DEF RemoveHumanMember, board, Pages
<1>7. CASE SaveInSettings(h) \/ ProjectSetCommand(h)
  <2>1. PICK asker, p : /\ asker.id \in Humans /\ asker.id \in Nat /\ p \in Nat
                        /\ UpdateProject(h, asker, p)
    <3>1. CASE SaveInSettings(h)
      BY <1>1, <3>1, AskerType DEF SaveInSettings
    <3>2. CASE ProjectSetCommand(h)
      <4>1. PICK p \in ResolveHumanProjectId(config.owner, config.project) : UpdateProject(h, Cli, p)
        BY <3>2 DEF ProjectSetCommand
      <4>2. p \in Nat
        BY <1>1, <4>1 DEF ResolveHumanProjectId, IsProjectMember
      <4>3. QED
        BY <4>1, <4>2, AskerType
    <3>3. QED
      BY <1>7, <3>1, <3>2
  <2>2. Startable("project_updated", "tell", asker.id, p, None)
    BY <2>1 DEF Startable, Operations
  <2>3. QED
    BY <2>1, <2>2 DEF UpdateProject, board, Pages
<1>8. CASE CreateProjectInvite(h)
  <2>1. PICK i \in SignedInHere, p \in DOMAIN projects :
          Begin(h, "project_invite_created", "tell", Web(i), p, None) /\ invites' = invites \cup {p}
    BY <1>8 DEF CreateProjectInvite
  <2>2. PICK asker : asker = Web(i)
    OBVIOUS
  <2>3. Startable("project_invite_created", "tell", asker.id, p, None)
    BY <1>1, <2>2, AskerType DEF Startable, Operations
  <2>4. QED
    BY <1>8, <2>1, <2>2, <2>3 DEF CreateProjectInvite, Pages
<1>9. CASE AddInSettings(h) \/ RegisterCommand(h)
  <2>1. PICK asker, p : /\ asker.id \in Humans /\ asker.id \in Nat /\ p \in DOMAIN projects
                        /\ AskRegisterAgent(h, asker, p)
    <3>1. CASE AddInSettings(h)
      <4>1. PICK i \in SignedInHere : \E p \in Memberships(i) : AskRegisterAgent(h, Web(i), p)
        BY <3>1 DEF AddInSettings, SettingsPage
      <4>2. QED
        BY <1>2, <4>1, AskerType
    <3>2. CASE RegisterCommand(h)
      <4>1. PICK p \in ResolveHumanProjectId(config.owner, config.project) : AskRegisterAgent(h, Cli, p)
        BY <3>2 DEF RegisterCommand
      <4>2. p \in DOMAIN projects
        BY <1>1, <4>1 DEF ResolveHumanProjectId, IsProjectMember
      <4>3. QED
        BY <4>1, <4>2, AskerType
    <3>3. QED
      BY <1>9, <3>1, <3>2
  <2>2. Startable("registerAgent", "register", asker.id, p, 0)
    BY <1>1, <2>1 DEF Startable, Operations
  <2>3. QED
    BY <2>1, <2>2 DEF AskRegisterAgent, board
<1>10. CASE ArchiveOwnedAgent(h)
  <2>1. PICK i \in SignedInHere : \E agent \in ListOwnedAgents(i) :
          /\ Begin(h, "archive", "revoke", Web(i), None, agent)
          /\ participants' = [participants EXCEPT ![agent].archived = TRUE]
    BY <1>10 DEF ArchiveOwnedAgent, SettingsPage
  <2>2. PICK agent \in Agents :
          /\ Begin(h, "archive", "revoke", Web(i), None, agent)
          /\ participants' = [participants EXCEPT ![agent].archived = TRUE]
    BY <1>2, <2>1
  <2>3. PICK asker : asker = Web(i)
    OBVIOUS
  <2>4. Startable("archive", "revoke", asker.id, None, agent)
    BY <1>1, <2>3, AskerType DEF Startable, Operations
  <2>5. QED
    BY <1>10, <2>2, <2>3, <2>4 DEF ArchiveOwnedAgent, Pages
<1>11. QED
  BY <1>3, <1>4, <1>5, <1>6, <1>7, <1>8, <1>9, <1>10 DEF Ask

\* Archiving an agent changes nothing that the rest depends on.
LEMMA Archived ==
  ASSUME TypeInv, NEW agent \in Agents,
         participants' = [participants EXCEPT ![agent].archived = TRUE]
  PROVE  /\ PeopleInv' /\ Humans' = Humans /\ Agents' = Agents
         /\ DOMAIN participants' = DOMAIN participants
         /\ \A j \in DOMAIN participants : participants'[j].github = participants[j].github
<1>1. PICK row : row = [participants[agent] EXCEPT !.archived = TRUE]
  OBVIOUS
<1>2. participants \in Seq(Rows) /\ agent \in DOMAIN participants /\ participants[agent] \in Rows
  BY DEF TypeInv, PeopleInv, Agents
<1>3. /\ row \in Rows /\ row.kind = participants[agent].kind /\ row.owner = participants[agent].owner
      /\ row.github = participants[agent].github
  BY <1>1, <1>2 DEF Rows
<1>4. participants' = [participants EXCEPT ![agent] = row]
  BY <1>1
<1>5. QED
  BY <1>2, <1>3, <1>4, Changed DEF TypeInv

LEMMA AskTypes ==
  ASSUME TypeInv, NEW h \in Handler, Ask(h)
  PROVE  TypeInv'
<1>1. UNCHANGED <<projects, members, revoked, events, people, config>>
  BY AskBegins
<1>2. PeopleInv' /\ Humans' = Humans /\ Agents' = Agents
  <2>1. CASE UNCHANGED participants
    BY <2>1 DEF TypeInv, PeopleInv, Humans, Agents
  <2>2. CASE \E agent \in Agents : participants' = [participants EXCEPT ![agent].archived = TRUE]
    BY <2>2, Archived
  <2>3. QED
    BY <2>1, <2>2, AskBegins
<1>3. invites' \subseteq DOMAIN projects
  BY AskBegins DEF TypeInv, BoardInv
<1>4. Grown
  BY <1>1, <1>2 DEF Grown
<1>5. BoardInv'
  BY <1>1, <1>2, <1>3 DEF TypeInv, BoardInv
<1>6. PICK op, at, asker, p, about :
        Startable(op, at, asker.id, p, about) /\ Begin(h, op, at, asker, p, about)
  BY AskBegins
<1>7. ReqInv' /\ acts' \in Seq(Operation)
  BY <1>4, <1>6, Begins DEF TypeInv
<1>8. QED
  BY <1>1, <1>2, <1>4, <1>5, <1>7, LoginGrows, ConfigStays DEF TypeInv

\* A step of a request that writes at most memberships and events.
LEMMA MembersStep ==
  ASSUME TypeInv, UNCHANGED <<participants, projects, invites, people, config>>,
         members' \subseteq (DOMAIN projects) \X (Humans \cup Agents), revoked' \subseteq Agents,
         Grown => ReqInv' /\ acts' \in Seq(Operation)
  PROVE  TypeInv'
<1>1. PeopleInv' /\ Humans' = Humans /\ Agents' = Agents
  BY DEF TypeInv, PeopleInv, Humans, Agents
<1>2. Grown
  BY <1>1 DEF Grown
<1>3. BoardInv'
  BY <1>1 DEF TypeInv, BoardInv
<1>4. QED
  BY <1>1, <1>2, <1>3, LoginGrows, ConfigStays DEF TypeInv

LEMMA TellTypes ==
  ASSUME TypeInv, NEW h \in Handler,
         \/ TellCreated(h) \/ Founding(h) \/ LookMembership(h) \/ InsertMembership(h)
         \/ TellMembership(h) \/ DeleteMembership(h) \/ TellRemoved(h) \/ TellChange(h)
         \/ RevokeAgent(h)
  PROVE  TypeInv'
<1>1. UNCHANGED <<participants, projects, invites, people, config>>
  BY DEF TellCreated, Founding, LookMembership, InsertMembership, TellMembership,
         DeleteMembership, TellRemoved, TellChange, RevokeAgent, Pages, board
<1>2. req[h].at # "idle"
  BY DEF TellCreated, Founding, LookMembership, InsertMembership, TellMembership,
         DeleteMembership, TellRemoved, TellChange, RevokeAgent, Does
<1>3. req[h] \in Requests /\ Looked(req[h]) /\ req[h] # Idle
  BY <1>2, Asked DEF TypeInv
<1>4. ReqInv /\ acts \in Seq(Operation)
  BY DEF TypeInv
<1>5. members \subseteq (DOMAIN projects) \X (Humans \cup Agents) /\ revoked \subseteq Agents
  BY DEF TypeInv, BoardInv
<1>6. /\ members' \subseteq (DOMAIN projects) \X (Humans \cup Agents) /\ revoked' \subseteq Agents
      /\ Grown => ReqInv' /\ acts' \in Seq(Operation)
  <2>1. CASE TellCreated(h)
    <3>1. UNCHANGED <<members, revoked>> /\ Goto(h, "founding") /\ req[h].op = "createProject"
      BY <1>3, <2>1 DEF TellCreated, Looked, Does
    <3>2. QED
      BY <1>3, <1>4, <1>5, <3>1, Goes
  <2>2. CASE Founding(h)
    <3>1. UNCHANGED <<members, revoked>> /\ Answer(h, "done", TRUE) /\ req[h].op = "createProject"
      BY <1>3, <2>2 DEF Founding, Looked, Does
    <3>2. QED
      BY <1>3, <1>4, <1>5, <3>1, Answers DEF States
  <2>3. CASE LookMembership(h)
    <3>1. UNCHANGED <<members, revoked>> /\ (Answer(h, "nothing", FALSE) \/ Goto(h, "insert"))
          /\ req[h].project \in DOMAIN projects /\ req[h].about \in Humans \cup Agents
      BY <1>3, <2>3 DEF LookMembership, Looked, Does, board
    <3>2. Answer(h, "nothing", FALSE) => (Grown => ReqInv' /\ acts' \in Seq(Operation))
      BY <1>3, <1>4, Answers DEF States
    <3>3. Goto(h, "insert") => (Grown => ReqInv' /\ acts' \in Seq(Operation))
      BY <1>3, <1>4, <3>1, Goes
    <3>4. QED
      BY <1>5, <3>1, <3>2, <3>3
  <2>4. CASE InsertMembership(h)
    <3>1. /\ revoked' = revoked /\ (Answer(h, "failed", FALSE) \/ Goto(h, "told"))
          /\ members' \in {members, members \cup {<<req[h].project, req[h].about>>}}
          /\ req[h].project \in DOMAIN projects /\ req[h].about \in Humans \cup Agents
      BY <1>3, <2>4 DEF InsertMembership, Looked, Does
    <3>2. Answer(h, "failed", FALSE) => (Grown => ReqInv' /\ acts' \in Seq(Operation))
      BY <1>3, <1>4, Answers DEF States
    <3>3. Goto(h, "told") => (Grown => ReqInv' /\ acts' \in Seq(Operation))
      BY <1>3, <1>4, <3>1, Goes
    <3>4. <<req[h].project, req[h].about>> \in (DOMAIN projects) \X (Humans \cup Agents)
      BY <3>1
    <3>5. QED
      BY <1>5, <3>1, <3>2, <3>3, <3>4
  <2>5. CASE TellMembership(h)
    <3>1. UNCHANGED <<members, revoked>>
          /\ \/ req[h].op = "createProject" /\ Goto(h, "created")
             \/ Answer(h, "done", FALSE)
      BY <2>5 DEF TellMembership
    <3>2. Answer(h, "done", FALSE) => (Grown => ReqInv' /\ acts' \in Seq(Operation))
      BY <1>3, <1>4, Answers DEF States
    <3>3. req[h].op = "createProject" /\ Goto(h, "created")
            => (Grown => ReqInv' /\ acts' \in Seq(Operation))
      BY <1>3, <1>4, Goes
    <3>4. QED
      BY <1>5, <3>1, <3>2, <3>3
  <2>6. CASE DeleteMembership(h)
    <3>1. /\ revoked' = revoked /\ members' \subseteq members
          /\ (Answer(h, "failed", FALSE) \/ Goto(h, "removed"))
      BY <2>6 DEF DeleteMembership
    <3>2. Answer(h, "failed", FALSE) => (Grown => ReqInv' /\ acts' \in Seq(Operation))
      BY <1>3, <1>4, Answers DEF States
    <3>3. Goto(h, "removed") => (Grown => ReqInv' /\ acts' \in Seq(Operation))
      BY <1>3, <1>4, Goes
    <3>4. QED
      BY <1>5, <3>1, <3>2, <3>3
  <2>7. CASE TellRemoved(h) \/ TellChange(h)
    <3>1. UNCHANGED <<members, revoked>> /\ Answer(h, "done", FALSE)
      BY <2>7 DEF TellRemoved, TellChange
    <3>2. QED
      BY <1>3, <1>4, <1>5, <3>1, Answers DEF States
  <2>8. CASE RevokeAgent(h)
    <3>1. /\ members' = members /\ revoked' = revoked \cup {req[h].about} /\ Answer(h, "done", FALSE)
          /\ req[h].about \in Agents
      BY <1>3, <2>8 DEF RevokeAgent, Looked, Does
    <3>2. QED
      BY <1>3, <1>4, <1>5, <3>1, Answers DEF States
  <2>9. QED
    BY <2>1, <2>2, <2>3, <2>4, <2>5, <2>6, <2>7, <2>8
<1>7. QED
  BY <1>1, <1>6, MembersStep

LEMMA InsertTypes ==
  ASSUME TypeInv, NEW h \in Handler, InsertProject(h)
  PROVE  TypeInv'
<1>1. PICK p : p = Len(projects) + 1
  OBVIOUS
<1>2. /\ UNCHANGED <<participants, members, invites, revoked, people, config>>
      /\ projects' = Append(projects, req[h].by)
      /\ req' = [req EXCEPT ![h].at = "look", ![h].project = p]
      /\ req[h].at = "project"
  BY <1>1 DEF InsertProject, Pages, Does
<1>3. req[h] \in Requests /\ Looked(req[h])
  BY <1>2, Asked DEF TypeInv
<1>4. projects \in Seq(Nat) /\ req[h].by \in Humans /\ req[h].by \in Nat /\ Len(projects) \in Nat
  BY <1>3 DEF TypeInv, BoardInv, Looked, Requests
<1>5. /\ projects' \in Seq(Nat) /\ p \in DOMAIN projects' /\ p \in Nat
      /\ DOMAIN projects \subseteq DOMAIN projects'
      /\ \A q \in DOMAIN projects' : projects'[q] \in Humans
  <2>1. /\ DOMAIN projects' = 1 .. Len(projects) + 1 /\ projects'[Len(projects) + 1] = req[h].by
        /\ \A q \in DOMAIN projects : projects'[q] = projects[q]
        /\ DOMAIN projects = 1 .. Len(projects) /\ projects' \in Seq(Nat)
    BY <1>2, <1>4
  <2>2. \A q \in DOMAIN projects : projects[q] \in Humans
    BY DEF TypeInv, BoardInv
  <2>3. \A q \in DOMAIN projects' : q \in DOMAIN projects \/ q = Len(projects) + 1
    BY <1>4, <2>1
  <2>4. \A q \in DOMAIN projects' : projects'[q] \in Humans
    BY <1>4, <2>1, <2>2, <2>3
  <2>5. DOMAIN projects \subseteq DOMAIN projects' /\ p \in DOMAIN projects' /\ p \in Nat
    BY <1>1, <1>4, <2>1
  <2>6. QED
    BY <2>1, <2>4, <2>5
<1>6. PeopleInv' /\ Humans' = Humans /\ Agents' = Agents
  BY <1>2 DEF TypeInv, PeopleInv, Humans, Agents
<1>7. Grown
  BY <1>5, <1>6 DEF Grown
<1>8. BoardInv'
  BY <1>2, <1>5, <1>6 DEF TypeInv, BoardInv
<1>9. ReqInv'
  <2>1. PICK r : r = [req[h] EXCEPT !.at = "look", !.project = p]
    OBVIOUS
  <2>2. /\ r \in Requests /\ r.at = "look" /\ r.by = req[h].by /\ r.project = p
        /\ r.about = req[h].by /\ r.config = req[h].config
    BY <1>2, <1>3, <1>5, <2>1 DEF Requests, Untold, Looked
  <2>3. Looked(r)'
    BY <1>3, <1>5, <1>6, <1>7, <2>2, ConfigGrows DEF Looked
  <2>4. req' = [req EXCEPT ![h] = r]
    BY <1>2, <2>1
  <2>5. QED
    BY <1>7, <2>2, <2>3, <2>4, ReqSet DEF TypeInv
<1>10. acts' \in Seq(Operation)
  <2>1. PICK n : n = req[h].act
    OBVIOUS
  <2>2. acts' = [acts EXCEPT ![n].project = p] /\ acts \in Seq(Operation)
    BY <1>1, <2>1 DEF InsertProject, TypeInv
  <2>3. QED
    BY <1>5, <2>2, ActsPlace
<1>11. QED
  BY <1>2, <1>6, <1>7, <1>8, <1>9, <1>10, LoginGrows, ConfigStays DEF TypeInv

LEMMA RegisterAgentTypes ==
  ASSUME TypeInv, NEW h \in Handler, RegisterAgent(h)
  PROVE  TypeInv'
<1>1. /\ UNCHANGED <<projects, invites, revoked, people, config>> /\ req[h].at = "register"
  BY DEF RegisterAgent, Pages, Does
<1>2. /\ req[h] \in Requests /\ Looked(req[h]) /\ req[h] # Idle
      /\ req[h].project \in DOMAIN projects /\ req[h].by \in Humans /\ req[h].by \in Nat
      /\ req[h].op = "registerAgent"
  BY <1>1, Asked DEF TypeInv, Looked, Requests
<1>3. CASE IsProjectMember(req[h].project, req[h].by)
  <2>1. PICK i : i = Len(participants) + 1
    OBVIOUS
  <2>2. PICK row \in Rows : /\ row = Person("agent", req[h].by) /\ row.kind = "agent"
                            /\ row.owner = req[h].by
    BY <1>2, PersonType
  <2>3. /\ participants' = Append(participants, row)
        /\ members' = members \cup {<<req[h].project, i>>}
        /\ acts' = [acts EXCEPT ![req[h].act].state = "done"]
        /\ req' = [req EXCEPT ![h] = IF @.config # None
                     THEN [@ EXCEPT !.at = "save", !.about = i] ELSE Idle]
    BY <1>3, <2>1, <2>2 DEF RegisterAgent
  <2>4. /\ PeopleInv' /\ Humans \subseteq Humans' /\ Agents \subseteq Agents'
        /\ i \in DOMAIN participants' /\ participants'[i] = row
    BY <1>2, <2>1, <2>2, <2>3, Enrolled DEF TypeInv
  <2>5. i \in Agents' /\ i \in Nat
    BY <2>1, <2>2, <2>4 DEF Agents, TypeInv, PeopleInv
  <2>6. Grown
    BY <1>1, <2>4 DEF Grown
  <2>7. BoardInv'
    BY <1>1, <1>2, <2>3, <2>4, <2>5 DEF TypeInv, BoardInv
  <2>8. ReqInv'
    <3>1. PICK r : r = IF req[h].config # None THEN [req[h] EXCEPT !.at = "save", !.about = i] ELSE Idle
      OBVIOUS
    <3>2. r = Idle \/ (r \in Requests /\ Looked(r)')
      <4>1. CASE req[h].config # None
        <5>1. r = [req[h] EXCEPT !.at = "save", !.about = i]
          BY <3>1, <4>1
        <5>2. /\ r \in Requests /\ r.at = "save" /\ r.by = req[h].by
              /\ r.about = i /\ r.config = req[h].config
          BY <1>2, <2>5, <5>1 DEF Requests, Untold
        <5>3. ConfigOK(req[h].config)
          BY <1>2, <4>1 DEF Looked
        <5>4. Looked(r)'
          BY <1>2, <2>4, <2>5, <2>6, <4>1, <5>2, <5>3, ConfigGrows DEF Looked
        <5>5. QED
          BY <5>2, <5>4
      <4>2. QED
        BY <3>1, <4>1
    <3>3. req' = [req EXCEPT ![h] = r]
      BY <2>3, <3>1
    <3>4. QED
      BY <2>6, <3>2, <3>3, ReqSet DEF TypeInv
  <2>9. acts' \in Seq(Operation)
    <3>1. PICK n : n = req[h].act
      OBVIOUS
    <3>2. acts' = [acts EXCEPT ![n].state = "done"] /\ acts \in Seq(Operation)
      BY <2>3, <3>1 DEF TypeInv
    <3>3. QED
      BY <3>2, ActsSet DEF States
  <2>10. QED
    BY <1>1, <2>4, <2>6, <2>7, <2>8, <2>9, LoginGrows, ConfigStays DEF TypeInv
<1>4. CASE ~IsProjectMember(req[h].project, req[h].by)
  <2>1. Answer(h, "failed", FALSE) /\ UNCHANGED <<participants, members>>
    BY <1>4 DEF RegisterAgent
  <2>2. members \subseteq (DOMAIN projects) \X (Humans \cup Agents) /\ revoked \subseteq Agents
    BY DEF TypeInv, BoardInv
  <2>3. Grown => ReqInv' /\ acts' \in Seq(Operation)
    BY <1>2, <2>1, Answers DEF States, TypeInv
  <2>4. QED
    BY <1>1, <2>1, <2>2, <2>3, MembersStep
<1>5. QED
  BY <1>3, <1>4

LEMMA SaveTypes ==
  ASSUME TypeInv, NEW h \in Handler, SaveConfig(h)
  PROVE  TypeInv'
<1>1. UNCHANGED <<board, acts, people>> /\ req[h].at = "save" /\ req' = [req EXCEPT ![h] = Idle]
  BY DEF SaveConfig, Does
<1>2. /\ req[h] \in Requests /\ Looked(req[h]) /\ req[h] # Idle
  BY <1>1, Asked DEF TypeInv
<1>3. /\ PeopleInv' /\ BoardInv' /\ Grown /\ Humans' = Humans /\ Agents' = Agents
  BY <1>1, BoardStays
<1>4. ReqInv'
  BY <1>1, <1>3, ReqSet DEF TypeInv
<1>5. ConfigOK(config)'
  <2>1. PICK c : c = req[h].config
    OBVIOUS
  <2>2. PICK agents : agents = IF req[h].op = "registerAgent" THEN c.agents \cup {req[h].about} ELSE c.agents
    OBVIOUS
  <2>3. PICK p : p = req[h].project
    OBVIOUS
  <2>4. c \in Configs /\ c.owner \in Humans /\ c.agents \subseteq Agents /\ p \in Nat \cup {None}
    BY <1>1, <1>2, <2>1, <2>3 DEF Looked, ConfigOK, Requests
  <2>5. agents \subseteq Agents /\ Agents \subseteq Nat
    BY <1>1, <1>2, <2>2, <2>4, Numbers DEF Looked, TypeInv
  <2>6. config' = [c EXCEPT !.project = p, !.agents = agents]
    BY <2>1, <2>2, <2>3 DEF SaveConfig
  <2>7. config' \in Configs /\ config'.owner = c.owner /\ config'.agents = agents
    BY <2>4, <2>5, <2>6 DEF Configs
  <2>8. QED
    BY <1>3, <2>4, <2>5, <2>7 DEF ConfigOK
<1>6. QED
  BY <1>1, <1>3, <1>4, <1>5, LoginGrows DEF TypeInv

LEMMA FailTypes ==
  ASSUME TypeInv, NEW h \in Handler, RequestFails(h)
  PROVE  TypeInv'
<1>1. UNCHANGED <<board, people, config>> /\ req' = [req EXCEPT ![h] = Idle]
  BY DEF RequestFails
<1>2. PeopleInv' /\ BoardInv' /\ Grown
  BY <1>1, BoardStays
<1>3. ReqInv'
  BY <1>1, <1>2, ReqSet DEF TypeInv
<1>4. acts' \in Seq(Operation)
  <2>1. PICK n : n = req[h].act
    OBVIOUS
  <2>2. PICK state : state = IF acts[n].state = "open" THEN "failed" ELSE acts[n].state
    OBVIOUS
  <2>3. acts' = [acts EXCEPT ![n].state = state] /\ acts \in Seq(Operation)
    BY <2>1, <2>2 DEF RequestFails, TypeInv
  <2>4. CASE n \in DOMAIN acts
    <3>1. acts[n] \in Operation
      BY <2>3, <2>4
    <3>2. state \in States
      BY <2>2, <3>1 DEF States, Operation
    <3>3. QED
      BY <2>3, <3>2, ActsSet
  <2>5. CASE n \notin DOMAIN acts
    <3>1. acts' = acts
      BY <2>3, <2>5
    <3>2. QED
      BY <2>3, <3>1
  <2>6. QED
    BY <2>4, <2>5
<1>5. QED
  BY <1>1, <1>2, <1>3, <1>4, LoginGrows, ConfigStays DEF TypeInv

LEMMA InitTypes == Init => TypeInv
<1> SUFFICES ASSUME Init PROVE TypeInv
  OBVIOUS
<1> USE DEF Init, BootstrapBoard, InitCommand
<1>1. PICK owner \in Rows, system \in Rows :
        /\ participants = <<owner, system>> /\ owner.kind = "human" /\ owner.owner = 0
        /\ owner.github = None /\ system.kind = "system" /\ system.owner = 0
  BY PersonType
<1>2. participants \in Seq(Rows) /\ DOMAIN participants = {1, 2}
      /\ participants[1] = owner /\ participants[2] = system
  BY <1>1
<1>3. Humans = {1} /\ Agents = {}
  BY <1>1, <1>2 DEF Humans, Agents
<1>4. PeopleInv
  BY <1>1, <1>2, <1>3 DEF PeopleInv
<1>5. LoginInv
  BY <1>3 DEF LoginInv, Idle
<1>6. ConfigOK(config)
  BY <1>3 DEF ConfigOK, Configs
<1>7. BoardInv
  <2>1. projects \in Seq(Nat) /\ DOMAIN projects = {1} /\ projects[1] = 1
    OBVIOUS
  <2>2. QED
    BY <1>3, <2>1 DEF BoardInv
<1>8. ReqInv
  BY DEF ReqInv
<1>9. acts \in Seq(Operation)
  OBVIOUS
<1>10. QED
  BY <1>4, <1>5, <1>6, <1>7, <1>8, <1>9 DEF TypeInv

LEMMA NextTypes == TypeInv /\ [Next]_vars => TypeInv'
<1> SUFFICES ASSUME TypeInv, [Next]_vars PROVE TypeInv'
  OBVIOUS
<1>1. ASSUME NEW c \in Client, WantIn(c) \/ \E a \in Attempt : StartLogin(a, c) PROVE TypeInv'
  BY <1>1, WaitTypes
<1>2. ASSUME NEW a \in Attempt, LoginStep(a) \/ Age(a) \/ StopListening(a) \/ LoginFails(a)
      PROVE  TypeInv'
  BY <1>2, LoginTypes, LandTypes, NamingTypes, RegisterTypes DEF LoginStep
<1>3. ASSUME NEW h \in Handler, Ask(h) \/ RequestStep(h) \/ RequestFails(h) PROVE TypeInv'
  BY <1>3, AskTypes, TellTypes, InsertTypes, RegisterAgentTypes, SaveTypes, FailTypes DEF RequestStep
<1>4. CASE \/ \E g \in Identity : LogOut(g)
           \/ LoginWithToken \/ RegisterByName
           \/ \E p \in DOMAIN projects : ProjectUse(p)
  BY <1>4, OtherTypes
<1>5. CASE PersonActs \/ AgentActs \/ Internal
  BY <1>5, DoTypes
<1>6. CASE UNCHANGED vars
  <2>1. UNCHANGED <<board, acts, req, config, people>>
    BY <1>6 DEF vars, board, people
  <2>2. Grown
    BY <2>1, BoardStays
  <2>3. QED
    BY <2>1, <2>2, LoginGrows, ConfigStays, Rest DEF TypeInv
<1>7. QED
  BY <1>1, <1>2, <1>3, <1>4, <1>5, <1>6 DEF Next

\* TypeInv is inductive: every table, login, request and the config file has
\* its type, and what they refer to is there.
THEOREM TypesHold == Spec => []TypeInv
<1>1. Init => TypeInv
  BY InitTypes
<1>2. TypeInv /\ [Next]_vars => TypeInv'
  BY NextTypes
<1>3. QED
  BY <1>1, <1>2, PTL DEF Spec

\* Every table, login and request has its type (schema.ts).
THEOREM TypeCorrect == Spec => []TypeOK
<1>1. TypeInv => TypeOK
  <2> SUFFICES ASSUME TypeInv PROVE TypeOK
    OBVIOUS
  <2>1. \A i \in DOMAIN participants :
          /\ participants[i].kind \in {"human", "agent", "system"}
          /\ participants[i].github \in Identity \cup {None}
    <3>1. \A i \in DOMAIN participants : participants[i] \in Rows
      BY DEF TypeInv, PeopleInv
    <3>2. QED
      BY <3>1 DEF Rows
  <2>2. \A n \in DOMAIN acts : acts[n].state \in States
    <3>1. \A n \in DOMAIN acts : acts[n] \in Operation
      BY DEF TypeInv
    <3>2. QED
      BY <3>1 DEF Operation
  <2>3. QED
    BY <2>1, <2>2 DEF TypeInv, PeopleInv, LoginInv, BoardInv, ConfigOK, TypeOK
<1>2. QED
  BY <1>1, TypesHold, PTL

-----------------------------------------------------------------------------
(* An identity keeps its account. *)

\* Nobody gets an identity or loses it.
Kept ==
  /\ Humans \subseteq Humans'
  /\ \A i \in Humans : participants'[i].github = participants[i].github
  /\ \A i \in Humans' \ Humans : participants'[i].github = None

LEMMA KeptAccounts ==
  ASSUME TypeInv, Kept
  PROVE  /\ \A g \in Identity : AccountOf(g)' = AccountOf(g)
         /\ FindUnboundSingleHuman' # {} => FindUnboundSingleHuman # {}
<1>1. None \notin Identity
  BY AccountsAssumption
<1>2. 1 \in Humans
  BY DEF TypeInv, PeopleInv
<1>3. \A g \in Identity : AccountOf(g)' = AccountOf(g)
  BY <1>1 DEF Kept, AccountOf, FindHumanByGithubUserId
<1>4. ASSUME NEW i \in FindUnboundSingleHuman' PROVE FindUnboundSingleHuman # {}
  <2>1. Humans' = {i} /\ participants'[i].github = None
    BY <1>4 DEF FindUnboundSingleHuman
  <2>2. Humans = {i} /\ i \in Humans
    BY <1>2, <2>1 DEF Kept
  <2>3. QED
    BY <2>1, <2>2 DEF Kept, FindUnboundSingleHuman
<1>5. QED
  BY <1>3, <1>4

LEMMA KeptStays == ASSUME UNCHANGED participants PROVE Kept
  BY DEF Kept, Humans

\* What no login does keeps the accounts, and so do the steps of a login but two.
LEMMA OthersKeep ==
  ASSUME TypeInv,
         \/ \E c \in Client : WantIn(c)
         \/ \E g \in Identity : LogOut(g)
         \/ LoginWithToken \/ RegisterByName
         \/ \E h \in Handler : Ask(h) \/ RequestStep(h) \/ RequestFails(h)
         \/ \E p \in DOMAIN projects : ProjectUse(p)
         \/ PersonActs \/ AgentActs \/ Internal
  PROVE  Kept /\ UNCHANGED login
<1>1. CASE RegisterByName
  <2>1. RegisterParticipant(Person("human", 0)) /\ UNCHANGED login
    BY <1>1 DEF RegisterByName, people
  <2>2. QED
    BY <2>1, NewPerson DEF Kept, Humans
<1>2. ASSUME NEW h \in Handler, Ask(h) PROVE Kept /\ UNCHANGED login
  <2>1. UNCHANGED login
    BY <1>2, AskBegins DEF people
  <2>2. CASE \E agent \in Agents : participants' = [participants EXCEPT ![agent].archived = TRUE]
    <3>1. Humans' = Humans /\ \A j \in DOMAIN participants : participants'[j].github = participants[j].github
      BY <2>2, Archived
    <3>2. QED
      BY <2>1, <3>1 DEF Kept, Humans
  <2>3. QED
    BY <1>2, <2>1, <2>2, AskBegins, KeptStays
<1>3. ASSUME NEW h \in Handler, RequestStep(h) \/ RequestFails(h) PROVE Kept /\ UNCHANGED login
  <2>1. UNCHANGED login
    BY <1>3 DEF RequestStep, RequestFails, InsertProject, TellCreated, Founding, LookMembership,
      InsertMembership, TellMembership, DeleteMembership, TellRemoved, TellChange,
      RegisterAgent, RevokeAgent, SaveConfig, Pages, people
  <2>2. CASE participants' # participants
    <3>1. /\ RegisterAgent(h) /\ participants' = Append(participants, Person("agent", req[h].by))
      BY <1>3, <2>2 DEF RequestStep, RequestFails, InsertProject, TellCreated, Founding,
        LookMembership, InsertMembership, TellMembership, DeleteMembership, TellRemoved,
        TellChange, RegisterAgent, RevokeAgent, SaveConfig, board
    <3>2. req[h].by \in Humans /\ req[h].by \in Nat
      <4>1. req[h].at # "idle"
        BY <3>1 DEF RegisterAgent, Does
      <4>2. QED
        BY <4>1, Asked DEF TypeInv, Looked, Requests
    <3>3. PICK row \in Rows : /\ row = Person("agent", req[h].by) /\ row.kind = "agent"
                              /\ row.owner = req[h].by
      BY <3>2, PersonType
    <3>4. /\ \A i \in DOMAIN participants : participants'[i] = participants[i]
          /\ DOMAIN participants' = DOMAIN participants \cup {Len(participants) + 1}
          /\ participants'[Len(participants) + 1] = row
      BY <3>1, <3>2, <3>3, Enrolled DEF TypeInv
    <3>5. Humans' = Humans
      BY <3>3, <3>4 DEF Humans
    <3>6. QED
      BY <2>1, <3>4, <3>5 DEF Kept, Humans
  <2>3. QED
    BY <2>1, <2>2, KeptStays
<1>4. CASE \/ \E c \in Client : WantIn(c)
           \/ \E g \in Identity : LogOut(g)
           \/ LoginWithToken
           \/ \E p \in DOMAIN projects : ProjectUse(p)
           \/ PersonActs \/ AgentActs \/ Internal
  <2>1. UNCHANGED <<participants, login>>
    BY <1>4 DEF WantIn, LogOut, LoginWithToken, ProjectUse, PersonActs, AgentActs, Internal, Do,
      board, people
  <2>2. QED
    BY <2>1, KeptStays
<1>5. QED
  BY <1>1, <1>2, <1>3, <1>4

LEMMA NameStays ==
  ASSUME TypeInv, NameInv, Kept, UNCHANGED login
  PROVE  NameInv'
<1>1. FindUnboundSingleHuman' # {} => FindUnboundSingleHuman # {}
  BY KeptAccounts
<1>2. \A a \in Attempt : login[a].at \in {"bind", "name"} => login[a].human \in Humans
  BY DEF TypeInv, LoginInv
<1>3. (\A a \in Attempt : Nameless(a))'
  BY <1>2 DEF NameInv, Nameless, Kept
<1>4. Apart'
  BY <1>1 DEF NameInv, Apart, MayBindFirst
<1>5. QED
  BY <1>3, <1>4 DEF NameInv

\* A login goes on, to l: only to bind the first account when it is alone, and
\* only to name an account that is new.
LEMMA NameSet ==
  ASSUME TypeInv, NameInv, Kept, NEW a \in Attempt, NEW l, login' = [login EXCEPT ![a] = l],
         \/ l.at \notin {"choose", "bind", "name"}
         \/ l.at = login[a].at /\ l.human = login[a].human
         \/ l.at = "choose" /\ (FindUnboundSingleHuman # {} => \A b \in Attempt : ~MayBindFirst(b))
         \/ l.at = "bind" /\ login[a].at = "choose" /\ l.human \in FindUnboundSingleHuman
         \/ l.at = "name" /\ l.human \in Humans' \ Humans
  PROVE  NameInv'
<1>1. \A b \in Attempt : login'[b] = IF b = a THEN l ELSE login[b]
  BY DEF TypeInv, LoginInv
<1>2. FindUnboundSingleHuman' # {} => FindUnboundSingleHuman # {}
  BY KeptAccounts
<1>3. \A b \in Attempt : login[b].at \in {"bind", "name"} => login[b].human \in Humans
  BY DEF TypeInv, LoginInv
<1>4. \A b \in Attempt : /\ login[b].at = "bind" => login[b].human = 1
                         /\ login[b].at = "name" => login[b].human # 1
                         /\ login[b].at \in {"bind", "name"} => participants[login[b].human].github = None
  BY DEF NameInv, Nameless
<1>5. \A b, c \in Attempt :
        /\ login[b].at \in {"bind", "name"} /\ login[c].at = login[b].at
             /\ login[b].human = login[c].human => b = c
        /\ FindUnboundSingleHuman # {} /\ login[b].at \in {"choose", "bind"}
             /\ login[c].at \in {"choose", "bind"} => b = c
  BY DEF NameInv, Apart, MayBindFirst
<1>6. 1 \in Humans
  BY DEF TypeInv, PeopleInv
<1>7. \A i \in FindUnboundSingleHuman : i = 1 /\ i \in Humans /\ participants[i].github = None
  BY <1>6 DEF FindUnboundSingleHuman
<1>8. (\A b \in Attempt : Nameless(b))'
  <2> SUFFICES ASSUME NEW b \in Attempt
               PROVE  /\ login'[b].at = "bind" => login'[b].human = 1
                      /\ login'[b].at = "name" => login'[b].human # 1
                      /\ login'[b].at \in {"bind", "name"} => participants'[login'[b].human].github = None
    BY DEF Nameless
  <2>1. CASE b # a \/ (l.at = login[a].at /\ l.human = login[a].human)
    BY <1>1, <1>3, <1>4, <2>1 DEF Kept
  <2>2. CASE b = a /\ ~(l.at = login[a].at /\ l.human = login[a].human)
    BY <1>1, <1>6, <1>7, <2>2 DEF Kept
  <2>3. QED
    BY <2>1, <2>2
<1>9. Apart'
  <2> SUFFICES ASSUME NEW b \in Attempt, NEW c \in Attempt, b # c
               PROVE  /\ ~(/\ login'[b].at \in {"bind", "name"} /\ login'[c].at = login'[b].at
                           /\ login'[b].human = login'[c].human)
                      /\ FindUnboundSingleHuman' # {} =>
                           ~(login'[b].at \in {"choose", "bind"} /\ login'[c].at \in {"choose", "bind"})
    BY DEF Apart, MayBindFirst
  <2>1. CASE (b # a /\ c # a) \/ (l.at = login[a].at /\ l.human = login[a].human)
    BY <1>1, <1>2, <1>5, <2>1
  <2>2. CASE l.at \notin {"choose", "bind", "name"}
    BY <1>1, <1>2, <1>5, <2>2
  <2>3. CASE l.at = "choose" /\ (FindUnboundSingleHuman # {} => \A e \in Attempt : ~MayBindFirst(e))
    BY <1>1, <1>2, <1>5, <2>3 DEF MayBindFirst
  <2>4. CASE l.at = "bind" /\ login[a].at = "choose" /\ l.human \in FindUnboundSingleHuman
    BY <1>1, <1>2, <1>5, <2>4
  <2>5. CASE l.at = "name" /\ l.human \in Humans' \ Humans
    BY <1>1, <1>2, <1>3, <1>5, <2>5
  <2>6. QED
    BY <2>1, <2>2, <2>3, <2>4, <2>5
<1>10. QED
  BY <1>8, <1>9 DEF NameInv

\* To name an account takes nobody's, and the next login still finds its own.
LEMMA Naming ==
  ASSUME TypeInv, NameInv, NEW a \in Attempt, BindGithubIdentity(a) \/ NameHuman(a)
  PROVE  /\ NameInv'
         /\ \A g \in Identity : AccountOf(g) # {} => AccountOf(g)' = AccountOf(g)
<1>1. login[a].at \in {"bind", "name"} /\ NameAccount(a, login[a].human)
  BY DEF BindGithubIdentity, NameHuman, At
<1>2. PICK i : i = login[a].human
  OBVIOUS
<1>3. PICK who : who = login[a].client.who
  OBVIOUS
<1>4. /\ i \in Humans /\ i \in DOMAIN participants /\ NameAccount(a, i)
      /\ login[a] # Idle /\ login[a] \in Logins /\ who \in Identity
  BY <1>1, <1>2, <1>3, Client2 DEF TypeInv, LoginInv, Humans
<1>5. CASE AccountOf(who) \ {i} = {}
  <2>1. participants' = [participants EXCEPT ![i].github = who] /\ Move(a, "issue", i)
    BY <1>3, <1>4, <1>5 DEF NameAccount
  <2>2. /\ Humans' = Humans
        /\ \A j \in DOMAIN participants :
             participants'[j].github = IF j = i THEN who ELSE participants[j].github
    BY <1>4, <2>1, NamedRow
  <2>3. None \notin Identity
    BY AccountsAssumption
  <2>4. participants[i].github = None
    BY <1>1, <1>2 DEF NameInv, Nameless
  <2>5. AccountOf(who) = {}
    BY <1>4, <1>5, <2>3, <2>4 DEF AccountOf, FindHumanByGithubUserId
  <2>6. ASSUME NEW g \in Identity, AccountOf(g) # {} PROVE AccountOf(g)' = AccountOf(g)
    <3>1. g # who
      BY <2>5, <2>6
    <3>2. \A j \in Humans : participants'[j].github = g <=> participants[j].github = g
      BY <2>2, <2>3, <2>4, <3>1 DEF Humans
    <3>3. QED
      BY <2>2, <3>2 DEF AccountOf, FindHumanByGithubUserId
  <2>7. PICK l : l = [login[a] EXCEPT !.at = "issue", !.human = i]
    OBVIOUS
  <2>8. l.at = "issue"
    BY <1>4, <2>7 DEF Logins
  <2>9. \A b \in Attempt : login'[b] = IF b = a THEN l ELSE login[b]
    BY <2>1, <2>7 DEF Move, TypeInv, LoginInv
  <2>10. FindUnboundSingleHuman' # {} => FindUnboundSingleHuman # {}
    BY <1>4, <2>2, <2>3 DEF FindUnboundSingleHuman, Humans
  <2>11. \A b \in Attempt : login[b].at \in {"bind", "name"} =>
           /\ login[b].human \in Humans
           /\ b # a => login[b].human # i
    BY <1>1, <1>2 DEF TypeInv, LoginInv, NameInv, Nameless, Apart
  <2>12. (\A b \in Attempt : Nameless(b))'
    BY <2>2, <2>8, <2>9, <2>11 DEF Nameless, NameInv, Humans
  <2>13. Apart'
    BY <2>8, <2>9, <2>10 DEF NameInv, Apart, MayBindFirst
  <2>14. QED
    BY <2>6, <2>12, <2>13 DEF NameInv
<1>6. CASE AccountOf(who) \ {i} # {}
  <2>1. UNCHANGED participants /\ Drop(a)
    BY <1>3, <1>4, <1>6 DEF NameAccount
  <2>2. Kept
    BY <2>1, KeptStays
  <2>3. PICK l : l = Idle
    OBVIOUS
  <2>4. login' = [login EXCEPT ![a] = l] /\ l.at = "idle"
    BY <2>1, <2>3 DEF Drop, Idle
  <2>5. QED
    BY <2>2, <2>4, KeptAccounts, NameSet
<1>7. QED
  BY <1>5, <1>6

LEMMA LoginNames ==
  ASSUME FirstAlone, TypeInv, NameInv, NEW a \in Attempt,
         \/ \E c \in Client : StartLogin(a, c)
         \/ Callback(a) \/ Identify(a) \/ Choose(a) \/ RegisterHuman(a) \/ IssueIdentityToken(a)
         \/ LandInBrowser(a) \/ LandInShell(a)
         \/ Age(a) \/ StopListening(a) \/ LoginFails(a)
  PROVE  NameInv' /\ Kept
<1>1. Idle.at = "idle"
  BY DEF Idle
<1>2. CASE RegisterHuman(a)
  <2>1. /\ login[a].at = "register" /\ RegisterParticipant(Person("human", 0))
        /\ Move(a, "name", Len(participants) + 1)
    BY <1>2 DEF RegisterHuman, At
  <2>2. Kept /\ Len(participants) + 1 \in Humans' \ Humans
    BY <2>1, NewPerson DEF Kept, Humans
  <2>3. PICK i : i = Len(participants) + 1
    OBVIOUS
  <2>4. PICK l : l = [login[a] EXCEPT !.at = "name", !.human = i]
    OBVIOUS
  <2>5. login[a] \in Logins
    BY <2>1, Client2
  <2>6. l.at = "name" /\ l.human = i
    BY <2>4, <2>5 DEF Logins
  <2>7. login' = [login EXCEPT ![a] = l]
    BY <2>1, <2>3, <2>4 DEF Move
  <2>8. QED
    BY <2>2, <2>3, <2>6, <2>7, NameSet
<1>3. CASE ~RegisterHuman(a)
  <2>1. UNCHANGED participants
    BY <1>3 DEF StartLogin, Callback, Identify, Choose, IssueIdentityToken, LandInBrowser,
      LandInShell, Age, StopListening, LoginFails, board
  <2>2. Kept
    BY <2>1, KeptStays
  <2>3. Drop(a) => NameInv'
    <3>1. PICK l : l = Idle
      OBVIOUS
    <3>2. Drop(a) => login' = [login EXCEPT ![a] = l]
      BY <3>1 DEF Drop
    <3>3. l.at = "idle"
      BY <1>1, <3>1
    <3>4. QED
      BY <2>2, <3>2, <3>3, NameSet
  <2>4. ASSUME NEW step \in {"identify", "choose", "bind", "register", "issue", "land"}, NEW i,
               login[a].at # "idle", Move(a, step, i),
               step = "choose" => (FindUnboundSingleHuman # {} => \A b \in Attempt : ~MayBindFirst(b)),
               step = "bind" => login[a].at = "choose" /\ i \in FindUnboundSingleHuman
        PROVE  NameInv'
    <3>1. PICK l : l = [login[a] EXCEPT !.at = step, !.human = i]
      OBVIOUS
    <3>2. login[a] \in Logins
      BY <2>4, Client2
    <3>3. l.at = step /\ l.human = i
      BY <3>1, <3>2 DEF Logins
    <3>4. login' = [login EXCEPT ![a] = l]
      BY <2>4, <3>1 DEF Move
    <3>5. QED
      BY <2>2, <2>4, <3>3, <3>4, NameSet
  <2>5. CASE \E c \in Client : StartLogin(a, c)
    <3>1. PICK c : login' = [login EXCEPT ![a] =
             [at |-> "github", client |-> c, human |-> 0, fresh |-> TRUE, listens |-> TRUE]]
      BY <2>5 DEF StartLogin
    <3>2. PICK l : l = [at |-> "github", client |-> c, human |-> 0, fresh |-> TRUE, listens |-> TRUE]
      OBVIOUS
    <3>3. l.at = "github" /\ login' = [login EXCEPT ![a] = l]
      BY <3>1, <3>2
    <3>4. QED
      BY <2>2, <3>3, NameSet
  <2>6. CASE Callback(a)
    <3>1. login[a].at # "idle" /\ (Move(a, "identify", 0) \/ Drop(a))
      BY <2>6 DEF Callback, At
    <3>2. QED
      BY <2>2, <2>3, <2>4, <3>1
  <2>7. CASE Identify(a)
    <3>1. /\ login[a].at # "idle"
          /\ FindUnboundSingleHuman # {} => \A b \in Attempt : ~MayBindFirst(b)
          /\ Move(a, "choose", 0) \/ \E i : Move(a, "issue", i)
      BY <2>7 DEF Identify, At
    <3>2. QED
      BY <2>2, <2>4, <3>1
  <2>8. CASE Choose(a)
    <3>1. /\ login[a].at = "choose"
          /\ Move(a, "register", 0) \/ \E i \in FindUnboundSingleHuman : Move(a, "bind", i)
      BY <2>8 DEF Choose, At
    <3>2. QED
      BY <2>2, <2>4, <3>1
  <2>9. CASE IssueIdentityToken(a)
    <3>1. login[a].at # "idle" /\ \E i : Move(a, "land", i)
      BY <2>9 DEF IssueIdentityToken, At
    <3>2. QED
      BY <2>2, <2>4, <3>1
  <2>10. CASE LandInBrowser(a) \/ LandInShell(a) \/ LoginFails(a)
    BY <2>2, <2>3, <2>10 DEF LandInBrowser, LandInShell, LoginFails
  <2>11. CASE Age(a) \/ StopListening(a)
    <3>1. login[a] \in Logins
      BY <1>1, <2>11, Landing DEF Age, At, StopListening, TypeInv
    <3>2. PICK l : /\ l.at = login[a].at /\ l.human = login[a].human
                   /\ login' = [login EXCEPT ![a] = l]
      <4>1. CASE Age(a)
        <5>1. PICK l : l = [login[a] EXCEPT !.fresh = FALSE]
          OBVIOUS
        <5>2. l.at = login[a].at /\ l.human = login[a].human
          BY <3>1, <5>1 DEF Logins
        <5>3. QED
          BY <4>1, <5>1, <5>2 DEF Age
      <4>2. CASE StopListening(a)
        <5>1. PICK l : l = [login[a] EXCEPT !.listens = FALSE]
          OBVIOUS
        <5>2. l.at = login[a].at /\ l.human = login[a].human
          BY <3>1, <5>1 DEF Logins
        <5>3. QED
          BY <4>2, <5>1, <5>2 DEF StopListening
      <4>3. QED
        BY <2>11, <4>1, <4>2
    <3>3. QED
      BY <2>2, <3>2, NameSet
  <2>12. QED
    BY <1>3, <2>2, <2>5, <2>6, <2>7, <2>8, <2>9, <2>10, <2>11
<1>4. QED
  BY <1>2, <1>3

LEMMA NextNames ==
  ASSUME FirstAlone, TypeInv, NameInv, [Next]_vars
  PROVE  NameInv' /\ \A g \in Identity : AccountOf(g) # {} => AccountOf(g)' = AccountOf(g)
<1>1. ASSUME NEW a \in Attempt, BindGithubIdentity(a) \/ NameHuman(a)
      PROVE  NameInv' /\ \A g \in Identity : AccountOf(g) # {} => AccountOf(g)' = AccountOf(g)
  BY <1>1, Naming
<1>2. ASSUME NEW a \in Attempt,
             \/ \E c \in Client : StartLogin(a, c)
             \/ Callback(a) \/ Identify(a) \/ Choose(a) \/ RegisterHuman(a) \/ IssueIdentityToken(a)
             \/ LandInBrowser(a) \/ LandInShell(a)
             \/ Age(a) \/ StopListening(a) \/ LoginFails(a)
      PROVE  NameInv' /\ Kept
  BY <1>2, LoginNames
<1>3. CASE \/ \E c \in Client : WantIn(c)
           \/ \E g \in Identity : LogOut(g)
           \/ LoginWithToken \/ RegisterByName
           \/ \E h \in Handler : Ask(h) \/ RequestStep(h) \/ RequestFails(h)
           \/ \E p \in DOMAIN projects : ProjectUse(p)
           \/ PersonActs \/ AgentActs \/ Internal
  <2>1. Kept /\ UNCHANGED login
    BY <1>3, OthersKeep
  <2>2. QED
    BY <2>1, NameStays, KeptAccounts
<1>4. CASE UNCHANGED vars
  <2>1. Kept /\ UNCHANGED login
    BY <1>4, KeptStays DEF vars
  <2>2. QED
    BY <2>1, NameStays, KeptAccounts
<1>5. QED
  BY <1>1, <1>2, <1>3, <1>4, KeptAccounts DEF Next, LoginStep

\* As long as no login overlaps the one that may bind the first account, a
\* GitHub user that has an account keeps it (the callback of
\* github-auth-routes.ts): an account is named only while no identity has it,
\* and no two logins have the same one in hand.
THEOREM IdentityKept == ASSUME FirstAlone PROVE Spec => IdentityKeepsItsAccount
<1>1. Init => NameInv
  BY DEF Init, NameInv, Nameless, Apart, MayBindFirst, Idle
<1>2. TypeInv /\ NameInv /\ [Next]_vars
        => NameInv' /\ [\A g \in Identity : AccountOf(g) # {} => AccountOf(g)' = AccountOf(g)]_vars
  BY NextNames
<1>3. QED
  BY <1>1, <1>2, TypesHold, PTL DEF Spec, IdentityKeepsItsAccount

-----------------------------------------------------------------------------
(* What is done is told once. *)

LEMMA LoudEvent ==
  ASSUME NEW project \in Nat \cup {None}, NEW kind \in DASHBOARD_ACTIVITY_KINDS \ {"work_released"},
         NEW actor \in Nat \cup {None}, NEW about \in Nat \cup {None}, NEW act \in Nat,
         NEW e, e = Event(project, kind, actor, about, None, None, act)
  PROVE  e \in Events /\ e.project = project /\ e.actor = actor /\ e.act = act /\ Loud(e)
  BY DEF Event, Events, Loud, Telling, Kinds, Reasons

LEMMA QuietEvent ==
  ASSUME NEW project \in Nat \cup {None}, NEW kind \in DASHBOARD_ACTIVITY_KINDS,
         NEW actor \in Nat \cup {None}, NEW about \in Nat \cup {None}, NEW act \in Nat,
         NEW cause \in DASHBOARD_ACTIVITY_KINDS,
         NEW e, e = Event(project, kind, actor, about, cause, None, act)
  PROVE  e \in Events /\ ~Loud(e)
  BY FeedConstants DEF Event, Events, Loud, Telling, Kinds, Reasons

LEMMA EventsAppended ==
  ASSUME EventsInv, NEW s \in Seq(Events), events' = events \o s
  PROVE  /\ events' \in Seq(Events)
         /\ \A x \in DOMAIN events : x \in DOMAIN events' /\ events'[x] = events[x]
         /\ \A y \in DOMAIN s : \E x \in DOMAIN events' :
              x \notin DOMAIN events /\ events'[x] = s[y]
         /\ \A x \in DOMAIN events' : x \notin DOMAIN events =>
              \E y \in DOMAIN s : x = Len(events) + y /\ events'[x] = s[y]
<1>1. events \in Seq(Events) /\ Len(events) \in Nat /\ Len(s) \in Nat
  BY DEF EventsInv
<1>2. /\ events' \in Seq(Events) /\ DOMAIN events' = 1 .. Len(events) + Len(s)
      /\ DOMAIN events = 1 .. Len(events) /\ DOMAIN s = 1 .. Len(s)
      /\ \A x \in 1 .. Len(events) + Len(s) :
           events'[x] = IF x <= Len(events) THEN events[x] ELSE s[x - Len(events)]
  BY <1>1
<1>3. \A x \in DOMAIN events : x \in DOMAIN events' /\ events'[x] = events[x]
  BY <1>1, <1>2
<1>4. ASSUME NEW y \in DOMAIN s
      PROVE  \E x \in DOMAIN events' : x \notin DOMAIN events /\ events'[x] = s[y]
  <2>1. Len(events) + y \in DOMAIN events' /\ Len(events) + y \notin DOMAIN events
        /\ events'[Len(events) + y] = s[y]
    BY <1>1, <1>2
  <2>2. QED
    BY <2>1
<1>5. ASSUME NEW x \in DOMAIN events', x \notin DOMAIN events
      PROVE  \E y \in DOMAIN s : x = Len(events) + y /\ events'[x] = s[y]
  <2>1. x - Len(events) \in DOMAIN s /\ x = Len(events) + (x - Len(events))
        /\ events'[x] = s[x - Len(events)]
    BY <1>1, <1>2, <1>5
  <2>2. QED
    BY <2>1
<1>6. QED
  BY <1>2, <1>3, <1>4, <1>5

\* Events are added, of which at most one tells, of an operation not told before.
LEMMA EventsGrow ==
  ASSUME EventsInv, NEW s \in Seq(Events), events' = events \o s,
         \A k \in 0 .. Len(acts) : k \in 0 .. Len(acts'),
         \A y \in DOMAIN s : s[y].act \in 0 .. Len(acts'),
         \A y, z \in DOMAIN s : Loud(s[y]) /\ Loud(s[z]) => y = z,
         \A y \in DOMAIN s : Loud(s[y]) => Silent(s[y].act)
  PROVE  /\ EventsInv'
         /\ \A k : Silent(k) /\ (\A y \in DOMAIN s : Loud(s[y]) => s[y].act # k) => Silent(k)'
         /\ \A k : Told(k) /\ acts'[k].by = acts[k].by /\ acts'[k].project = acts[k].project => Told(k)'
         /\ \A y \in DOMAIN s : \A k :
              /\ Loud(s[y]) /\ s[y].act = k
              /\ s[y].actor = acts'[k].by /\ s[y].project = acts'[k].project
              => Told(k)'
<1>1. /\ events' \in Seq(Events)
      /\ \A x \in DOMAIN events : x \in DOMAIN events' /\ events'[x] = events[x]
      /\ \A y \in DOMAIN s : \E x \in DOMAIN events' :
           x \notin DOMAIN events /\ events'[x] = s[y]
      /\ \A x \in DOMAIN events' : x \notin DOMAIN events =>
           \E y \in DOMAIN s : x = Len(events) + y /\ events'[x] = s[y]
  BY EventsAppended
<1>2. \A x \in DOMAIN events' : events'[x].act \in 0 .. Len(acts')
  BY <1>1 DEF EventsInv
<1>3. ASSUME NEW x \in DOMAIN events', NEW y \in DOMAIN events',
             Loud(events'[x]), Loud(events'[y]), events'[x].act = events'[y].act, events'[x].act # 0
      PROVE  x = y
  <2>1. CASE x \in DOMAIN events /\ y \in DOMAIN events
    BY <1>1, <1>3, <2>1 DEF EventsInv, Tells
  <2>2. CASE x \in DOMAIN events /\ y \notin DOMAIN events
    <3>1. PICK z \in DOMAIN s : events'[y] = s[z]
      BY <1>1, <2>2
    <3>2. events'[x] = events[x] /\ Silent(s[z].act)
      BY <1>1, <1>3, <2>2, <3>1
    <3>3. QED
      BY <1>3, <2>2, <3>1, <3>2 DEF Silent, Tells
  <2>3. CASE x \notin DOMAIN events /\ y \in DOMAIN events
    <3>1. PICK z \in DOMAIN s : events'[x] = s[z]
      BY <1>1, <2>3
    <3>2. events'[y] = events[y] /\ Silent(s[z].act)
      BY <1>1, <1>3, <2>3, <3>1
    <3>3. QED
      BY <1>3, <2>3, <3>1, <3>2 DEF Silent, Tells
  <2>4. CASE x \notin DOMAIN events /\ y \notin DOMAIN events
    <3>1. PICK u \in DOMAIN s : x = Len(events) + u /\ events'[x] = s[u]
      BY <1>1, <2>4
    <3>2. PICK v \in DOMAIN s : y = Len(events) + v /\ events'[y] = s[v]
      BY <1>1, <2>4
    <3>3. u = v
      BY <1>3, <3>1, <3>2
    <3>4. QED
      BY <3>1, <3>2, <3>3
  <2>5. QED
    BY <2>1, <2>2, <2>3, <2>4
<1>4. EventsInv'
  BY <1>1, <1>2, <1>3 DEF EventsInv, Tells
<1>5. ASSUME NEW k, Silent(k), \A y \in DOMAIN s : Loud(s[y]) => s[y].act # k PROVE Silent(k)'
  <2>1. \A x \in DOMAIN events' : Loud(events'[x]) => events'[x].act # k
    BY <1>1, <1>5 DEF Silent, Tells
  <2>2. QED
    BY <2>1 DEF Silent, Tells
<1>6. ASSUME NEW k, Told(k), acts'[k].by = acts[k].by, acts'[k].project = acts[k].project PROVE Told(k)'
  <2>1. PICK x \in DOMAIN events :
          /\ Loud(events[x]) /\ events[x].act = k
          /\ events[x].actor = acts[k].by /\ events[x].project = acts[k].project
    BY <1>6 DEF Told, Tells
  <2>2. x \in DOMAIN events' /\ events'[x] = events[x]
    BY <1>1
  <2>3. \E z \in DOMAIN events' :
          /\ Loud(events'[z]) /\ events'[z].act = k
          /\ events'[z].actor = acts'[k].by /\ events'[z].project = acts'[k].project
    BY <1>6, <2>1, <2>2
  <2>4. QED
    BY <2>3 DEF Told, Tells
<1>7. ASSUME NEW y \in DOMAIN s, NEW k, Loud(s[y]), s[y].act = k,
             s[y].actor = acts'[k].by, s[y].project = acts'[k].project
      PROVE  Told(k)'
  <2>1. PICK x \in DOMAIN events' : events'[x] = s[y]
    BY <1>1
  <2>2. \E z \in DOMAIN events' :
          /\ Loud(events'[z]) /\ events'[z].act = k
          /\ events'[z].actor = acts'[k].by /\ events'[z].project = acts'[k].project
    BY <1>7, <2>1
  <2>3. QED
    BY <2>2 DEF Told, Tells
<1>8. QED
  BY <1>4, <1>5, <1>6, <1>7

\* The request h of the operation n goes on, to r, and adds the events s, one of
\* which may tell of it: what it has yet to tell, and not what it told.
Continues(h, n, r, s) ==
  /\ n = req[h].act /\ s \in Seq(Events)
  /\ req' = [req EXCEPT ![h] = r] /\ events' = events \o s
  /\ acts' \in Seq(Operation) /\ Len(acts') = Len(acts)
  /\ \A k \in DOMAIN acts :
       /\ acts'[k].by = acts[k].by
       /\ k # n => acts'[k].project = acts[k].project /\ acts'[k].state = acts[k].state
  /\ acts'[n].project = acts[n].project \/ r.at = "look"
  /\ \/ r = Idle
     \/ /\ r.act = n /\ r.by = req[h].by /\ r.project = acts'[n].project
        /\ acts'[n].state = IF r.at = "save" THEN "done" ELSE "open"
  /\ r.at \in Untold \cup {"founding"} => req[h].at \in Untold
  /\ \A y \in DOMAIN s : s[y].act = n
  /\ \A y, z \in DOMAIN s : Loud(s[y]) /\ Loud(s[z]) => y = z
  /\ \A y \in DOMAIN s : Loud(s[y]) =>
       /\ req[h].at \in Untold /\ r.at \notin Untold
       /\ s[y].actor = req[h].by /\ s[y].project = req[h].project
  /\ r.at = "founding" \/ (acts'[n].state = "done" /\ acts'[n].project # None) =>
       (\E y \in DOMAIN s : Loud(s[y])) \/ req[h].at \in {"founding", "save"}

LEMMA GoesOn ==
  ASSUME TypeInv, LinkInv, FeedInv, NEW h \in Handler, req[h] # Idle,
         NEW n, NEW r, NEW s, Continues(h, n, r, s)
  PROVE  LinkInv' /\ FeedInv'
<1> USE DEF Continues
<1>1. \A k \in Handler : req'[k] = IF k = h THEN r ELSE req[k]
  BY DEF TypeInv, ReqInv
<1>2. /\ acts \in Seq(Operation) /\ n \in DOMAIN acts
      /\ acts[n].by = req[h].by /\ acts[n].project = req[h].project
      /\ acts[n].state = IF req[h].at = "save" THEN "done" ELSE "open"
  BY DEF TypeInv, LinkInv
<1>3. DOMAIN acts' = DOMAIN acts /\ DOMAIN acts = 1 .. Len(acts) /\ Len(acts) \in Nat
  BY <1>2
<1>4. LinkInv'
  <2>1. \A k \in Handler : req[k] # Idle =>
          /\ req[k].act \in DOMAIN acts
          /\ acts[req[k].act].by = req[k].by /\ acts[req[k].act].project = req[k].project
          /\ acts[req[k].act].state = IF req[k].at = "save" THEN "done" ELSE "open"
          /\ k # h => req[k].act # n
    BY DEF LinkInv
  <2>2. \A k \in Handler : req'[k] # Idle =>
          /\ req'[k].act \in DOMAIN acts'
          /\ acts'[req'[k].act].by = req'[k].by /\ acts'[req'[k].act].project = req'[k].project
          /\ acts'[req'[k].act].state = IF req'[k].at = "save" THEN "done" ELSE "open"
    <3> SUFFICES ASSUME NEW k \in Handler, req'[k] # Idle
                 PROVE  /\ req'[k].act \in DOMAIN acts'
                        /\ acts'[req'[k].act].by = req'[k].by
                        /\ acts'[req'[k].act].project = req'[k].project
                        /\ acts'[req'[k].act].state = IF req'[k].at = "save" THEN "done" ELSE "open"
      OBVIOUS
    <3>1. CASE k = h
      BY <1>1, <1>2, <1>3, <3>1
    <3>2. CASE k # h
      <4>1. PICK j : j = req[k].act
        OBVIOUS
      <4>2. req'[k] = req[k] /\ j \in DOMAIN acts /\ j # n
        BY <1>1, <2>1, <3>2, <4>1
      <4>3. acts'[j].by = acts[j].by /\ acts'[j].project = acts[j].project /\ acts'[j].state = acts[j].state
        BY <4>2
      <4>4. QED
        BY <1>3, <2>1, <4>1, <4>2, <4>3
    <3>3. QED
      BY <3>1, <3>2
  <2>3. \A k, j \in Handler :
          req'[k] # Idle /\ req'[j] # Idle /\ req'[k].act = req'[j].act => k = j
    BY <1>1, <2>1 DEF LinkInv
  <2>4. QED
    BY <2>2, <2>3 DEF LinkInv
<1>5. \A k \in 0 .. Len(acts) : k \in 0 .. Len(acts')
  OBVIOUS
<1>6. \A y \in DOMAIN s : s[y].act \in 0 .. Len(acts')
  BY <1>2, <1>3
<1>7. req[h].at \in Untold => Silent(n)
  BY DEF FeedInv, ToldInv
<1>8. /\ EventsInv'
      /\ \A k : Silent(k) /\ (\A y \in DOMAIN s : Loud(s[y]) => s[y].act # k) => Silent(k)'
      /\ \A k : Told(k) /\ acts'[k].by = acts[k].by /\ acts'[k].project = acts[k].project => Told(k)'
      /\ \A y \in DOMAIN s : \A k :
           /\ Loud(s[y]) /\ s[y].act = k
           /\ s[y].actor = acts'[k].by /\ s[y].project = acts'[k].project
           => Told(k)'
  <2>1. \A y \in DOMAIN s : Loud(s[y]) => Silent(s[y].act)
    <3> SUFFICES ASSUME NEW y \in DOMAIN s, Loud(s[y]) PROVE Silent(s[y].act)
      OBVIOUS
    <3>1. s[y].act = n /\ Silent(n)
      BY <1>7
    <3>2. QED
      BY <3>1 DEF Silent
  <2>2. QED
    BY <1>5, <1>6, <2>1, EventsGrow DEF FeedInv
<1>9. \A k \in Handler : k # h /\ req[k].at \in Untold \cup {"founding"} =>
        req[k] # Idle /\ req[k].act \in DOMAIN acts /\ req[k].act # n
  BY DEF LinkInv, Idle, Untold
<1>10. r.at = "founding" \/ (acts'[n].state = "done" /\ acts'[n].project # None) => Told(n)'
  <2> SUFFICES ASSUME r.at = "founding" \/ (acts'[n].state = "done" /\ acts'[n].project # None)
               PROVE  Told(n)'
    OBVIOUS
  <2>1. acts'[n].project = acts[n].project /\ acts'[n].by = acts[n].by
    BY <1>2 DEF Idle
  <2>2. CASE \E y \in DOMAIN s : Loud(s[y])
    <3>1. PICK y \in DOMAIN s : Loud(s[y])
      BY <2>2
    <3>2. s[y].act = n /\ s[y].actor = acts'[n].by /\ s[y].project = acts'[n].project
      BY <1>2, <2>1, <3>1
    <3>3. QED
      BY <1>8, <3>1, <3>2
  <2>3. CASE req[h].at = "founding"
    <3>1. Told(n)
      BY <2>3 DEF FeedInv, ToldInv
    <3>2. QED
      BY <1>8, <2>1, <3>1
  <2>4. CASE req[h].at = "save"
    <3>1. acts[n].state = "done" /\ acts[n].project # None
      BY <1>2, <2>1, <2>4 DEF Untold
    <3>2. Told(n)
      BY <1>2, <3>1 DEF FeedInv, ToldInv
    <3>3. QED
      BY <1>8, <2>1, <3>2
  <2>5. QED
    BY <2>2, <2>3, <2>4
<1>11. ToldInv'
  <2>1. ASSUME NEW k \in Handler
        PROVE  (/\ req[k].at \in Untold => Silent(req[k].act)
                /\ req[k].at = "founding" => Told(req[k].act))'
    <3>1. PICK j : j = req'[k].act
      OBVIOUS
    <3>2. CASE k = h
      <4>1. req'[k] = r
        BY <1>1, <3>2
      <4>2. r.at \in Untold => Silent(j)'
        <5>1. SUFFICES ASSUME r.at \in Untold PROVE Silent(n)'
          BY <3>1, <4>1 DEF Idle, Untold
        <5>2. QED
          BY <1>7, <1>8, <5>1
      <4>3. r.at = "founding" => Told(j)'
        BY <1>10, <3>1, <4>1 DEF Idle
      <4>4. QED
        BY <3>1, <4>1, <4>2, <4>3 DEF Silent, Told
    <3>3. CASE k # h
      <4>1. req'[k] = req[k] /\ j = req[k].act
        BY <1>1, <3>1, <3>3
      <4>2. req[k].at \in Untold => Silent(j)'
        BY <1>8, <1>9, <3>3, <4>1 DEF FeedInv, ToldInv
      <4>3. req[k].at = "founding" => Told(j)'
        BY <1>8, <1>9, <3>3, <4>1 DEF FeedInv, ToldInv
      <4>4. QED
        BY <3>1, <4>1, <4>2, <4>3 DEF Silent, Told
    <3>4. QED
      BY <3>2, <3>3
  <2>2. ASSUME NEW k \in DOMAIN acts', acts'[k].state = "done", acts'[k].project # None
        PROVE  Told(k)'
    <3>1. CASE k = n
      BY <1>10, <2>2, <3>1
    <3>2. CASE k # n
      <4>1. Told(k)
        BY <1>3, <2>2, <3>2 DEF FeedInv, ToldInv
      <4>2. QED
        BY <1>3, <1>8, <3>2, <4>1
    <3>3. QED
      BY <3>1, <3>2
  <2>3. (\A k \in Handler :
           /\ req[k].at \in Untold => Silent(req[k].act)
           /\ req[k].at = "founding" => Told(req[k].act))'
    BY <2>1
  <2>4. (\A k \in DOMAIN acts : acts[k].state = "done" /\ acts[k].project # None => Told(k))'
    BY <2>2
  <2>5. QED
    BY <2>3, <2>4 DEF ToldInv
<1>12. QED
  BY <1>4, <1>8, <1>11 DEF FeedInv

LEMMA NoneAdded ==
  ASSUME EventsInv
  PROVE  /\ events = events \o << >> /\ << >> \in Seq(Events)
         /\ \A y \in DOMAIN << >> : FALSE
  BY DEF EventsInv

LEMMA OneAdded ==
  ASSUME EventsInv, NEW e \in Events
  PROVE  /\ Append(events, e) = events \o <<e>> /\ <<e>> \in Seq(Events)
         /\ DOMAIN <<e>> = {1} /\ <<e>>[1] = e
  BY DEF EventsInv

\* The last step of a request, and one before.
LEMMA AnswerTells ==
  ASSUME TypeInv, LinkInv, FeedInv, NEW h \in Handler, req[h] # Idle,
         NEW state \in States, NEW keeps \in BOOLEAN, Answer(h, state, keeps),
         keeps => state = "done", NEW s \in Seq(Events), events' = events \o s,
         \A y \in DOMAIN s : s[y].act = req[h].act,
         \A y, z \in DOMAIN s : Loud(s[y]) /\ Loud(s[z]) => y = z,
         \A y \in DOMAIN s : Loud(s[y]) =>
           req[h].at \in Untold /\ s[y].actor = req[h].by /\ s[y].project = req[h].project,
         state = "done" /\ req[h].project # None =>
           (\E y \in DOMAIN s : Loud(s[y])) \/ req[h].at = "founding"
  PROVE  LinkInv' /\ FeedInv'
<1>1. PICK n : n = req[h].act
  OBVIOUS
<1>2. PICK r : r = IF keeps /\ req[h].config # None THEN [req[h] EXCEPT !.at = "save"] ELSE Idle
  OBVIOUS
<1>3. req[h] \in Requests
  BY Asked DEF TypeInv
<1>4. \/ r = Idle /\ r.at = "idle"
      \/ /\ keeps /\ r.at = "save" /\ r.act = req[h].act /\ r.by = req[h].by
         /\ r.project = req[h].project
  BY <1>2, <1>3 DEF Requests, Idle
<1>5. req' = [req EXCEPT ![h] = r] /\ acts' = [acts EXCEPT ![n].state = state]
  BY <1>1, <1>2 DEF Answer
<1>6. /\ acts \in Seq(Operation) /\ n \in DOMAIN acts
      /\ acts[n].by = req[h].by /\ acts[n].project = req[h].project
  BY <1>1 DEF TypeInv, LinkInv
<1>7. /\ acts' \in Seq(Operation) /\ Len(acts') = Len(acts)
      /\ \A k \in DOMAIN acts :
           /\ acts'[k].by = acts[k].by /\ acts'[k].project = acts[k].project
           /\ acts'[k].state = IF k = n THEN state ELSE acts[k].state
  BY <1>5, <1>6, ActsSet
<1>8. r.at \notin Untold /\ r.at \notin {"look", "founding"}
  BY <1>4 DEF Untold
<1>9. /\ acts'[n].project = acts[n].project /\ acts'[n].state = state
  BY <1>6, <1>7
<1>10. \/ r = Idle
       \/ /\ r.act = n /\ r.by = req[h].by /\ r.project = acts'[n].project
          /\ acts'[n].state = IF r.at = "save" THEN "done" ELSE "open"
  BY <1>1, <1>4, <1>6, <1>9
<1>11. r.at = "founding" \/ (acts'[n].state = "done" /\ acts'[n].project # None) =>
         (\E y \in DOMAIN s : Loud(s[y])) \/ req[h].at \in {"founding", "save"}
  BY <1>6, <1>8, <1>9
<1>12. Continues(h, n, r, s)
  BY <1>1, <1>5, <1>7, <1>8, <1>9, <1>10, <1>11 DEF Continues, Untold
<1>13. QED
  BY <1>12, GoesOn

LEMMA GotoTells ==
  ASSUME TypeInv, LinkInv, FeedInv, NEW h \in Handler, req[h].at \in Untold,
         NEW at \in {"insert", "told", "created", "founding", "removed"}, Goto(h, at),
         NEW s \in Seq(Events), events' = events \o s,
         \A y \in DOMAIN s : s[y].act = req[h].act,
         \A y, z \in DOMAIN s : Loud(s[y]) /\ Loud(s[z]) => y = z,
         \A y \in DOMAIN s : Loud(s[y]) =>
           at = "founding" /\ s[y].actor = req[h].by /\ s[y].project = req[h].project,
         at = "founding" => \E y \in DOMAIN s : Loud(s[y])
  PROVE  LinkInv' /\ FeedInv'
<1>1. PICK n : n = req[h].act
  OBVIOUS
<1>2. PICK r : r = [req[h] EXCEPT !.at = at]
  OBVIOUS
<1>3. req[h] \in Requests /\ req[h] # Idle
  BY Asked DEF TypeInv, Untold
<1>4. r.at = at /\ r.act = req[h].act /\ r.by = req[h].by /\ r.project = req[h].project
  BY <1>2, <1>3 DEF Requests
<1>5. req' = [req EXCEPT ![h] = r] /\ acts' = acts
  BY <1>2 DEF Goto
<1>6. /\ acts \in Seq(Operation) /\ n \in DOMAIN acts
      /\ acts[n].by = req[h].by /\ acts[n].project = req[h].project /\ acts[n].state = "open"
  BY <1>1, <1>3 DEF TypeInv, LinkInv, Untold
<1>7. /\ acts' \in Seq(Operation) /\ Len(acts') = Len(acts)
      /\ \A k \in DOMAIN acts :
           /\ acts'[k].by = acts[k].by
           /\ k # n => acts'[k].project = acts[k].project /\ acts'[k].state = acts[k].state
      /\ acts'[n].project = acts[n].project /\ acts'[n].state = "open"
  BY <1>5, <1>6
<1>8. /\ r.act = n /\ r.by = req[h].by /\ r.project = acts'[n].project
      /\ acts'[n].state = IF r.at = "save" THEN "done" ELSE "open"
  BY <1>1, <1>4, <1>6, <1>7
<1>9. r.at = "founding" <=> r.at \notin Untold
  BY <1>4 DEF Untold
<1>10. r.at = "founding" \/ (acts'[n].state = "done" /\ acts'[n].project # None) =>
         (\E y \in DOMAIN s : Loud(s[y])) \/ req[h].at \in {"founding", "save"}
  BY <1>4, <1>7
<1>11. \A y \in DOMAIN s : Loud(s[y]) =>
         /\ req[h].at \in Untold /\ r.at \notin Untold
         /\ s[y].actor = req[h].by /\ s[y].project = req[h].project
  BY <1>4, <1>9
<1>12. Continues(h, n, r, s)
  BY <1>1, <1>5, <1>7, <1>8, <1>9, <1>10, <1>11 DEF Continues, Untold
<1>13. QED
  BY <1>12, GoesOn, <1>3

LEMMA TellFeed ==
  ASSUME TypeInv, LinkInv, FeedInv, NEW h \in Handler,
         \/ TellCreated(h) \/ Founding(h) \/ LookMembership(h) \/ InsertMembership(h)
         \/ TellMembership(h) \/ DeleteMembership(h) \/ TellRemoved(h) \/ TellChange(h)
         \/ RevokeAgent(h)
  PROVE  LinkInv' /\ FeedInv'
<1>1. req[h].at # "idle"
  BY DEF TellCreated, Founding, LookMembership, InsertMembership, TellMembership,
         DeleteMembership, TellRemoved, TellChange, RevokeAgent, Does
<1>2. req[h] \in Requests /\ Looked(req[h]) /\ req[h] # Idle
  BY <1>1, Asked DEF TypeInv
<1>3. PICK by, p, about, act : by = req[h].by /\ p = req[h].project /\ about = req[h].about
         /\ act = req[h].act
  OBVIOUS
<1>4. by \in Nat /\ p \in Nat \cup {None} /\ about \in Nat \cup {None} /\ act \in Nat
  BY <1>2, <1>3 DEF Requests
<1>5. /\ EventsInv /\ None \notin DASHBOARD_ACTIVITY_KINDS
  BY FeedConstants DEF FeedInv
<1>0. PICK added \in DASHBOARD_ACTIVITY_KINDS, thread \in DASHBOARD_ACTIVITY_KINDS,
           proposal \in DASHBOARD_ACTIVITY_KINDS, created \in DASHBOARD_ACTIVITY_KINDS :
        /\ added = "project_membership_added" /\ thread = "thread_created"
        /\ proposal = "proposal_added" /\ created = "project_created"
  BY DEF DASHBOARD_ACTIVITY_KINDS
\* nothing is told
<1>6. ASSUME events' = events, NEW state \in States \ {"done"}, Answer(h, state, FALSE)
      PROVE  LinkInv' /\ FeedInv'
  BY <1>2, <1>5, <1>6, NoneAdded, AnswerTells
<1>7. ASSUME events' = events, req[h].at \in Untold, NEW at \in {"insert", "told", "removed"}, Goto(h, at)
      PROVE  LinkInv' /\ FeedInv'
  BY <1>2, <1>5, <1>7, NoneAdded, GotoTells
\* one event tells it
<1>8. ASSUME NEW kind \in DASHBOARD_ACTIVITY_KINDS \ {"work_released"},
             NEW whom \in Nat \cup {None}, req[h].at \in Untold,
             Tell(h, req[h].project, kind, whom, None),
             Answer(h, "done", FALSE) \/ Goto(h, "founding")
      PROVE  LinkInv' /\ FeedInv'
  <2>1. PICK e : e = Event(p, kind, by, whom, None, None, act)
    OBVIOUS
  <2>3. e \in Events /\ e.project = p /\ e.actor = by /\ e.act = act /\ Loud(e)
    BY <1>4, <1>8, <2>1, LoudEvent
  <2>4. PICK s : s = <<e>>
    OBVIOUS
  <2>5. events' = events \o s /\ s \in Seq(Events) /\ DOMAIN s = {1} /\ s[1] = e
    BY <1>3, <1>5, <1>8, <2>1, <2>3, <2>4, OneAdded DEF Tell
  <2>6. /\ \A y \in DOMAIN s : s[y].act = req[h].act
        /\ \A y, z \in DOMAIN s : Loud(s[y]) /\ Loud(s[z]) => y = z
        /\ \A y \in DOMAIN s : Loud(s[y]) =>
             req[h].at \in Untold /\ s[y].actor = req[h].by /\ s[y].project = req[h].project
        /\ \E y \in DOMAIN s : Loud(s[y])
    BY <1>3, <1>8, <2>3, <2>5
  <2>7. CASE Answer(h, "done", FALSE)
    <3>1. PICK state \in States : state = "done"
      BY DEF States
    <3>2. PICK keeps \in BOOLEAN : keeps = FALSE
      OBVIOUS
    <3>3. Answer(h, state, keeps)
      BY <2>7, <3>1, <3>2
    <3>4. QED
      BY <1>2, <2>5, <2>6, <3>2, <3>3, AnswerTells
  <2>8. CASE Goto(h, "founding")
    <3>1. PICK at \in {"insert", "told", "created", "founding", "removed"} : at = "founding"
      OBVIOUS
    <3>2. Goto(h, at)
      BY <2>8, <3>1
    <3>3. QED
      BY <1>8, <2>5, <2>6, <3>1, <3>2, GotoTells
  <2>9. QED
    BY <1>8, <2>7, <2>8
<1>9. CASE TellCreated(h)
  <2>1. Tell(h, req[h].project, "project_created", None, None) /\ Goto(h, "founding")
        /\ req[h].at \in Untold
    BY <1>9 DEF TellCreated, Does, Untold
  <2>2. QED
    BY <1>8, <2>1 DEF DASHBOARD_ACTIVITY_KINDS
<1>10. CASE Founding(h)
  <2>0. PICK state \in States, keeps \in BOOLEAN : state = "done" /\ keeps = TRUE
    BY DEF States
  <2>1. req[h].at = "founding" /\ Answer(h, state, keeps)
    BY <1>10, <2>0 DEF Founding, Does
  <2>2. CASE events' = events
    BY <1>2, <1>5, <2>0, <2>1, <2>2, NoneAdded, AnswerTells
  <2>3. CASE events' # events
    <3>1. PICK e, f : /\ e = Event(p, thread, by, None, created, None, act)
                      /\ f = Event(p, proposal, by, None, created, None, act)
      OBVIOUS
    <3>2. e \in Events /\ f \in Events /\ ~Loud(e) /\ ~Loud(f)
      BY <1>4, <3>1, QuietEvent
    <3> e.act = act /\ f.act = act
      BY <3>1 DEF Event
    <3>3. PICK s : s = <<e, f>>
      OBVIOUS
    <3>4. s \in Seq(Events) /\ \A y \in DOMAIN s : s[y] = e \/ s[y] = f
      BY <3>2, <3>3
    <3>5. events' = events \o s
      BY <1>0, <1>3, <1>10, <2>3, <3>1, <3>3 DEF Founding
    <3>6. \A y \in DOMAIN s : ~Loud(s[y]) /\ s[y].act = req[h].act
      BY <1>3, <3>2, <3>4
    <3>7. \A y, z \in DOMAIN s : Loud(s[y]) /\ Loud(s[z]) => y = z
      BY <3>6
    <3>8. \A y \in DOMAIN s : Loud(s[y]) =>
            req[h].at \in Untold /\ s[y].actor = req[h].by /\ s[y].project = req[h].project
      BY <3>6
    <3>9. QED
      BY <1>2, <2>0, <2>1, <3>4, <3>5, <3>6, <3>7, <3>8, AnswerTells
  <2>4. QED
    BY <2>2, <2>3
<1>11. CASE LookMembership(h)
  <2>1. events' = events /\ req[h].at \in Untold /\ (Answer(h, "nothing", FALSE) \/ Goto(h, "insert"))
    BY <1>11 DEF LookMembership, Does, Untold, board
  <2>2. QED
    BY <1>6, <1>7, <2>1 DEF States
<1>12. CASE InsertMembership(h)
  <2>1. events' = events /\ req[h].at \in Untold /\ (Answer(h, "failed", FALSE) \/ Goto(h, "told"))
    BY <1>12 DEF InsertMembership, Does, Untold
  <2>2. QED
    BY <1>6, <1>7, <2>1 DEF States
<1>13. CASE TellMembership(h)
  <2>1. req[h].at \in Untold /\ req[h].about \in Nat \cup {None}
    BY <1>3, <1>4, <1>13 DEF TellMembership, Does, Untold
  <2>2. CASE req[h].op = "createProject"
    <3>1. Tell(h, req[h].project, "project_membership_added", req[h].about, "project_created")
          /\ Goto(h, "created")
      BY <1>13, <2>2 DEF TellMembership
    <3>2. PICK e : e = Event(p, added, by, about, created, None, act)
      OBVIOUS
    <3>3. e \in Events /\ ~Loud(e)
      BY <1>4, <3>2, QuietEvent
    <3>4. PICK s : s = <<e>>
      OBVIOUS
    <3>5. events' = events \o s /\ s \in Seq(Events) /\ DOMAIN s = {1} /\ s[1] = e
      BY <1>0, <1>3, <1>5, <3>1, <3>2, <3>3, <3>4, OneAdded DEF Tell
    <3>6. \A y \in DOMAIN s : ~Loud(s[y]) /\ s[y].act = req[h].act
      BY <1>3, <3>2, <3>3, <3>5 DEF Event
    <3>7. QED
      BY <2>1, <3>1, <3>5, <3>6, GotoTells
  <2>3. CASE req[h].op # "createProject"
    <3>1. Tell(h, req[h].project, "project_membership_added", req[h].about, None)
          /\ Answer(h, "done", FALSE)
      BY <1>13, <2>3 DEF TellMembership
    <3>2. QED
      BY <1>8, <2>1, <3>1 DEF DASHBOARD_ACTIVITY_KINDS
  <2>4. QED
    BY <2>2, <2>3
<1>14. CASE DeleteMembership(h)
  <2>1. events' = events /\ req[h].at \in Untold /\ (Answer(h, "failed", FALSE) \/ Goto(h, "removed"))
    BY <1>14 DEF DeleteMembership, Does, Untold
  <2>2. QED
    BY <1>6, <1>7, <2>1 DEF States
<1>15. CASE TellRemoved(h)
  <2>1. Tell(h, req[h].project, "project_membership_removed", req[h].about, None)
        /\ Answer(h, "done", FALSE) /\ req[h].at \in Untold
    BY <1>15 DEF TellRemoved, Does, Untold
  <2>2. QED
    BY <1>3, <1>4, <1>8, <2>1 DEF DASHBOARD_ACTIVITY_KINDS
<1>16. CASE TellChange(h)
  <2>1. Tell(h, req[h].project, req[h].op, None, None)
        /\ Answer(h, "done", FALSE) /\ req[h].at \in Untold
        /\ req[h].op \in {"project_updated", "project_invite_created"}
    BY <1>2, <1>16 DEF TellChange, Does, Untold, Looked
  <2>2. PICK kind : kind = req[h].op
    OBVIOUS
  <2>3. kind \in DASHBOARD_ACTIVITY_KINDS \ {"work_released"} /\ Tell(h, req[h].project, kind, None, None)
    BY <2>1, <2>2 DEF DASHBOARD_ACTIVITY_KINDS
  <2>4. QED
    BY <1>8, <2>1, <2>3
<1>17. CASE RevokeAgent(h)
  <2>1. events' = events /\ Answer(h, "done", FALSE) /\ req[h].project = None
    BY <1>2, <1>17 DEF RevokeAgent, Does, Looked
  <2>2. QED
    BY <1>2, <1>5, <2>1, NoneAdded, AnswerTells DEF States
<1>18. QED
  BY <1>9, <1>10, <1>11, <1>12, <1>13, <1>14, <1>15, <1>16, <1>17

LEMMA InsertFeed ==
  ASSUME TypeInv, LinkInv, FeedInv, NEW h \in Handler, InsertProject(h)
  PROVE  LinkInv' /\ FeedInv'
<1>1. PICK p, n : p = Len(projects) + 1 /\ n = req[h].act
  OBVIOUS
<1>2. PICK r : r = [req[h] EXCEPT !.at = "look", !.project = p]
  OBVIOUS
<1>3. /\ req[h].at = "project" /\ events' = events
      /\ req' = [req EXCEPT ![h] = r] /\ acts' = [acts EXCEPT ![n].project = p]
  BY <1>1, <1>2 DEF InsertProject, Does
<1>4. req[h] \in Requests /\ req[h] # Idle /\ p \in Nat
  BY <1>1, <1>3, Asked DEF TypeInv, BoardInv
<1>5. r.at = "look" /\ r.act = n /\ r.by = req[h].by /\ r.project = p
  BY <1>1, <1>2, <1>4 DEF Requests
<1>6. acts \in Seq(Operation) /\ n \in DOMAIN acts /\ acts[n].state = "open"
  BY <1>1, <1>3, <1>4 DEF TypeInv, LinkInv
<1>7. /\ acts' \in Seq(Operation) /\ Len(acts') = Len(acts)
      /\ \A k \in DOMAIN acts :
           /\ acts'[k].by = acts[k].by /\ acts'[k].state = acts[k].state
           /\ acts'[k].project = IF k = n THEN p ELSE acts[k].project
  BY <1>3, <1>4, <1>6, ActsPlace
<1>8. acts'[n].project = p /\ acts'[n].state = "open"
  BY <1>6, <1>7
<1>9. events' = events \o << >> /\ << >> \in Seq(Events) /\ \A y \in DOMAIN << >> : FALSE
  BY <1>3, NoneAdded DEF FeedInv
<1>10. PICK s : s = << >>
  OBVIOUS
<1>11. Continues(h, n, r, s)
  BY <1>1, <1>3, <1>5, <1>7, <1>8, <1>9, <1>10 DEF Continues, Untold
<1>12. QED
  BY <1>4, <1>11, GoesOn

LEMMA RegisterAgentFeed ==
  ASSUME ~Roles, TypeInv, LinkInv, FeedInv, NEW h \in Handler, RegisterAgent(h)
  PROVE  LinkInv' /\ FeedInv'
<1>1. PICK n, p, by, i : /\ n = req[h].act /\ p = req[h].project /\ by = req[h].by
                         /\ i = Len(participants) + 1
  OBVIOUS
<1>2. req[h].at = "register"
  BY DEF RegisterAgent, Does
<1>3. req[h] \in Requests /\ req[h] # Idle
  BY <1>2, Asked DEF TypeInv
<1>4. n \in Nat /\ p \in Nat \cup {None} /\ by \in Nat /\ i \in Nat
  BY <1>1, <1>3 DEF Requests, TypeInv, PeopleInv
<1>5. CASE IsProjectMember(p, by)
  <2>1. PICK r : r = IF req[h].config # None THEN [req[h] EXCEPT !.at = "save", !.about = i] ELSE Idle
    OBVIOUS
  <2>2. PICK e : e = Event(p, "project_membership_added", by, i, None, None, n)
    OBVIOUS
  <2>3. PICK kind \in DASHBOARD_ACTIVITY_KINDS \ {"work_released"} : kind = "project_membership_added"
    BY DEF DASHBOARD_ACTIVITY_KINDS
  <2>4. e \in Events /\ e.project = p /\ e.actor = by /\ e.act = n /\ Loud(e)
    <3>1. e = Event(p, kind, by, i, None, None, n)
      BY <2>2, <2>3
    <3>2. QED
      BY <1>4, <3>1, LoudEvent
  <2>5. PICK s : s = <<e>>
    OBVIOUS
  <2>6. s \in Seq(Events) /\ DOMAIN s = {1} /\ s[1] = e /\ s \o << >> = s
    BY <2>4, <2>5
  <2>7. /\ req' = [req EXCEPT ![h] = r] /\ acts' = [acts EXCEPT ![n].state = "done"]
        /\ events' = events \o s
    <3>1. events' = (events \o s) \o << >>
      BY <1>1, <1>5, <2>2, <2>5 DEF RegisterAgent
    <3>2. (events \o s) \o << >> = events \o s
      BY <2>6 DEF FeedInv, EventsInv
    <3>3. QED
      BY <1>1, <1>5, <2>1, <3>1, <3>2 DEF RegisterAgent
  <2>8. \/ r = Idle /\ r.at = "idle"
        \/ r.at = "save" /\ r.act = n /\ r.by = by /\ r.project = p
    BY <1>1, <1>3, <2>1 DEF Requests, Idle
  <2>9. /\ acts \in Seq(Operation) /\ n \in DOMAIN acts
        /\ acts[n].by = req[h].by /\ acts[n].project = req[h].project
    BY <1>1, <1>3 DEF TypeInv, LinkInv
  <2>10. PICK state \in States : state = "done"
    BY DEF States
  <2>11. /\ acts' \in Seq(Operation) /\ Len(acts') = Len(acts)
         /\ \A k \in DOMAIN acts :
              /\ acts'[k].by = acts[k].by /\ acts'[k].project = acts[k].project
              /\ acts'[k].state = IF k = n THEN state ELSE acts[k].state
    BY <2>7, <2>9, <2>10, ActsSet
  <2>12. acts'[n].project = p /\ acts'[n].project = acts[n].project /\ acts'[n].state = "done"
    BY <1>1, <2>9, <2>10, <2>11
  <2>13. Continues(h, n, r, s)
    BY <1>1, <1>2, <2>4, <2>6, <2>7, <2>8, <2>11, <2>12 DEF Continues, Untold
  <2>14. QED
    BY <1>3, <2>13, GoesOn
<1>6. CASE ~IsProjectMember(p, by)
  <2>1. Answer(h, "failed", FALSE) /\ events' = events
    BY <1>1, <1>6 DEF RegisterAgent
  <2>2. EventsInv
    BY DEF FeedInv
  <2>3. QED
    BY <1>3, <2>1, <2>2, NoneAdded, AnswerTells DEF States
<1>7. QED
  BY <1>5, <1>6

LEMMA EndFeed ==
  ASSUME TypeInv, LinkInv, FeedInv, NEW h \in Handler, SaveConfig(h) \/ RequestFails(h)
  PROVE  LinkInv' /\ FeedInv'
<1>1. PICK n, r, s : n = req[h].act /\ r = Idle /\ s = << >>
  OBVIOUS
<1>2. req[h] # Idle /\ req' = [req EXCEPT ![h] = r] /\ events' = events
  BY <1>1 DEF SaveConfig, RequestFails, Does, Idle, board
<1>3. r.at = "idle"
  BY <1>1 DEF Idle
<1>4. acts \in Seq(Operation) /\ n \in DOMAIN acts /\ acts[n] \in Operation
      /\ acts[n].state = IF req[h].at = "save" THEN "done" ELSE "open"
  BY <1>1, <1>2 DEF TypeInv, LinkInv
<1>5. events' = events \o s /\ s \in Seq(Events) /\ \A y \in DOMAIN s : FALSE
  BY <1>1, <1>2, NoneAdded DEF FeedInv
<1>6. /\ acts' \in Seq(Operation) /\ Len(acts') = Len(acts)
      /\ \A k \in DOMAIN acts :
           /\ acts'[k].by = acts[k].by /\ acts'[k].project = acts[k].project
           /\ k # n => acts'[k].state = acts[k].state
      /\ acts'[n].state = "done" => acts[n].state = "done"
  <2>1. CASE SaveConfig(h)
    <3>1. acts' = acts
      BY <2>1 DEF SaveConfig
    <3>2. QED
      BY <1>4, <3>1
  <2>2. CASE RequestFails(h)
    <3>1. PICK state : state = IF acts[n].state = "open" THEN "failed" ELSE acts[n].state
      OBVIOUS
    <3>2. state \in States /\ (state = "done" => acts[n].state = "done")
      BY <1>4, <3>1 DEF States, Operation
    <3>3. acts' = [acts EXCEPT ![n].state = state]
      BY <1>1, <2>2, <3>1 DEF RequestFails
    <3>4. /\ acts' \in Seq(Operation) /\ Len(acts') = Len(acts)
          /\ \A k \in DOMAIN acts :
               /\ acts'[k].by = acts[k].by /\ acts'[k].project = acts[k].project
               /\ acts'[k].state = IF k = n THEN state ELSE acts[k].state
      BY <1>4, <3>2, <3>3, ActsSet
    <3>5. acts'[n].state = state
      BY <1>4, <3>4
    <3>6. QED
      BY <3>2, <3>4, <3>5
  <2>3. QED
    BY <2>1, <2>2
<1>7. acts'[n].project = acts[n].project
  BY <1>4, <1>6
<1>8. acts'[n].state = "done" => req[h].at = "save"
  BY <1>4, <1>6
<1>9. Continues(h, n, r, s)
  BY <1>1, <1>2, <1>3, <1>5, <1>6, <1>7, <1>8 DEF Continues, Untold
<1>10. QED
  BY <1>2, <1>9, GoesOn

LEMMA AskFeed ==
  ASSUME TypeInv, LinkInv, FeedInv, NEW h \in Handler, Ask(h)
  PROVE  LinkInv' /\ FeedInv'
<1>1. PICK op, at, asker, p, about :
        Startable(op, at, asker.id, p, about) /\ Begin(h, op, at, asker, p, about)
  BY AskBegins
<1>2. events' = events
  BY AskBegins
<1>3. PICK n : n = Len(acts) + 1
  OBVIOUS
<1>4. PICK r : r = [at |-> at, op |-> op, by |-> asker.id, project |-> p, about |-> about,
                    act |-> n, config |-> IF asker.by = "cli" THEN config ELSE None]
  OBVIOUS
<1>5. PICK o : o = [by |-> asker.id, project |-> p, state |-> "open"]
  OBVIOUS
<1>6. /\ req' = [req EXCEPT ![h] = r] /\ acts' = Append(acts, o) /\ req[h] = Idle
  BY <1>1, <1>3, <1>4, <1>5 DEF Begin, FirstIdle
<1>7. /\ r.at = at /\ r.by = asker.id /\ r.project = p /\ r.act = n /\ at \in Untold /\ at # "save"
  BY <1>1, <1>4 DEF Startable, Untold
<1>8. acts \in Seq(Operation) /\ o \in Operation
  BY <1>1, <1>5 DEF TypeInv, Operation, Startable, States
<1>9. /\ DOMAIN acts' = DOMAIN acts \cup {n} /\ n \notin DOMAIN acts /\ acts'[n] = o
      /\ \A k \in DOMAIN acts : acts'[k] = acts[k]
      /\ DOMAIN acts = 1 .. Len(acts) /\ Len(acts) \in Nat /\ Len(acts') = n
  BY <1>3, <1>6, <1>8
<1>10. \A k \in Handler : req'[k] = IF k = h THEN r ELSE req[k]
  BY <1>6 DEF TypeInv, ReqInv
<1>11. \A k \in Handler : req[k] # Idle => req[k].act \in DOMAIN acts /\ req[k].act # n
  BY <1>9 DEF LinkInv
<1>12. LinkInv'
  <2>1. \A k \in Handler : req'[k] # Idle =>
          /\ req'[k].act \in DOMAIN acts'
          /\ acts'[req'[k].act].by = req'[k].by /\ acts'[req'[k].act].project = req'[k].project
          /\ acts'[req'[k].act].state = IF req'[k].at = "save" THEN "done" ELSE "open"
    <3> SUFFICES ASSUME NEW k \in Handler, req'[k] # Idle
                 PROVE  /\ req'[k].act \in DOMAIN acts'
                        /\ acts'[req'[k].act].by = req'[k].by
                        /\ acts'[req'[k].act].project = req'[k].project
                        /\ acts'[req'[k].act].state = IF req'[k].at = "save" THEN "done" ELSE "open"
      OBVIOUS
    <3>1. CASE k = h
      BY <1>5, <1>7, <1>9, <1>10, <3>1
    <3>2. CASE k # h
      <4>1. req'[k] = req[k] /\ req[k].act \in DOMAIN acts
        BY <1>10, <1>11, <3>2
      <4>2. QED
        BY <1>9, <4>1 DEF LinkInv
    <3>3. QED
      BY <3>1, <3>2
  <2>2. \A k, j \in Handler :
          req'[k] # Idle /\ req'[j] # Idle /\ req'[k].act = req'[j].act => k = j
    BY <1>7, <1>10, <1>11 DEF LinkInv
  <2>3. QED
    BY <2>1, <2>2 DEF LinkInv
<1>13. PICK s : s = << >>
  OBVIOUS
<1>14. events' = events \o s /\ s \in Seq(Events) /\ \A y \in DOMAIN s : FALSE
  BY <1>2, <1>13, NoneAdded DEF FeedInv
<1>15. \A k \in 0 .. Len(acts) : k \in 0 .. Len(acts')
  BY <1>3, <1>9
<1>16. /\ EventsInv'
       /\ \A k : Silent(k) => Silent(k)'
       /\ \A k : Told(k) /\ acts'[k].by = acts[k].by /\ acts'[k].project = acts[k].project => Told(k)'
  BY <1>14, <1>15, EventsGrow DEF FeedInv
<1>17. Silent(n)'
  <2>1. \A x \in DOMAIN events : events[x].act # n
    BY <1>3, <1>9 DEF FeedInv, EventsInv
  <2>2. QED
    BY <1>2, <2>1 DEF Silent
<1>18. (\A k \in Handler :
          /\ req[k].at \in Untold => Silent(req[k].act)
          /\ req[k].at = "founding" => Told(req[k].act))'
  <2> SUFFICES ASSUME NEW k \in Handler
               PROVE  (/\ req[k].at \in Untold => Silent(req[k].act)
                       /\ req[k].at = "founding" => Told(req[k].act))'
    OBVIOUS
  <2>1. PICK j : j = req'[k].act
    OBVIOUS
  <2>2. CASE k = h
    <3>1. req'[k].at \in Untold /\ req'[k].at # "founding" /\ j = n
      BY <1>7, <1>10, <2>1, <2>2 DEF Untold
    <3>2. QED
      BY <1>17, <2>1, <3>1 DEF Silent
  <2>3. CASE k # h
    <3>1. req'[k] = req[k] /\ j = req[k].act
      BY <1>10, <2>1, <2>3
    <3>2. req[k].at \in Untold => Silent(j)'
      BY <1>16, <3>1 DEF FeedInv, ToldInv
    <3>3. req[k].at = "founding" => Told(j)'
      <4> SUFFICES ASSUME req[k].at = "founding" PROVE Told(j)'
        OBVIOUS
      <4>1. Told(j) /\ j \in DOMAIN acts
        BY <1>11, <3>1 DEF FeedInv, ToldInv, Idle
      <4>2. QED
        BY <1>9, <1>16, <4>1
    <3>4. QED
      BY <2>1, <3>1, <3>2, <3>3 DEF Silent, Told
  <2>4. QED
    BY <2>2, <2>3
<1>19. (\A k \in DOMAIN acts : acts[k].state = "done" /\ acts[k].project # None => Told(k))'
  <2> SUFFICES ASSUME NEW k \in DOMAIN acts', acts'[k].state = "done", acts'[k].project # None
               PROVE  Told(k)'
    OBVIOUS
  <2>1. k # n
    BY <1>5, <1>9
  <2>2. k \in DOMAIN acts /\ acts'[k] = acts[k]
    BY <1>9, <2>1
  <2>3. Told(k)
    BY <2>2 DEF FeedInv, ToldInv
  <2>4. QED
    BY <1>16, <2>2, <2>3
<1>20. QED
  BY <1>12, <1>16, <1>18, <1>19 DEF FeedInv, ToldInv

\* The events s tell once of the operation n.
TellsOnce(s, by, p, n) ==
  /\ s \in Seq(Events)
  /\ \A y \in DOMAIN s : s[y].act = n
  /\ \A y, z \in DOMAIN s : Loud(s[y]) /\ Loud(s[z]) => y = z
  /\ \E y \in DOMAIN s : Loud(s[y]) /\ s[y].actor = by /\ s[y].project = p

\* Every deed leaves one event that tells of it, and others that are its consequences.
LEMMA DeedTells ==
  ASSUME NEW deed \in Deeds, NEW by \in Nat, NEW p \in Nat, NEW n \in Nat
  PROVE  TellsOnce(DeedEvents(deed, by, p, n), by, p, n)
<1> PICK s : s = DeedEvents(deed, by, p, n)
  OBVIOUS
<1> SUFFICES TellsOnce(s, by, p, n)
  OBVIOUS
<1> USE DEF TellsOnce
<1>1. PICK claimed \in DASHBOARD_ACTIVITY_KINDS : claimed = "work_claimed" /\ claimed # None
  BY FeedConstants DEF DASHBOARD_ACTIVITY_KINDS
<1>2. ASSUME NEW kind \in DASHBOARD_ACTIVITY_KINDS, NEW reason \in Reasons, NEW e,
             kind = "work_released" => reason = "released",
             e = Event(p, kind, by, None, None, reason, n), s = <<e>>
      PROVE  TellsOnce(s, by, p, n)
  <2>1. e \in Events /\ e.act = n /\ e.actor = by /\ e.project = p /\ Loud(e)
    BY <1>2 DEF Event, Events, Loud, Telling, Kinds
  <2>2. s \in Seq(Events) /\ DOMAIN s = {1} /\ s[1] = e
    BY <1>2, <2>1
  <2>3. QED
    BY <2>1, <2>2
<1>3. CASE deed = "claim"
  <2>1. PICK e, f : /\ e = Event(p, "post_added", by, None, claimed, None, n)
                    /\ f = Event(p, "work_claimed", by, None, None, None, n)
    OBVIOUS
  <2>2. s = <<e, f>>
    BY <1>1, <1>3, <2>1 DEF DeedEvents
  <2>3. /\ e \in Events /\ f \in Events /\ e.act = n /\ f.act = n /\ f.actor = by /\ f.project = p
        /\ ~Loud(e) /\ Loud(f)
    BY <1>1, <2>1 DEF Event, Events, Loud, Telling, Kinds, Reasons, DASHBOARD_ACTIVITY_KINDS
  <2>4. s \in Seq(Events) /\ DOMAIN s = {1, 2} /\ s[1] = e /\ s[2] = f
    BY <2>2, <2>3
  <2>5. QED
    BY <2>3, <2>4
<1>4. CASE deed = "release"
  <2>1. PICK e : e = Event(p, "work_released", by, None, None, "released", n)
    OBVIOUS
  <2>2. PICK kind \in DASHBOARD_ACTIVITY_KINDS, reason \in Reasons :
          kind = "work_released" /\ reason = "released"
    BY DEF DASHBOARD_ACTIVITY_KINDS, Reasons
  <2>3. s = <<e>> /\ e = Event(p, kind, by, None, None, reason, n)
    BY <1>4, <2>1, <2>2 DEF DeedEvents
  <2>4. QED
    BY <1>2, <2>2, <2>3
<1>5. CASE deed = "complete"
  <2>1. PICK e, f, g : /\ e = Event(p, "thread_declaration", by, None, None, None, n)
                       /\ f = Event(p, "state_changed", by, None, None, None, n)
                       /\ g = Event(p, "work_released", by, None, None, "thread_closed", n)
    OBVIOUS
  <2>2. s = <<e, f, g>>
    BY <1>5, <2>1 DEF DeedEvents
  <2>3. e \in Events /\ e.act = n /\ e.actor = by /\ e.project = p /\ Loud(e)
    BY <2>1 DEF Event, Events, Loud, Telling, Kinds, Reasons, DASHBOARD_ACTIVITY_KINDS
  <2>4. f \in Events /\ f.act = n /\ ~Loud(f)
    BY <2>1 DEF Event, Events, Loud, Telling, Kinds, Reasons, DASHBOARD_ACTIVITY_KINDS
  <2>5. g \in Events /\ g.act = n /\ ~Loud(g)
    BY <2>1 DEF Event, Events, Loud, Telling, Kinds, Reasons, DASHBOARD_ACTIVITY_KINDS
  <2>6. s \in Seq(Events) /\ DOMAIN s = {1, 2, 3} /\ s[1] = e /\ s[2] = f /\ s[3] = g
    BY <2>2, <2>3, <2>4, <2>5
  <2>7. QED
    BY <2>3, <2>4, <2>5, <2>6
<1>6. CASE deed = "goals"
  <2>1. PICK e : e = Event(p, "goals_set", by, None, None, None, n)
    OBVIOUS
  <2>2. PICK kind \in DASHBOARD_ACTIVITY_KINDS, reason \in Reasons :
          kind = "goals_set" /\ reason = None
    BY DEF DASHBOARD_ACTIVITY_KINDS, Reasons
  <2>3. s = <<e>> /\ e = Event(p, kind, by, None, None, reason, n)
    BY <1>6, <2>1, <2>2 DEF DeedEvents
  <2>4. QED
    BY <1>2, <2>2, <2>3
<1>7. CASE deed = "interrupt"
  <2>1. PICK e : e = Event(p, "session_interrupted", by, None, None, None, n)
    OBVIOUS
  <2>2. PICK kind \in DASHBOARD_ACTIVITY_KINDS, reason \in Reasons :
          kind = "session_interrupted" /\ reason = None
    BY DEF DASHBOARD_ACTIVITY_KINDS, Reasons
  <2>3. s = <<e>> /\ e = Event(p, kind, by, None, None, reason, n)
    BY <1>7, <2>1, <2>2 DEF DeedEvents
  <2>4. QED
    BY <1>2, <2>2, <2>3
<1>8. QED
  BY <1>3, <1>4, <1>5, <1>6, <1>7, AccountsAssumption

LEMMA DoFeed ==
  ASSUME TypeInv, LinkInv, FeedInv, PersonActs \/ AgentActs
  PROVE  LinkInv' /\ FeedInv'
<1>1. members \subseteq (DOMAIN projects) \X (Humans \cup Agents) /\ DOMAIN projects \subseteq Nat
  BY DEF TypeInv, BoardInv
<1>2. PICK by \in Nat, p \in Nat, deed \in Deeds : Do(by, p, deed)
  <2>1. CASE PersonActs
    <3>1. PICK a \in Asker, deed \in Deeds : \E p \in RequireProjectMember(a.id) : Do(a.id, p, deed)
      BY <2>1 DEF PersonActs
    <3>2. PICK p \in RequireProjectMember(a.id) : Do(a.id, p, deed)
      BY <3>1
    <3>3. p \in Nat
      BY <1>1, <3>2 DEF RequireProjectMember, ResolveHumanProjectId, IsProjectMember
    <3>4. PICK by : by = a.id
      OBVIOUS
    <3>5. by \in Nat /\ Do(by, p, deed)
      BY <3>2, <3>4, AskerType
    <3>6. QED
      BY <3>3, <3>5
  <2>2. CASE AgentActs
    <3>1. PICK i \in Agents, deed \in Deeds, named \in 0 .. Len(projects), focus \in 0 .. Len(projects) :
            \E p \in ResolveAgentToolProjectId(i, named, focus) : Do(i, p, deed)
      BY <2>2 DEF AgentActs
    <3>2. PICK p \in ResolveAgentToolProjectId(i, named, focus) : Do(i, p, deed)
      BY <3>1
    <3>3. p \in Nat /\ i \in Nat
      BY <1>1, <3>2, Numbers DEF ResolveAgentToolProjectId, IsProjectMember, TypeInv
    <3>4. QED
      BY <3>2, <3>3
  <2>3. QED
    BY <2>1, <2>2
<1>3. PICK n, o : n = Len(acts) + 1 /\ o = [by |-> by, project |-> p, state |-> "done"]
  OBVIOUS
<1>4. PICK s : s = DeedEvents(deed, by, p, n)
  OBVIOUS
<1>5. events' = events \o s /\ acts' = Append(acts, o) /\ req' = req
  BY <1>2, <1>3, <1>4 DEF Do
<1>6. acts \in Seq(Operation) /\ o \in Operation /\ n \in Nat
  BY <1>3 DEF TypeInv, Operation, States
<1>7. /\ DOMAIN acts' = DOMAIN acts \cup {n} /\ n \notin DOMAIN acts /\ acts'[n] = o
      /\ \A k \in DOMAIN acts : acts'[k] = acts[k]
      /\ DOMAIN acts = 1 .. Len(acts) /\ Len(acts) \in Nat /\ Len(acts') = n
  BY <1>3, <1>5, <1>6
<1>8. /\ s \in Seq(Events)
      /\ \A y \in DOMAIN s : s[y].act = n
      /\ \A y, z \in DOMAIN s : Loud(s[y]) /\ Loud(s[z]) => y = z
      /\ \E y \in DOMAIN s : Loud(s[y]) /\ s[y].actor = by /\ s[y].project = p
  <2>1. TellsOnce(DeedEvents(deed, by, p, n), by, p, n)
    BY <1>6, DeedTells
  <2>2. QED
    BY <1>4, <2>1 DEF TellsOnce
<1>9. Silent(n)
  BY <1>3, <1>7 DEF Silent, FeedInv, EventsInv
<1>10. /\ \A k \in 0 .. Len(acts) : k \in 0 .. Len(acts')
       /\ \A y \in DOMAIN s : s[y].act \in 0 .. Len(acts')
  BY <1>3, <1>6, <1>7, <1>8
<1>11. \A y \in DOMAIN s : Loud(s[y]) => Silent(s[y].act)
  <2> SUFFICES ASSUME NEW y \in DOMAIN s PROVE Silent(s[y].act)
    OBVIOUS
  <2>1. s[y].act = n
    BY <1>8
  <2>2. QED
    BY <1>9, <2>1 DEF Silent
<1>12. /\ EventsInv'
       /\ \A k : Silent(k) /\ (\A y \in DOMAIN s : Loud(s[y]) => s[y].act # k) => Silent(k)'
       /\ \A k : Told(k) /\ acts'[k].by = acts[k].by /\ acts'[k].project = acts[k].project => Told(k)'
       /\ \A y \in DOMAIN s : \A k :
            /\ Loud(s[y]) /\ s[y].act = k
            /\ s[y].actor = acts'[k].by /\ s[y].project = acts'[k].project
            => Told(k)'
  BY <1>5, <1>8, <1>10, <1>11, EventsGrow DEF FeedInv
<1>13. Told(n)'
  <2>1. PICK y \in DOMAIN s : Loud(s[y]) /\ s[y].actor = by /\ s[y].project = p
    BY <1>8
  <2>2. s[y].act = n /\ s[y].actor = acts'[n].by /\ s[y].project = acts'[n].project
    BY <1>3, <1>7, <1>8, <2>1
  <2>3. QED
    BY <1>12, <2>1, <2>2
<1>14. \A k \in Handler : req[k] # Idle => req[k].act \in DOMAIN acts /\ req[k].act # n
  BY <1>7 DEF LinkInv
<1>15. LinkInv'
  BY <1>5, <1>7, <1>14 DEF LinkInv
<1>16. (\A k \in Handler :
          /\ req[k].at \in Untold => Silent(req[k].act)
          /\ req[k].at = "founding" => Told(req[k].act))'
  <2> SUFFICES ASSUME NEW k \in Handler
               PROVE  (/\ req[k].at \in Untold => Silent(req[k].act)
                       /\ req[k].at = "founding" => Told(req[k].act))'
    OBVIOUS
  <2>1. PICK j : j = req[k].act
    OBVIOUS
  <2>2. req[k].at \in Untold \cup {"founding"} => j \in DOMAIN acts /\ j # n
    BY <1>14, <2>1 DEF Untold, Idle
  <2>3. req[k].at \in Untold => Silent(j)'
    BY <1>8, <1>12, <2>1, <2>2 DEF FeedInv, ToldInv
  <2>4. req[k].at = "founding" => Told(j)'
    <3> SUFFICES ASSUME req[k].at = "founding" PROVE Told(j)'
      OBVIOUS
    <3>1. Told(j)
      BY <2>1 DEF FeedInv, ToldInv
    <3>2. QED
      BY <1>7, <1>12, <2>2, <3>1
  <2>5. QED
    BY <1>5, <2>1, <2>3, <2>4 DEF Silent, Told
<1>17. (\A k \in DOMAIN acts : acts[k].state = "done" /\ acts[k].project # None => Told(k))'
  <2> SUFFICES ASSUME NEW k \in DOMAIN acts', acts'[k].state = "done", acts'[k].project # None
               PROVE  Told(k)'
    OBVIOUS
  <2>1. CASE k = n
    BY <1>13, <2>1
  <2>2. CASE k # n
    <3>1. k \in DOMAIN acts /\ acts'[k] = acts[k]
      BY <1>7, <2>2
    <3>2. Told(k)
      BY <3>1 DEF FeedInv, ToldInv
    <3>3. QED
      BY <1>12, <3>1, <3>2
  <2>3. QED
    BY <2>1, <2>2
<1>18. QED
  BY <1>12, <1>15, <1>16, <1>17 DEF FeedInv, ToldInv

LEMMA InternalFeed ==
  ASSUME TypeInv, LinkInv, FeedInv, Internal
  PROVE  LinkInv' /\ FeedInv'
<1>1. PICK p \in DOMAIN projects :
        events' = Append(events, Event(p, "tick_queued", None, None, None, None, 0))
  BY DEF Internal
<1>2. UNCHANGED <<acts, req>>
  BY DEF Internal
<1>3. PICK e : e = Event(p, "tick_queued", None, None, None, None, 0)
  OBVIOUS
<1>4. p \in Nat
  BY DEF TypeInv, BoardInv
<1>5. e \in Events /\ e.act = 0 /\ ~Loud(e)
  BY <1>3, <1>4 DEF Event, Events, Loud, Telling, Kinds, Reasons, DASHBOARD_ACTIVITY_KINDS
<1>6. PICK s : s = <<e>>
  OBVIOUS
<1>7. events' = events \o s /\ s \in Seq(Events) /\ DOMAIN s = {1} /\ s[1] = e
  BY <1>1, <1>3, <1>5, <1>6, OneAdded DEF FeedInv
<1>8. acts \in Seq(Operation) /\ Len(acts) \in Nat
  BY DEF TypeInv
<1>9. \A y \in DOMAIN s : s[y].act \in 0 .. Len(acts') /\ ~Loud(s[y])
  BY <1>2, <1>5, <1>7, <1>8
<1>10. /\ EventsInv'
       /\ \A k : Silent(k) => Silent(k)'
       /\ \A k : Told(k) => Told(k)'
  BY <1>2, <1>7, <1>9, EventsGrow DEF FeedInv
<1>11. LinkInv'
  BY <1>2 DEF LinkInv
<1>12. (\A k \in Handler :
          /\ req[k].at \in Untold => Silent(req[k].act)
          /\ req[k].at = "founding" => Told(req[k].act))'
  <2> SUFFICES ASSUME NEW k \in Handler
               PROVE  (/\ req[k].at \in Untold => Silent(req[k].act)
                       /\ req[k].at = "founding" => Told(req[k].act))'
    OBVIOUS
  <2>1. PICK j : j = req[k].act
    OBVIOUS
  <2>2. /\ req[k].at \in Untold => Silent(j)'
        /\ req[k].at = "founding" => Told(j)'
    BY <1>10, <2>1 DEF FeedInv, ToldInv
  <2>3. QED
    BY <1>2, <2>1, <2>2 DEF Silent, Told
<1>13. (\A k \in DOMAIN acts : acts[k].state = "done" /\ acts[k].project # None => Told(k))'
  BY <1>2, <1>10 DEF FeedInv, ToldInv
<1>14. QED
  BY <1>10, <1>11, <1>12, <1>13 DEF FeedInv, ToldInv

LEMMA FeedStays ==
  ASSUME LinkInv, FeedInv, UNCHANGED <<events, acts, req>>
  PROVE  LinkInv' /\ FeedInv'
  BY DEF LinkInv, FeedInv, EventsInv, ToldInv, Silent, Told, Tells

LEMMA NextFeed ==
  ASSUME ~Roles, TypeInv, LinkInv, FeedInv, [Next]_vars
  PROVE  LinkInv' /\ FeedInv'
<1>1. ASSUME NEW h \in Handler, Ask(h) \/ RequestStep(h) \/ RequestFails(h)
      PROVE  LinkInv' /\ FeedInv'
  BY <1>1, AskFeed, TellFeed, InsertFeed, RegisterAgentFeed, EndFeed DEF RequestStep
<1>2. CASE PersonActs \/ AgentActs
  BY <1>2, DoFeed
<1>3. CASE Internal
  BY <1>3, InternalFeed
<1>4. ASSUME NEW a \in Attempt, LoginStep(a) \/ Age(a) \/ StopListening(a) \/ LoginFails(a)
      PROVE  UNCHANGED <<events, acts, req>>
  BY <1>4 DEF LoginStep, Callback, Identify, Choose, BindGithubIdentity, RegisterHuman, NameHuman,
    IssueIdentityToken, LandInBrowser, LandInShell, Age, StopListening, LoginFails, board
<1>5. CASE \/ \E c \in Client : WantIn(c) \/ \E a \in Attempt : StartLogin(a, c)
           \/ \E g \in Identity : LogOut(g)
           \/ LoginWithToken \/ RegisterByName
           \/ \E p \in DOMAIN projects : ProjectUse(p)
           \/ UNCHANGED vars
  <2>1. UNCHANGED <<events, acts, req>>
    BY <1>5 DEF WantIn, StartLogin, LogOut, LoginWithToken, RegisterByName, ProjectUse, vars, board
  <2>2. QED
    BY <2>1, FeedStays
<1>6. QED
  BY <1>1, <1>2, <1>3, <1>4, <1>5, FeedStays DEF Next

LEMMA InitFeed == Init => LinkInv /\ FeedInv
<1> SUFFICES ASSUME Init PROVE LinkInv /\ FeedInv
  OBVIOUS
<1>1. LinkInv
  BY DEF Init, LinkInv
<1>2. PICK e, f : /\ e = Event(1, "project_membership_added", 1, 1, "project_created", None, 0)
                  /\ f = Event(1, "project_created", 1, None, None, None, 0)
  OBVIOUS
<1>3. events = <<e, f>>
  BY <1>2 DEF Init, BootstrapBoard
<1>4. e \in Events /\ e.act = 0
  BY <1>2 DEF Event, Events, Kinds, Reasons, DASHBOARD_ACTIVITY_KINDS
<1>5. f \in Events /\ f.act = 0
  BY <1>2 DEF Event, Events, Kinds, Reasons, DASHBOARD_ACTIVITY_KINDS
<1>6. events \in Seq(Events) /\ DOMAIN events = {1, 2} /\ events[1] = e /\ events[2] = f
  BY <1>3, <1>4, <1>5
<1>7. EventsInv
  BY <1>4, <1>5, <1>6 DEF EventsInv, Init
<1>8. ToldInv
  BY DEF Init, ToldInv, Idle, Untold
<1>9. QED
  BY <1>1, <1>7, <1>8 DEF FeedInv

-----------------------------------------------------------------------------
(* The rows of the feed. *)

LEMMA Places ==
  ASSUME NEW N \in Nat, NEW S \in SUBSET (1 .. N)
  PROVE  /\ IsFiniteSet(S) /\ Cardinality(S) \in Nat
         /\ \A i \in S : Place(S, i) \in 1 .. Cardinality(S)
         /\ \A i, j \in S : Place(S, i) = Place(S, j) => i = j
         /\ \A k \in 1 .. Cardinality(S) : \E i \in S : Place(S, i) = k
<1>1. IsFiniteSet(S) /\ Cardinality(S) \in Nat
  <2>1. IsFiniteSet(1 .. N)
    BY FS_Interval
  <2>2. QED
    BY <2>1, FS_Subset, FS_CardinalityType
<1> DEFINE Above(i) == {j \in S : j >= i}
<1>2. \A i : IsFiniteSet(Above(i)) /\ Cardinality(Above(i)) \in Nat
              /\ Cardinality(Above(i)) <= Cardinality(S)
  <2> SUFFICES ASSUME NEW i
               PROVE  /\ IsFiniteSet(Above(i)) /\ Cardinality(Above(i)) \in Nat
                      /\ Cardinality(Above(i)) <= Cardinality(S)
    OBVIOUS
  <2>1. Above(i) \in SUBSET S
    OBVIOUS
  <2> HIDE DEF Above
  <2>2. QED
    BY <1>1, <2>1, FS_Subset, FS_CardinalityType
<1>3. ASSUME NEW i \in S PROVE Cardinality(Above(i)) \in 1 .. Cardinality(S)
  <2>1. Above(i) # {}
    <3>1. i \in Above(i)
      OBVIOUS
    <3>2. QED
      BY <3>1
  <2> HIDE DEF Above
  <2>2. Cardinality(Above(i)) # 0
    BY <1>2, <2>1, FS_EmptySet
  <2>3. QED
    BY <1>1, <1>2, <2>2
<1>4. ASSUME NEW i \in S, NEW j \in S, i < j PROVE Cardinality(Above(j)) # Cardinality(Above(i))
  <2>1. Above(j) \in SUBSET Above(i) /\ i \in Above(i) /\ i \notin Above(j)
    <3>1. \A x \in S : x \in Int
      OBVIOUS
    <3>2. \A x \in Above(j) : x \in Above(i)
      BY <1>4, <3>1
    <3>3. i \in Above(i) /\ i \notin Above(j)
      BY <1>4, <3>1
    <3>4. QED
      BY <3>2, <3>3
  <2> HIDE DEF Above
  <2>2. Above(i) # Above(j)
    BY <2>1
  <2>3. QED
    BY <1>2, <2>1, <2>2, FS_Subset
<1>5. \A i, j \in S : Cardinality(Above(i)) = Cardinality(Above(j)) => i = j
  <2> HIDE DEF Above
  <2>1. \A i, j \in S : i < j \/ j < i \/ i = j
    OBVIOUS
  <2>2. QED
    BY <1>4, <2>1
<1>6. \A i : Place(S, i) = Cardinality(Above(i))
  BY DEF Place
<1>7. \A k \in 1 .. Cardinality(S) : \E i \in S : Place(S, i) = k
  <2> DEFINE T == 1 .. Cardinality(S)
  <2> DEFINE f == [i \in S |-> Place(S, i)]
  <2>1. f \in [S -> T] /\ \A i, j \in S : f[i] = f[j] => i = j
    BY <1>3, <1>5, <1>6
  <2>2. f \in Injection(S, T)
    BY <2>1 DEF Injection, IsInjective
  <2>3. IsFiniteSet(T) /\ Cardinality(T) = Cardinality(S)
    BY <1>1, FS_Interval
  <2>4. f \in Surjection(S, T)
    <3> HIDE DEF f, T
    <3>1. QED
      BY <2>2, <2>3, FS_Injection
  <2>5. \A k \in T : \E i \in S : f[i] = k
    BY <2>4 DEF Surjection
  <2>6. QED
    BY <2>5
<1>8. \A i \in S : Place(S, i) \in 1 .. Cardinality(S)
  BY <1>3, <1>6
<1>9. \A i, j \in S : Place(S, i) = Place(S, j) => i = j
  BY <1>5, <1>6
<1>10. QED
  BY <1>1, <1>7, <1>8, <1>9

\* The newest rows are the rows of these positions, each once; all of them when
\* they are fewer than the limit.
AreNewest(lines, rows, S) ==
  \E n \in Nat :
    /\ lines = [k \in 1 .. n |-> lines[k]]
    /\ \A k \in 1 .. n : \E i \in S : lines[k] = rows[i] /\ Place(S, i) = k
    /\ n # Limit => \A i \in S : \E k \in 1 .. n : lines[k] = rows[i]

LEMMA NewestRows ==
  ASSUME NEW N \in Nat, NEW S \in SUBSET (1 .. N), NEW rows
  PROVE  AreNewest(Newest(rows, S), rows, S)
<1>0. PICK n : n = IF Cardinality(S) < Limit THEN Cardinality(S) ELSE Limit
  OBVIOUS
<1>01. PICK lines : lines = Newest(rows, S)
  OBVIOUS
<1>1. /\ Cardinality(S) \in Nat
      /\ \A i \in S : Place(S, i) \in 1 .. Cardinality(S)
      /\ \A i, j \in S : Place(S, i) = Place(S, j) => i = j
      /\ \A k \in 1 .. Cardinality(S) : \E i \in S : Place(S, i) = k
  BY Places
<1>2. n \in Nat /\ n <= Cardinality(S) /\ (n # Limit => n = Cardinality(S))
  BY <1>0, <1>1, FeedConstants
<1>3. /\ lines = [k \in 1 .. n |-> lines[k]]
      /\ \A k \in 1 .. n : lines[k] = rows[CHOOSE i \in S : Place(S, i) = k]
  BY <1>0, <1>01 DEF Newest
<1>4. ASSUME NEW k \in 1 .. n PROVE \E i \in S : lines[k] = rows[i] /\ Place(S, i) = k
  <2>1. \E i \in S : Place(S, i) = k
    BY <1>1, <1>2
  <2>2. PICK i : i = CHOOSE j \in S : Place(S, j) = k
    OBVIOUS
  <2>3. i \in S /\ Place(S, i) = k
    BY <2>1, <2>2
  <2>4. QED
    BY <1>3, <2>2, <2>3
<1>5. ASSUME n # Limit, NEW i \in S PROVE \E k \in 1 .. n : lines[k] = rows[i]
  <2>1. Place(S, i) \in 1 .. n
    BY <1>1, <1>2, <1>5
  <2>2. PICK j \in S : lines[Place(S, i)] = rows[j] /\ Place(S, j) = Place(S, i)
    BY <1>4, <2>1
  <2>3. j = i
    BY <1>1, <2>2
  <2>4. QED
    BY <2>1, <2>2, <2>3
<1>6. QED
  BY <1>01, <1>2, <1>3, <1>4, <1>5 DEF AreNewest

-----------------------------------------------------------------------------
(* Who asked for what is a participant. *)

ByInv == \A n \in DOMAIN acts : acts[n].by \in Humans \cup Agents

LEMMA PeopleStay ==
  ASSUME TypeInv, [Next]_vars
  PROVE  Humans \subseteq Humans' /\ Agents \subseteq Agents'
<1>1. CASE UNCHANGED participants
  BY <1>1 DEF Humans, Agents
<1>2. ASSUME NEW h \in Handler, Ask(h) PROVE Humans \subseteq Humans' /\ Agents \subseteq Agents'
  <2>1. \/ UNCHANGED participants
        \/ \E agent \in Agents : participants' = [participants EXCEPT ![agent].archived = TRUE]
    BY <1>2, AskBegins
  <2>2. QED
    BY <1>1, <2>1, Archived
<1>3. ASSUME NEW h \in Handler, RequestStep(h)
      PROVE  Humans \subseteq Humans' /\ Agents \subseteq Agents'
  <2>1. CASE RegisterAgent(h)
    <3>1. UNCHANGED participants \/ participants' = Append(participants, Person("agent", req[h].by))
      BY <2>1 DEF RegisterAgent
    <3>2. req[h] \in Requests /\ Looked(req[h])
      BY <2>1, Asked DEF RegisterAgent, Does, TypeInv
    <3>3. PICK row \in Rows : row = Person("agent", req[h].by) /\ row.owner = req[h].by
      BY <3>2, PersonType DEF Requests
    <3>4. row.owner \in {0} \cup Humans
      BY <3>2, <3>3 DEF Looked
    <3>5. QED
      BY <1>1, <3>1, <3>3, <3>4, Enrolled DEF TypeInv
  <2>2. CASE ~RegisterAgent(h)
    <3>1. UNCHANGED participants
      BY <1>3, <2>2 DEF RequestStep, InsertProject, TellCreated, Founding, LookMembership,
        InsertMembership, TellMembership, DeleteMembership, TellRemoved, TellChange, RevokeAgent,
        SaveConfig, board
    <3>2. QED
      BY <1>1, <3>1
  <2>3. QED
    BY <2>1, <2>2
<1>4. ASSUME NEW a \in Attempt, LoginStep(a)
      PROVE  Humans \subseteq Humans' /\ Agents \subseteq Agents'
  <2>1. CASE BindGithubIdentity(a) \/ NameHuman(a)
    <3>1. PICK i : i = login[a].human
      OBVIOUS
    <3>2. NameAccount(a, i) /\ i \in DOMAIN participants /\ login[a].client.who \in Identity
      BY <2>1, <3>1, Client2 DEF BindGithubIdentity, NameHuman, At, TypeInv, LoginInv, Humans
    <3>3. UNCHANGED participants
            \/ participants' = [participants EXCEPT ![i].github = login[a].client.who]
      BY <3>2 DEF NameAccount
    <3>4. QED
      BY <1>1, <3>2, <3>3, NamedRow
  <2>2. CASE RegisterHuman(a)
    BY <2>2, NewPerson DEF RegisterHuman
  <2>3. CASE ~(BindGithubIdentity(a) \/ NameHuman(a) \/ RegisterHuman(a))
    <3>1. UNCHANGED participants
      BY <1>4, <2>3 DEF LoginStep, Callback, Identify, Choose, IssueIdentityToken, LandInBrowser,
        LandInShell, board
    <3>2. QED
      BY <1>1, <3>1
  <2>4. QED
    BY <2>1, <2>2, <2>3
<1>5. CASE RegisterByName
  BY <1>5, NewPerson DEF RegisterByName
<1>6. ASSUME \/ \E c \in Client : WantIn(c) \/ \E a \in Attempt : StartLogin(a, c)
             \/ \E a \in Attempt : Age(a) \/ StopListening(a) \/ LoginFails(a)
             \/ \E g \in Identity : LogOut(g)
             \/ LoginWithToken
             \/ \E h \in Handler : RequestFails(h)
             \/ \E p \in DOMAIN projects : ProjectUse(p)
             \/ UNCHANGED vars
      PROVE  UNCHANGED participants
  BY <1>6 DEF WantIn, StartLogin, Age, StopListening, LoginFails, LogOut, LoginWithToken,
    RequestFails, ProjectUse, vars, board
<1>7. ASSUME PersonActs \/ AgentActs \/ Internal PROVE UNCHANGED participants
  BY <1>7 DEF PersonActs, AgentActs, Internal, Do
<1>8. QED
  BY <1>1, <1>2, <1>3, <1>4, <1>5, <1>6, <1>7 DEF Next

\* What is written of an operation is not who asked for it.
LEMMA SameAsker ==
  ASSUME acts \in Seq(Operation), NEW n, NEW v,
         \/ acts' = [acts EXCEPT ![n].state = v]
         \/ acts' = [acts EXCEPT ![n].project = v]
         \/ UNCHANGED acts
  PROVE  DOMAIN acts' = DOMAIN acts /\ \A k \in DOMAIN acts : acts'[k].by = acts[k].by
<1>1. \A k \in DOMAIN acts : acts[k] \in Operation
  OBVIOUS
<1>2. DOMAIN acts' = DOMAIN acts
  OBVIOUS
<1>3. ASSUME NEW k \in DOMAIN acts PROVE acts'[k].by = acts[k].by
  <2>1. \/ acts'[k] = acts[k]
        \/ acts'[k] = [acts[k] EXCEPT !.state = v]
        \/ acts'[k] = [acts[k] EXCEPT !.project = v]
    OBVIOUS
  <2>2. QED
    BY <1>1, <2>1 DEF Operation
<1>4. QED
  BY <1>2, <1>3

LEMMA NextBy == ASSUME TypeInv, ByInv, [Next]_vars PROVE ByInv'
<1>1. Humans \subseteq Humans' /\ Agents \subseteq Agents' /\ acts \in Seq(Operation)
  BY PeopleStay DEF TypeInv
<1>2. ASSUME NEW n, NEW v,
             \/ acts' = [acts EXCEPT ![n].state = v]
             \/ acts' = [acts EXCEPT ![n].project = v]
             \/ UNCHANGED acts
      PROVE  ByInv'
  <2>1. DOMAIN acts' = DOMAIN acts /\ \A k \in DOMAIN acts : acts'[k].by = acts[k].by
    BY <1>1, <1>2, SameAsker
  <2>2. \A k \in DOMAIN acts' : acts'[k].by \in Humans' \cup Agents'
    BY <1>1, <2>1 DEF ByInv
  <2>3. QED
    BY <2>2 DEF ByInv
<1>3. ASSUME NEW by \in Humans \cup Agents, NEW p, NEW state,
             acts' = Append(acts, [by |-> by, project |-> p, state |-> state])
      PROVE  ByInv'
  <2>1. PICK o : o = [by |-> by, project |-> p, state |-> state]
    OBVIOUS
  <2>2. /\ DOMAIN acts' = DOMAIN acts \cup {Len(acts) + 1} /\ acts'[Len(acts) + 1] = o
        /\ \A k \in DOMAIN acts : acts'[k] = acts[k]
    BY <1>1, <1>3, <2>1
  <2>3. o.by \in Humans' \cup Agents'
    BY <1>1, <2>1
  <2>4. \A k \in DOMAIN acts' : acts'[k].by \in Humans' \cup Agents'
    BY <1>1, <2>2, <2>3 DEF ByInv
  <2>5. QED
    BY <2>4 DEF ByInv
<1>4. ASSUME NEW h \in Handler, Ask(h) PROVE ByInv'
  <2>1. PICK op, at, asker, p, about :
          Startable(op, at, asker.id, p, about) /\ Begin(h, op, at, asker, p, about)
    BY <1>4, AskBegins
  <2>2. PICK by : by = asker.id
    OBVIOUS
  <2>3. by \in Humans /\ acts' = Append(acts, [by |-> by, project |-> p, state |-> "open"])
    BY <2>1, <2>2 DEF Startable, Begin
  <2>4. QED
    BY <1>3, <2>3
<1>5. ASSUME NEW h \in Handler, RequestStep(h) \/ RequestFails(h) PROVE ByInv'
  <2>1. \/ \E n, v : acts' = [acts EXCEPT ![n].state = v]
        \/ \E n, v : acts' = [acts EXCEPT ![n].project = v]
        \/ UNCHANGED acts
    BY <1>5 DEF RequestStep, InsertProject, TellCreated, Founding, LookMembership,
        InsertMembership, TellMembership, DeleteMembership, TellRemoved, TellChange, RevokeAgent,
        RegisterAgent, SaveConfig, RequestFails, Goto, Answer
  <2>2. QED
    BY <1>2, <2>1
<1>6. CASE PersonActs
  <2>1. PICK a \in Asker, deed \in Deeds : \E p \in RequireProjectMember(a.id) : Do(a.id, p, deed)
    BY <1>6 DEF PersonActs
  <2>2. PICK p \in RequireProjectMember(a.id) : Do(a.id, p, deed)
    BY <2>1
  <2>3. PICK by : by = a.id
    OBVIOUS
  <2>4. by \in Humans /\ acts' = Append(acts, [by |-> by, project |-> p, state |-> "done"])
    BY <2>2, <2>3, AskerType DEF Do
  <2>5. QED
    BY <1>3, <2>4
<1>7. CASE AgentActs
  <2>1. PICK i \in Agents, deed \in Deeds, named \in 0 .. Len(projects), focus \in 0 .. Len(projects) :
          \E p \in ResolveAgentToolProjectId(i, named, focus) : Do(i, p, deed)
    BY <1>7 DEF AgentActs
  <2>2. PICK p \in ResolveAgentToolProjectId(i, named, focus) : Do(i, p, deed)
    BY <2>1
  <2>3. acts' = Append(acts, [by |-> i, project |-> p, state |-> "done"])
    BY <2>2 DEF Do
  <2>4. QED
    BY <1>3, <2>3
<1>8. ASSUME NEW a \in Attempt, LoginStep(a) \/ Age(a) \/ StopListening(a) \/ LoginFails(a)
      PROVE  UNCHANGED acts
  BY <1>8 DEF LoginStep, Callback, Identify, Choose, BindGithubIdentity, RegisterHuman, NameHuman,
    IssueIdentityToken, LandInBrowser, LandInShell, Age, StopListening, LoginFails
<1>9. ASSUME \/ \E c \in Client : WantIn(c) \/ \E a \in Attempt : StartLogin(a, c)
             \/ \E g \in Identity : LogOut(g)
             \/ LoginWithToken \/ RegisterByName
             \/ \E p \in DOMAIN projects : ProjectUse(p)
             \/ Internal
             \/ UNCHANGED vars
      PROVE  UNCHANGED acts
  BY <1>9 DEF WantIn, StartLogin, LogOut, LoginWithToken, RegisterByName, ProjectUse, Internal, vars
<1>10. QED
  BY <1>2, <1>4, <1>5, <1>6, <1>7, <1>8, <1>9 DEF Next

-----------------------------------------------------------------------------
(* The lines of the dashboard. *)

\* A line is of its row, and names who acted.
LEMMA LineOf ==
  ASSUME PeopleInv, NEW e \in Events, e.actor \in Humans \cup Agents, NEW allowed
  PROVE  ActivitySentence(ActivityItem(e, participants, allowed)).who = e.actor
<1>1. PICK item : item = ActivityItem(e, participants, allowed)
  OBVIOUS
<1>2. PICK label : label = FormatParticipantLabel(participants, e.actor)
  OBVIOUS
<1>3. e.actor \in DOMAIN participants /\ e.actor \in Nat
  BY Numbers DEF Humans, Agents
<1>4. participants[e.actor].owner \in Nat
  BY <1>3, Numbers DEF PeopleInv
<1>5. label \in [id : Nat, owner : Nat \cup {None}] /\ label.id = e.actor
  BY <1>2, <1>3, <1>4 DEF FormatParticipantLabel
<1>6. label # None /\ e.actor # None
  BY <1>3, <1>5, FeedConstants
<1>7. CASE e.kind = "session_interrupted"
  <2>1. item.kind = "session_interrupted" /\ item.detail.names = e.actor
    BY <1>1, <1>7 DEF ActivityItem, Named
  <2>2. QED
    BY <1>1, <2>1 DEF ActivitySentence
<1>8. CASE e.kind # "session_interrupted"
  <2>1. item.kind # "session_interrupted" /\ item.actor = label
    BY <1>1, <1>2, <1>6, <1>8 DEF ActivityItem
  <2>2. QED
    BY <1>1, <1>5, <1>6, <2>1 DEF ActivitySentence, ActorLabel
<1>9. QED
  BY <1>7, <1>8

LEMMA LineAct ==
  ASSUME NEW e, NEW table, NEW allowed
  PROVE  ActivitySentence(ActivityItem(e, table, allowed)).act = e.act
  BY DEF ActivitySentence, ActivityItem

LEMMA FeedTells ==
  ASSUME TypeInv, ByInv, FeedInv
  PROVE  FeedTellsActs
<1> SUFFICES ASSUME NEW p \in DOMAIN projects
    PROVE  LET lines == ActivityList(ListRecentActivity(events, p, participants, members)) IN
           /\ \A i, j \in DOMAIN lines : i # j /\ lines[i].act # 0 => lines[i].act # lines[j].act
           /\ \A n \in DOMAIN acts :
                acts[n].project = p /\ acts[n].state = "done"
                  => \/ Len(lines) = Limit
                     \/ \E i \in DOMAIN lines : lines[i].act = n /\ lines[i].who = acts[n].by
  BY DEF FeedTellsActs
<1>1. PICK S : S = {i \in DOMAIN events : Telling(events[i], p)}
  OBVIOUS
<1>2. PICK rows : rows = Newest(events, S)
  OBVIOUS
<1>3. PICK allowed : allowed = AllowedTargets(rows, members, p)
  OBVIOUS
<1>4. PICK lines : lines = ActivityList(ListRecentActivity(events, p, participants, members))
  OBVIOUS
<1>5. /\ DOMAIN lines = DOMAIN rows
      /\ \A k \in DOMAIN rows :
           lines[k] = ActivitySentence(ActivityItem(rows[k], participants, allowed))
  BY <1>1, <1>2, <1>3, <1>4 DEF ActivityList, ListRecentActivity, ActivityRows
<1>6. PICK N \in Nat : DOMAIN events = 1 .. N /\ S \in SUBSET (1 .. N)
  BY <1>1 DEF FeedInv, EventsInv
<1>7. AreNewest(rows, events, S)
  BY <1>2, <1>6, NewestRows
<1>8. PICK n \in Nat :
        /\ DOMAIN rows = 1 .. n
        /\ \A k \in 1 .. n : \E i \in S : rows[k] = events[i] /\ Place(S, i) = k
        /\ n # Limit => \A i \in S : \E k \in 1 .. n : rows[k] = events[i]
  BY <1>7 DEF AreNewest
<1>9. Len(lines) = n
  <2>1. lines = [k \in 1 .. n |-> lines[k]]
    BY <1>4, <1>5, <1>8 DEF ActivityList
  <2>2. QED
    BY <1>8, <2>1
<1>10. p \in Nat /\ p # None /\ \A i \in S : Tells(i) /\ events[i].project = p /\ events[i] \in Events
  BY <1>1, <1>6, FeedConstants DEF TypeInv, BoardInv, Telling, Loud, Tells, FeedInv, EventsInv
<1>11. ASSUME NEW i \in DOMAIN lines, NEW j \in DOMAIN lines, i # j, lines[i].act # 0
       PROVE  lines[i].act # lines[j].act
  <2>1. PICK x \in S : rows[i] = events[x] /\ Place(S, x) = i
    BY <1>5, <1>8
  <2>2. PICK y \in S : rows[j] = events[y] /\ Place(S, y) = j
    BY <1>5, <1>8
  <2>3. lines[i].act = events[x].act /\ lines[j].act = events[y].act
    BY <1>5, <2>1, <2>2, LineAct
  <2>4. x # y
    BY <1>11, <2>1, <2>2
  <2>5. x \in DOMAIN events /\ y \in DOMAIN events
    BY <1>6
  <2>6. QED
    BY <1>10, <1>11, <2>3, <2>4, <2>5 DEF FeedInv, EventsInv
<1>12. ASSUME NEW m \in DOMAIN acts, acts[m].project = p, acts[m].state = "done", n # Limit
       PROVE  \E i \in DOMAIN lines : lines[i].act = m /\ lines[i].who = acts[m].by
  <2>1. Told(m)
    BY <1>10, <1>12 DEF FeedInv, ToldInv
  <2>2. PICK x \in DOMAIN events : /\ Tells(x) /\ events[x].act = m
                                   /\ events[x].actor = acts[m].by /\ events[x].project = p
    BY <1>12, <2>1 DEF Told
  <2>3. x \in S
    BY <1>1, <2>2 DEF Tells, Loud
  <2>4. PICK k \in 1 .. n : rows[k] = events[x]
    BY <1>8, <1>12, <2>3
  <2>5. PICK e : e = events[x]
    OBVIOUS
  <2>6. e \in Events /\ e.act = m /\ e.actor = acts[m].by /\ e.actor \in Humans \cup Agents
    BY <1>10, <2>2, <2>3, <2>5 DEF ByInv
  <2>7. lines[k] = ActivitySentence(ActivityItem(e, participants, allowed)) /\ k \in DOMAIN lines
    BY <1>5, <1>8, <2>4, <2>5
  <2>8. lines[k].act = m /\ lines[k].who = acts[m].by
    BY <2>6, <2>7, LineAct, LineOf DEF TypeInv
  <2>9. QED
    BY <2>7, <2>8
<1>13. QED
  BY <1>4, <1>9, <1>11, <1>12

\* Without roles the dashboard tells each thing done once, in the name of who did
\* it, unless the feed is full (listRecentActivity and the events its callers
\* record): every operation that ends in success left one event the feed selects.
THEOREM ActsTold == ASSUME ~Roles PROVE Spec => []FeedTellsActs
<1>1. Init => LinkInv /\ FeedInv /\ ByInv
  BY InitFeed DEF Init, ByInv
<1>2. TypeInv /\ LinkInv /\ FeedInv /\ ByInv /\ [Next]_vars => LinkInv' /\ FeedInv' /\ ByInv'
  BY NextFeed, NextBy
<1>3. TypeInv /\ FeedInv /\ ByInv => FeedTellsActs
  BY FeedTells
<1>4. QED
  BY <1>1, <1>2, <1>3, TypesHold, PTL DEF Spec
=============================================================================
