---------------------------- MODULE ThreadDecision ----------------------------
(***************************************************************************)
(* How one thread of the board is decided: the declarations that move its  *)
(* consensus state, the posts (approvals, blocking objections) they read,  *)
(* and the two evaluations by which the system itself declares a thread    *)
(* agreed (packages/board/src/domain: declare.ts, consensus.ts, posts.ts,  *)
(* timed-consensus.ts, helpers.ts).                                        *)
(*                                                                         *)
(* Every declaration is one database transaction, but the transaction runs *)
(* at READ COMMITTED and takes no lock on the thread row it has read: the  *)
(* row is read and checked first, and overwritten later.  So a declaration *)
(* is two steps here, the check (Check...) and the commit (Commit...),     *)
(* with finalizeDecided's second read of the candidate (RereadCandidate)   *)
(* between them when the declaration adopts a proposal, and the reading of *)
(* the votes (Weigh) between the thread row and the verdict when a rule of *)
(* consensus is evaluated.  What a handler has read is kept in inflight.   *)
(* The writes of a transaction become visible together, at its commit; the *)
(* resolution of an objection is no transaction, and each of its writes is *)
(* a step.                                                                 *)
(***************************************************************************)
EXTENDS Integers, Sequences, FiniteSets

CONSTANTS
  Participant,        \* members of the project
  Agent,              \* the participants that are agents; the others are human
  ThreadOwner,        \* threads.owner_participant_id
  ProjectOwner,       \* projects.owner_participant_id
  Proposal,           \* proposals of the thread (each has one version)
  Author,             \* Author[p]: proposals.author_participant_id
  Handler,            \* requests the server can be serving at the same time
  Loop,               \* the evaluation of timed threads in the 15 s loop
  Configs,            \* the kinds of thread createThread may have made
  None,               \* a null column
  SilenceWindow,      \* 48 hours, in clock units
  NoObjectionWindow,  \* 24 hours, in clock units
  Windows,            \* the hours a payload of extend/shorten_window may carry
  MaxTime,            \* bound: the clock stops here
  MaxAgreements       \* bound: no request starts once the log is this long

Slots == Handler \cup {Loop}

States == {"discussing", "awaiting_decision", "decided", "rejected", "completed"}
TimedTypes == {"no_objection", "silence"}
\* Types whose candidate selection opens the decision (isTimedType in declare).
SelectingTypes == TimedTypes \cup {"unanimous"}
AllConsensusTypes ==
  SelectingTypes \cup {"rough", "owner_decision", "human_ratification", "none"}

\* What createThread fixes: the consensus type ("none" for a brainstorm), the
\* human_required flag, and whether the thread founds a constitution kind that
\* has no active artifact yet.
ThreadConfigs ==
  [consensus : AllConsensusTypes, human : BOOLEAN, founding : BOOLEAN]

DeclarationKinds ==
  {"select_candidate", "declare_rough", "owner_decide", "request_ratification",
   "ratify", "send_back", "reject_thread", "complete_thread", "extend_window",
   "shorten_window", "clock_satisfy"}

ASSUME ConstantsOK ==
  /\ Agent \subseteq Participant
  /\ ThreadOwner \in Participant
  /\ ProjectOwner \in Participant \ Agent
  /\ Author \in [Proposal -> Participant]
  /\ Loop \notin Handler
  /\ Configs \subseteq ThreadConfigs
  /\ None \notin Proposal \cup Nat
  /\ SilenceWindow \in Nat \ {0}
  /\ NoObjectionWindow \in Nat \ {0}
  /\ Windows \subseteq Nat \ {0}
  /\ MaxTime \in Nat
  /\ MaxAgreements \in Nat

VARIABLES
  config,      \* columns of the thread that never change after createThread
  state,       \* threads.state
  candidate,   \* threads.candidate_proposal_version_id
  entered,     \* threads.awaiting_entered_at
  duration,    \* threads.timing_duration_hours
  endsAt,      \* threads.timing_ends_at
  outcome,     \* proposals.outcome; "absent" before addProposal
  approvals,   \* approval posts: pairs <<author, proposal>>
  objections,  \* unresolved blocking objections: pairs <<author, proposal>>
  roles,       \* participants with a role assignment
  started,     \* started[m]: when agent m last started a session
  now,         \* the server clock
  agreements,  \* the agreements recorded for this thread, oldest first
  inflight,    \* what each handler has read and not yet written
  news,        \* history: what others wrote since a handler read its thread
  raced        \* history: the state was written over a state never read

timing == <<entered, duration, endsAt>>
votes == <<approvals, objections, roles>>
clock == <<started, now>>
decision == <<state, candidate, outcome, agreements>>
history == <<news, raced>>
vars == <<config, decision, timing, votes, clock, inflight, history>>

-----------------------------------------------------------------------------
(* What a handler carries from its reads to its writes. *)

Idle == [step |-> "idle", kind |-> "none", prop |-> None, hours |-> 0, since |-> 0,
         mains |-> {}, author |-> None]

\* The guards of declaration kind held; its writes are still to come.
Checked(kind, prop) == [Idle EXCEPT !.step = "checked", !.kind = kind, !.prop = prop]

Transactions ==
  [step : {"idle", "posted", "evaluating", "checked", "adopting",
           "resolving", "restarting"},
   kind : DeclarationKinds \cup {"none"},
   prop : Proposal \cup {None},
   hours : Nat,
   since : Nat,
   mains : SUBSET Participant,
   author : Participant \cup {None}]

CanServe == Len(agreements) < MaxAgreements
Free(r) == inflight[r].step = "idle" /\ CanServe
Hold(r, tx) == inflight' = [inflight EXCEPT ![r] = tx]
Finish(r) == Hold(r, Idle)
AtCommit(r, kind) == inflight[r].step = "checked" /\ inflight[r].kind = kind

Exists(p) == outcome[p] # "absent"

\* getMainParticipants: role holders, the thread owner and the project owner.
Mains == roles \cup {ThreadOwner, ProjectOwner}

\* hasUnresolvedBlockingObjection: of one of these participants, on version p.
Objected(mains, p) == \E m \in mains : <<m, p>> \in objections

\* evaluateUnanimous: require_other_engine only adds a reason, it never blocks.
Unanimous(mains, p) == \A m \in mains : <<m, p>> \in approvals

\* listParticipantsWithSessionSince names every agent among them.
Awake(mains, since) ==
  \A m \in mains \cap Agent : started[m] # None /\ started[m] >= since

\* What evaluateTimedConsensus asks of the thread row alone.
WindowIsOver ==
  /\ state = "awaiting_decision"
  /\ config.consensus \in TimedTypes
  /\ candidate # None
  /\ entered # None
  /\ endsAt # None
  /\ now >= endsAt

\* evaluateTimedType, if all it reads were read now.
TimedConsensusReached ==
  WindowIsOver /\ ~Objected(Mains, candidate) /\ Awake(Mains, entered)

\* Mutated form: the window is over, and nobody is asked to have been awake.
SatisfiedAsleep(tx) ==
  IF config.consensus = "unanimous" THEN Unanimous(tx.mains, tx.prop)
                                    ELSE ~Objected(tx.mains, tx.prop)

\* The verdict on the thread row and the participants read earlier, and the
\* votes and sessions of this moment.
Satisfied(tx) ==
  CASE config.consensus = "unanimous" -> Unanimous(tx.mains, tx.prop)
    [] config.consensus \in TimedTypes ->
         ~Objected(tx.mains, tx.prop) /\ Awake(tx.mains, tx.since)
    [] OTHER -> ~Objected(tx.mains, tx.prop)

\* The thread row was read for a declaration that depends on a consensus.
Evaluating(kind) ==
  [Checked(kind, candidate) EXCEPT !.step = "evaluating", !.mains = Mains,
                                   !.since = IF entered = None THEN 0 ELSE entered]

\* The objection of a to p is to be resolved.  If the thread row says that a window
\* of silence runs, that window is to be restarted, whatever version p is.
Resolving(a, p) ==
  [Idle EXCEPT !.step = "resolving", !.author = a, !.prop = p,
     !.hours = IF config.consensus = "silence" /\ state = "awaiting_decision"
                    /\ duration # None
               THEN duration ELSE 0]

Selecting == config.consensus \in SelectingTypes

\* Mutated form: the window of silence is forgotten.
DurationOfNoSilence ==
  IF config.consensus = "no_objection" THEN NoObjectionWindow ELSE None

DurationOf ==
  CASE config.consensus = "silence" -> SilenceWindow
    [] config.consensus = "no_objection" -> NoObjectionWindow
    [] OTHER -> None

\* The flag turns these two declarations into a request for ratification.
Escalates(kind) ==
  \/ kind = "request_ratification"
  \/ kind \in {"declare_rough", "owner_decide"} /\ config.human

\* Mutated form: the flag is forgotten.
AdoptsWithoutFlag(kind) ==
  kind \in {"ratify", "clock_satisfy", "declare_rough", "owner_decide"}

\* The declarations that call finalizeDecided.
Adopts(kind) ==
  \/ kind \in {"ratify", "clock_satisfy"}
  \/ kind \in {"declare_rough", "owner_decide"} /\ ~config.human

-----------------------------------------------------------------------------
Init ==
  /\ config \in Configs
  /\ state = "discussing"
  /\ candidate = None
  /\ entered = None /\ duration = None /\ endsAt = None
  /\ outcome = [p \in Proposal |-> "absent"]
  /\ approvals = {} /\ objections = {} /\ roles = {}
  /\ started = [m \in Agent |-> None] /\ now = 0
  /\ agreements = <<>>
  /\ inflight = [s \in Slots |-> Idle]
  /\ news = [s \in Slots |-> {}] /\ raced = FALSE

-----------------------------------------------------------------------------
(* Mutated forms of the steps below, each wrong the way a plausible change  *)
(* of the code would be.  They are part of no behaviour: a property is seen *)
(* to fail when one of them takes the place of the step it is named after.  *)

CheckRoughInAnyState(r, actor) ==
  /\ Free(r)
  /\ actor = ThreadOwner
  /\ config.consensus = "rough"
  /\ candidate # None
  /\ Hold(r, Evaluating("declare_rough"))
  /\ UNCHANGED <<config, decision, timing, votes, clock>>

CheckRatifyOwnVersion(r, actor) ==
  /\ Free(r)
  /\ state = "awaiting_decision"
  /\ actor = ProjectOwner /\ actor \notin Agent
  /\ candidate # None
  /\ Hold(r, Checked("ratify", None))
  /\ UNCHANGED <<config, decision, timing, votes, clock>>

CheckSendBackInAnyState(r, actor) ==
  /\ Free(r)
  /\ actor = ProjectOwner
  /\ Hold(r, Checked("send_back", None))
  /\ UNCHANGED <<config, decision, timing, votes, clock>>

CheckCompleteUndecided(r) ==
  /\ Free(r)
  /\ state \in {"discussing", "decided"}
  /\ Hold(r, Checked("complete_thread", None))
  /\ UNCHANGED <<config, decision, timing, votes, clock>>

EvaluateNoObjectionOnly ==
  /\ inflight[Loop].step = "idle"
  /\ WindowIsOver
  /\ config.consensus = "no_objection"
  /\ Hold(Loop, Evaluating("clock_satisfy"))
  /\ UNCHANGED <<config, decision, timing, votes, clock>>

-----------------------------------------------------------------------------
(* Requests that write in one statement: proposals, posts, roles, sessions. *)

\* addProposal: no guard on the thread's state; brainstorms take no proposal.
\* A brainstorm can still name a proposal of another thread as its candidate,
\* so for the type "none" this is a proposal made elsewhere.
AddProposal(p) ==
  /\ CanServe
  /\ ~Exists(p)
  /\ outcome' = [outcome EXCEPT ![p] = "open"]
  /\ UNCHANGED <<config, state, candidate, agreements, timing, votes, clock, inflight>>

\* addPost of a blocking objection; the types that never read one are left out.
\* The pair stands for the post, so its author does not post another one on the
\* version while a resolution of the first is under way.
Object(a, p) ==
  /\ CanServe
  /\ config.consensus \in TimedTypes \cup {"rough"}
  /\ Exists(p)
  /\ \A s \in Slots :
       inflight[s].step = "resolving" => <<inflight[s].author, inflight[s].prop>> # <<a, p>>
  /\ objections' = objections \cup {<<a, p>>}
  /\ UNCHANGED <<config, decision, timing, approvals, roles, clock, inflight>>

\* resolveObjection by the objector or the thread owner reads the post and the
\* thread.
CheckResolve(r, a, p, actor) ==
  /\ Free(r)
  /\ <<a, p>> \in objections
  /\ actor \in {a, ThreadOwner}
  /\ Hold(r, Resolving(a, p))
  /\ UNCHANGED <<config, decision, timing, votes, clock>>

\* The post is marked, unless another request has done so meanwhile.
FlagResolved(r) ==
  LET tx == inflight[r] IN
  /\ tx.step = "resolving"
  /\ objections' = objections \ {<<tx.author, tx.prop>>}
  /\ IF tx.hours = 0
     THEN Finish(r)
     ELSE Hold(r, [Idle EXCEPT !.step = "restarting", !.hours = tx.hours])
  /\ UNCHANGED <<config, decision, timing, approvals, roles, clock>>

\* The window starts again, as the row that was read says.
RestartWindow(r) ==
  /\ inflight[r].step = "restarting"
  /\ endsAt' = now + inflight[r].hours
  /\ Finish(r)
  /\ UNCHANGED <<config, decision, entered, duration, votes, clock>>

\* addPost of an approval; the handler goes on to maybeFinalizeUnanimous.
Approve(r, a, p) ==
  /\ Free(r)
  /\ config.consensus = "unanimous"
  /\ Exists(p)
  /\ approvals' = approvals \cup {<<a, p>>}
  /\ Hold(r, [Idle EXCEPT !.step = "posted"])
  /\ UNCHANGED <<config, decision, timing, objections, roles, clock>>

\* assignRole by the project owner; role assignments are never removed, and a
\* role of somebody who is a main participant anyway changes nothing.
AssignRole(m) ==
  /\ CanServe
  /\ m \notin Mains
  /\ roles' = roles \cup {m}
  /\ UNCHANGED <<config, decision, timing, approvals, objections, clock, inflight>>

\* A session of agent m starts (external to this module).
StartSession(m) ==
  /\ CanServe
  /\ config.consensus \in TimedTypes
  /\ started' = [started EXCEPT ![m] = now]
  /\ UNCHANGED <<config, decision, timing, votes, now, inflight>>

Tick ==
  /\ now < MaxTime
  /\ now' = now + 1
  /\ UNCHANGED <<config, decision, timing, votes, started, inflight>>

-----------------------------------------------------------------------------
(* The first step of a declaration: read the thread row, check the guards.  *)
(* A declaration refused by a guard is rolled back and leaves no trace.     *)

CheckSelect(r, actor, p) ==
  /\ Free(r)
  /\ actor \in {ThreadOwner, ProjectOwner}
  /\ state = "discussing" \/ (Selecting /\ state = "awaiting_decision")
  /\ Exists(p)
  /\ Hold(r, Checked("select_candidate", p))
  /\ UNCHANGED <<config, decision, timing, votes, clock>>

CheckRough(r, actor) ==
  /\ Free(r)
  /\ actor = ThreadOwner
  /\ config.consensus = "rough"
  /\ state = "discussing"
  /\ candidate # None
  /\ Hold(r, Evaluating("declare_rough"))
  /\ UNCHANGED <<config, decision, timing, votes, clock>>

CheckOwnerDecide(r, actor) ==
  /\ Free(r)
  /\ actor = ThreadOwner
  /\ config.consensus = "owner_decision"
  /\ state = "discussing"
  /\ candidate # None
  /\ Hold(r, Checked("owner_decide", None))
  /\ UNCHANGED <<config, decision, timing, votes, clock>>

\* Any participant may ask for ratification: no guard on the actor.
CheckRequestRatification(r) ==
  /\ Free(r)
  /\ config.consensus = "human_ratification"
  /\ state = "discussing"
  /\ candidate # None
  /\ Hold(r, Checked("request_ratification", None))
  /\ UNCHANGED <<config, decision, timing, votes, clock>>

\* The author of the candidate may not ratify it, except while a founding
\* template has no predecessor.
CheckRatify(r, actor) ==
  /\ Free(r)
  /\ state = "awaiting_decision"
  /\ actor = ProjectOwner /\ actor \notin Agent
  /\ candidate # None
  /\ Author[candidate] # actor \/ config.founding
  /\ Hold(r, Checked("ratify", None))
  /\ UNCHANGED <<config, decision, timing, votes, clock>>

CheckSendBack(r, actor) ==
  /\ Free(r)
  /\ state = "awaiting_decision"
  /\ actor = ProjectOwner
  /\ Hold(r, Checked("send_back", None))
  /\ UNCHANGED <<config, decision, timing, votes, clock>>

\* The candidate to reject is the one read here; a brainstorm is not excluded.
CheckReject(r, actor) ==
  /\ Free(r)
  /\ actor \in {ThreadOwner, ProjectOwner}
  /\ state \in {"discussing", "awaiting_decision"}
  /\ Hold(r, Checked("reject_thread", candidate))
  /\ UNCHANGED <<config, decision, timing, votes, clock>>

\* canCompleteThread; any participant may complete.
CheckComplete(r) ==
  /\ Free(r)
  /\ state = IF config.consensus = "none" THEN "discussing" ELSE "decided"
  /\ Hold(r, Checked("complete_thread", None))
  /\ UNCHANGED <<config, decision, timing, votes, clock>>

\* extend_window looks at awaiting_entered_at only, not at the state.
CheckExtend(r, actor, h) ==
  /\ Free(r)
  /\ actor = ThreadOwner
  /\ entered # None
  /\ Hold(r, [Checked("extend_window", None) EXCEPT !.hours = h, !.since = entered])
  /\ UNCHANGED <<config, decision, timing, votes, clock>>

CheckShorten(r, actor, h) ==
  /\ Free(r)
  /\ actor = ProjectOwner
  /\ entered # None
  /\ endsAt # None => entered + h < endsAt
  /\ Hold(r, [Checked("shorten_window", None) EXCEPT !.hours = h, !.since = entered])
  /\ UNCHANGED <<config, decision, timing, votes, clock>>

\* maybeFinalizeUnanimous, after the approval was posted, reads the thread.
EvaluateUnanimous(r) ==
  /\ inflight[r].step = "posted"
  /\ IF state = "awaiting_decision" /\ candidate # None
     THEN Hold(r, Evaluating("clock_satisfy"))
     ELSE Finish(r)
  /\ UNCHANGED <<config, decision, timing, votes, clock>>

\* evaluateTimedConsensus, called by runLoopTick, reads the threads.
EvaluateTimed ==
  /\ inflight[Loop].step = "idle"
  /\ WindowIsOver
  /\ Hold(Loop, Evaluating("clock_satisfy"))
  /\ UNCHANGED <<config, decision, timing, votes, clock>>

\* The objections, approvals and sessions are read after the thread row.  The
\* clock_satisfy of the system has no guard of its own on the thread's state.
Weigh(r) ==
  /\ inflight[r].step = "evaluating"
  /\ IF Satisfied(inflight[r]) THEN Hold(r, Checked(inflight[r].kind, None))
                               ELSE Finish(r)
  /\ UNCHANGED <<config, decision, timing, votes, clock>>

-----------------------------------------------------------------------------
(* The second step: the writes of the declaration, at its commit. *)

\* The candidate, its window, and for the selecting types the state.
CommitSelect(r) ==
  /\ AtCommit(r, "select_candidate")
  /\ candidate' = inflight[r].prop
  /\ IF Selecting
     THEN /\ state' = "awaiting_decision"
          /\ entered' = now
          /\ duration' = DurationOf
          /\ endsAt' = IF DurationOf = None THEN None ELSE now + DurationOf
     ELSE UNCHANGED <<state, timing>>
  /\ Finish(r)
  /\ UNCHANGED <<config, outcome, agreements, votes, clock>>

CommitAwaiting(r) ==
  /\ inflight[r].step = "checked"
  /\ Escalates(inflight[r].kind)
  /\ state' = "awaiting_decision"
  /\ Finish(r)
  /\ UNCHANGED <<config, candidate, outcome, agreements, timing, votes, clock>>

\* finalizeDecided reads the thread again: the candidate adopted is this one.
RereadCandidate(r) ==
  /\ inflight[r].step = "checked"
  /\ Adopts(inflight[r].kind)
  /\ candidate # None
  /\ Hold(r, [inflight[r] EXCEPT !.step = "adopting", !.prop = candidate])
  /\ UNCHANGED <<config, decision, timing, votes, clock>>

\* The rest of finalizeDecided: outcome, state and agreement, unconditionally.
CommitDecided(r) ==
  LET tx == inflight[r] IN
  /\ tx.step = "adopting"
  /\ outcome' = [outcome EXCEPT ![tx.prop] = "adopted"]
  /\ state' = "decided"
  /\ agreements' = Append(agreements,
                     [outcome |-> "adopted", prop |-> tx.prop, kind |-> tx.kind])
  /\ Finish(r)
  /\ UNCHANGED <<config, candidate, timing, votes, clock>>

CommitSendBack(r) ==
  /\ AtCommit(r, "send_back")
  /\ state' = "discussing"
  /\ Finish(r)
  /\ UNCHANGED <<config, candidate, outcome, agreements, timing, votes, clock>>

\* recordAsAgreement is a flag of the payload and needs a candidate.
CommitReject(r, record) ==
  LET p == inflight[r].prop IN
  /\ AtCommit(r, "reject_thread")
  /\ record => p # None
  /\ outcome' = IF p = None THEN outcome ELSE [outcome EXCEPT ![p] = "rejected"]
  /\ state' = "rejected"
  /\ agreements' = IF record
                   THEN Append(agreements, [outcome |-> "rejected", prop |-> p,
                                            kind |-> "reject_thread"])
                   ELSE agreements
  /\ Finish(r)
  /\ UNCHANGED <<config, candidate, timing, votes, clock>>

CommitComplete(r) ==
  /\ AtCommit(r, "complete_thread")
  /\ state' = "completed"
  /\ Finish(r)
  /\ UNCHANGED <<config, candidate, outcome, agreements, timing, votes, clock>>

\* extend_window and shorten_window write the same two columns.
CommitWindow(r) ==
  LET tx == inflight[r] IN
  /\ AtCommit(r, "extend_window") \/ AtCommit(r, "shorten_window")
  /\ duration' = tx.hours
  /\ endsAt' = tx.since + tx.hours
  /\ Finish(r)
  /\ UNCHANGED <<config, decision, entered, votes, clock>>

-----------------------------------------------------------------------------
Posts ==
  \/ \E p \in Proposal : AddProposal(p)
  \/ \E a \in Participant, p \in Proposal : Object(a, p)
  \/ \E r \in Handler, a, actor \in Participant, p \in Proposal :
       CheckResolve(r, a, p, actor)
  \/ \E r \in Handler, a \in Participant, p \in Proposal : Approve(r, a, p)
  \/ \E m \in Participant : AssignRole(m)
  \/ \E m \in Agent : StartSession(m)

Check ==
  \E r \in Handler, actor \in Participant :
    \/ \E p \in Proposal : CheckSelect(r, actor, p)
    \/ CheckRough(r, actor)
    \/ CheckOwnerDecide(r, actor)
    \/ CheckRequestRatification(r)
    \/ CheckRatify(r, actor)
    \/ CheckSendBack(r, actor)
    \/ CheckReject(r, actor)
    \/ CheckComplete(r)
    \/ \E h \in Windows : CheckExtend(r, actor, h)
    \/ \E h \in Windows : CheckShorten(r, actor, h)

\* What a handler that has passed its checks does next; the system's own.
Progress(r) ==
  \/ FlagResolved(r)
  \/ RestartWindow(r)
  \/ EvaluateUnanimous(r)
  \/ Weigh(r)
  \/ CommitSelect(r)
  \/ CommitAwaiting(r)
  \/ RereadCandidate(r)
  \/ CommitDecided(r)
  \/ CommitSendBack(r)
  \/ \E record \in BOOLEAN : CommitReject(r, record)
  \/ CommitComplete(r)
  \/ CommitWindow(r)

-----------------------------------------------------------------------------
(* History variables, read by the properties alone.                         *)

News == {"state", "candidate", "window", "votes"}

\* What this step writes that a verdict may rest on.  An approval, a session or
\* a resolved objection takes nothing back.
Written ==
  {n \in News :
     \/ n = "state" /\ state' # state
     \/ n = "candidate" /\ candidate' # candidate
     \/ n = "window" /\ timing' # timing
     \/ n = "votes" /\ ~(objections' \subseteq objections /\ roles' = roles)}

\* Handler s has not read the thread yet.
Unread(s) == inflight[s].step \in {"idle", "posted"}

\* A declaration other than of a window is committed in this step.
Declares(s) ==
  /\ inflight[s].step \in {"checked", "adopting"}
  /\ inflight[s].kind \notin {"extend_window", "shorten_window"}
  /\ inflight'[s].step = "idle"

Remember ==
  /\ news' = [s \in Slots |->
                IF Unread(s) \/ inflight'[s].step = "idle" THEN {}
                                                           ELSE news[s] \cup Written]
  /\ raced' = (raced \/ \E s \in Slots : Declares(s) /\ "state" \in news[s])

Step ==
  \/ Posts
  \/ Tick
  \/ Check
  \/ EvaluateTimed
  \/ \E r \in Slots : Progress(r)

Next == Step /\ Remember

Spec == Init /\ [][Next]_vars

\* Time passes, the loop evaluates again and again, and a handler that was
\* started runs to its end; nothing obliges a participant to act.
FairSpec ==
  /\ Spec
  /\ WF_vars(Tick /\ Remember)
  /\ WF_vars(EvaluateTimed /\ Remember)
  /\ \A r \in Slots : WF_vars(Progress(r) /\ Remember)
-----------------------------------------------------------------------------
(***************************************************************************)
(* Properties.                                                             *)
(***************************************************************************)

DataOK ==
  /\ config \in Configs
  /\ state \in States
  /\ candidate \in Proposal \cup {None}
  /\ entered \in Nat \cup {None}
  /\ duration \in Nat \cup {None}
  /\ endsAt \in Nat \cup {None}
  /\ outcome \in [Proposal -> {"absent", "open", "adopted", "rejected"}]
  /\ approvals \subseteq Participant \X Proposal
  /\ objections \subseteq Participant \X Proposal
  /\ roles \subseteq Participant
  /\ started \in [Agent -> Nat \cup {None}]
  /\ now \in Nat
  /\ agreements \in Seq([outcome : {"adopted", "rejected"}, prop : Proposal,
                         kind : DeclarationKinds])
  /\ inflight \in [Slots -> Transactions]

TypeOK ==
  /\ DataOK
  /\ news \in [Slots -> SUBSET News]
  /\ raced \in BOOLEAN

Adoptions == {i \in DOMAIN agreements : agreements[i].outcome = "adopted"}

-----------------------------------------------------------------------------
\* A thread is decided or completed only with an adopted agreement on record:
\* finalizeDecided writes both, complete_thread needs a decided thread.
DecisionIsRecorded ==
  state \in {"decided", "completed"} /\ config.consensus # "none" => Adoptions # {}

\* The declarations by which a thread of this configuration may be decided.
Deciders ==
  CASE config.consensus \in SelectingTypes -> {"ratify", "clock_satisfy"}
    [] config.consensus = "human_ratification" -> {"ratify"}
    [] config.consensus = "rough" /\ ~config.human -> {"declare_rough"}
    [] config.consensus = "owner_decision" /\ ~config.human -> {"owner_decide"}
    [] config.consensus \in {"rough", "owner_decision"} /\ config.human -> {"ratify"}
    [] OTHER -> {}

\* Every adoption was declared through the door its consensus type opens: a
\* rough or owner's thread with the human_required flag, and a thread of human
\* ratification, is adopted by ratify alone, however requests overlap; the
\* system's declaration adopts only in the types it evaluates.
AdoptedByRightfulDeclaration ==
  \A i \in Adoptions : agreements[i].kind \in Deciders

\* A timed thread that awaits its decision has a candidate and a deadline:
\* without either evaluateTimedConsensus would skip it for ever.
AwaitingHasDeadline ==
  state = "awaiting_decision" /\ config.consensus \in TimedTypes =>
    candidate # None /\ entered # None /\ endsAt # None

-----------------------------------------------------------------------------
(* What only a race of two writes can break.                                 *)

\* A thread leaves one agreement at most, adopted or rejected, whatever posts,
\* roles, windows, evaluations and declarations overlap, as long as no
\* declaration is committed over a state that it did not read: nothing but the
\* missing condition on the state of the update stands between the code and one
\* agreement (declare-guards.test.ts: a decided thread cannot be declared again).
OneAgreement == raced \/ Len(agreements) <= 1

\* What was written behind the back of the handler that adopts p in this step.
AdoptedDespite(r, p, what) ==
  /\ CommitDecided(r)
  /\ inflight[r].prop = p
  /\ news[r] \cap what = {}

\* An adoption agrees, when it is recorded, with the rule of the declaration
\* that made it, unless what that rule looked at was written after the handler
\* read the thread: the state the declaration needs; for ratify a version that
\* is not the project owner's own, founding aside; for rough no blocking
\* objection of a main participant; for the system's own declaration the
\* candidate of the moment, with all approvals, or with its window over, nobody
\* objecting and every main agent awake.
AdoptionFollowsItsRule ==
  [][\A r \in Slots, p \in Proposal :
       LET kind == inflight[r].kind IN
       /\ AdoptedDespite(r, p, {"state"}) =>
            state = IF kind \in {"ratify", "clock_satisfy"} THEN "awaiting_decision"
                                                            ELSE "discussing"
       /\ AdoptedDespite(r, p, {"candidate"}) /\ kind = "ratify" =>
            Author[p] # ProjectOwner \/ config.founding
       /\ AdoptedDespite(r, p, {"candidate", "votes"}) /\ kind = "declare_rough" =>
            ~Objected(Mains, p)
       /\ AdoptedDespite(r, p, News) /\ kind = "clock_satisfy" =>
            /\ p = candidate
            /\ IF config.consensus = "unanimous" THEN Unanimous(Mains, p)
                                                 ELSE TimedConsensusReached]_vars

-----------------------------------------------------------------------------
(* Liveness. *)

\* A timed thread whose conditions hold does not stay undecided: the loop
\* decides it, or somebody changes what the conditions are about.
DueThreadMovesOn == TimedConsensusReached ~> ~TimedConsensusReached

\* A unanimous thread leaves the decision queue once every main participant has
\* approved its candidate (03-consensus-state-machines.md says at that moment).
UnanimousThreadMovesOn ==
  (/\ state = "awaiting_decision"
   /\ config.consensus = "unanimous"
   /\ candidate # None
   /\ Unanimous(Mains, candidate)) ~> state # "awaiting_decision"

-----------------------------------------------------------------------------
(* What the documents say and the code does not do. *)

\* extend_window, the thread owner's, never brings the deadline forward.
ExtendNeverShortens ==
  [][\A r \in Handler :
       AtCommit(r, "extend_window") /\ CommitWindow(r) /\ endsAt # None =>
         endsAt' >= endsAt]_vars

\* The project owner ratifies no version he wrote himself, founding aside.
OwnVersionNotRatified ==
  [][\A r \in Handler :
       CommitDecided(r) /\ inflight[r].kind = "ratify" =>
         Author[inflight[r].prop] # ProjectOwner \/ config.founding]_vars

\* A thread that was decided, rejected or completed records no further agreement:
\* no decision can be declared after the close, nor a second time.
ClosedRecordsNothing ==
  [][(state \notin {"discussing", "awaiting_decision"}) => agreements' = agreements]_vars

\* The system does not decide a thread of silence while the window that a
\* resolved objection restarts (03-consensus-state-machines.md) is not restarted.
RestartComesFirst ==
  [][\A r, s \in Slots :
       CommitDecided(r) /\ inflight[r].kind = "clock_satisfy" =>
         inflight[s].step # "restarting"]_vars

\* A brainstorm is never rejected.
BrainstormNotRejected == config.consensus = "none" => state # "rejected"

-----------------------------------------------------------------------------
(* The life of a thread as the documents draw it. *)

Adopted == {p \in Proposal : outcome[p] = "adopted"}

TheAdopted == IF Adopted = {} THEN None ELSE CHOOSE p \in Adopted : TRUE

Course ==
  CASE config.consensus = "none" -> "brainstorm"
    [] config.consensus \in {"rough", "owner_decision"} /\ ~config.human -> "direct"
    [] OTHER -> "awaited"

Lifecycle == INSTANCE ThreadLifecycle WITH
  course <- Course, phase <- state, adopted <- TheAdopted, records <- Len(agreements)

shown == <<config, state, TheAdopted, Len(agreements)>>

\* The one step of the code that the documents do not have.
RejectsBrainstorm == Course = "brainstorm" /\ state' = "rejected"

\* Until a declaration is committed over a state that it did not read, every
\* step of the declarations, posts and evaluations, overlapping as they may, is a
\* step of the documented life of a thread, or none; the rejection of a
\* brainstorm aside.
FollowsLifecycle ==
  Lifecycle!Init /\ [][raced' \/ RejectsBrainstorm \/ Lifecycle!Next]_shown
=============================================================================
