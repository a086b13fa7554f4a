------------------------------ MODULE WorkClaims ------------------------------
(***************************************************************************)
(* Who works on what: the claims of work on the threads of one project,    *)
(* their overlap, their release, and the work phase the board derives from *)
(* them (packages/board/src/domain: work-claims.ts, work-phase.ts,         *)
(* archive.ts, and the closing declarations of declare.ts).                *)
(*                                                                         *)
(* A claim is not a lock: it is filed after a look at the other claims,    *)
(* outside the transaction that files it, and the answer names those it    *)
(* overlaps.  A release and a closing declaration read their row before    *)
(* they write too.  Each of these requests is two steps here, what it has  *)
(* read being kept in inflight.                                            *)
(***************************************************************************)
EXTENDS Integers, Sequences, FiniteSets, SequencesExt

CONSTANTS
  Thread,        \* threads of the project
  Type,          \* Type[t]: threads.type
  Participant,   \* members of the project
  Human,         \* those that use the human routes; the others use the tools
  PathSet,       \* the paths a claim may name, each a set of sequences of names
  Handler,       \* requests the server can be serving at the same time
  MaxClaims,     \* bound: no more claims are filed
  MaxEvents      \* bound: how much happens to the threads and their pull requests

ThreadTypes ==
  {"proposal", "implementation", "review", "consultation", "brainstorm"}
\* discussing stands for awaiting_decision too: the closing declarations and the
\* work phase do not tell them apart.
States == {"discussing", "decided", "rejected", "completed"}
PullRequestStates == {"open", "merged", "closed"}

ASSUME ConstantsOK ==
  /\ Type \in [Thread -> ThreadTypes]
  /\ Human \subseteq Participant
  /\ PathSet \subseteq SUBSET Seq(STRING)
  /\ MaxClaims \in Nat /\ MaxEvents \in Nat

VARIABLES
  thread,     \* the columns of each thread that matter here
  claims,     \* the rows of work_claims in the order they were filed
  told,       \* pairs <<i, j>>: the answer to claim i named claim j
  missed,     \* history: claim j was filed between the look and the filing of claim i
  prs,        \* the states of the pull requests linked to each thread
  events,     \* how much has happened to threads and pull requests
  inflight    \* what each handler has read and not yet written

claimsVars == <<thread, claims, told, missed, prs, events, inflight>>

-----------------------------------------------------------------------------
(* Paths.  A path is the sequence of what stands between its slashes, so    *)
(* that "docs/" is <<"docs", "">>.                                          *)

Everything == <<".">>

normalizeClaimPath(p) ==
  IF Len(p) > 1 /\ p[Len(p)] = "" THEN SubSeq(p, 1, Len(p) - 1) ELSE p

PathsMeet(p, q) ==
  LET na == normalizeClaimPath(p)
      nb == normalizeClaimPath(q)
  IN  Everything \in {na, nb} \/ IsPrefix(na, nb) \/ IsPrefix(nb, na)

\* Mutated form: only a claim of a whole directory above is noticed.
claimPathsCovered(a, b) ==
  \E p \in a, q \in b : IsPrefix(normalizeClaimPath(p), normalizeClaimPath(q))

claimPathsOverlap(a, b) == \E p \in a, q \in b : PathsMeet(p, q)

-----------------------------------------------------------------------------
(* The rows, and what the board shows of them. *)

Ids == DOMAIN claims
ActiveOn(t) == {i \in Ids : claims[i].active /\ claims[i].thread = t}

\* deriveWorkPhase: where the work of a decided thread stands.
WorkPhase(t) ==
  CASE Type[t] \notin {"implementation", "review"} \/ thread[t].state # "decided"
         -> "none"
    [] OTHER ->
         CASE "open" \in prs[t] -> "in_review"
           [] "open" \notin prs[t] /\ "merged" \in prs[t] -> "merged"
           [] prs[t] \cap {"open", "merged"} = {} /\ ActiveOn(t) # {} -> "in_progress"
           [] OTHER -> "unclaimed"

\* listUnclaimedDecidedImplementations: what the briefing offers to take up.
UnclaimedDecided ==
  {t \in Thread :
     /\ thread[t].state = "decided"
     /\ Type[t] = "implementation"
     /\ ActiveOn(t) = {}
     /\ prs[t] = {}}

\* listActiveProjectClaims: the work under way, as the briefing tells it.
ClaimedThreads == {claims[i].thread : i \in {j \in Ids : claims[j].active}}

-----------------------------------------------------------------------------
Claim == [thread : Thread, who : Participant, paths : PathSet]
Row == [thread : Thread, who : Participant, paths : PathSet, active : BOOLEAN]

Idle == [step |-> "idle"]
Transactions ==
  {Idle}
  \cup [step : {"claiming"}, claim : Claim, seen : SUBSET Nat, known : SUBSET Nat]
  \cup [step : {"releasing"}, id : Nat, who : Participant]
  \cup [step : {"closing"}, thread : Thread, to : {"rejected", "completed"}]

Free(r) == inflight[r] = Idle
Hold(r, tx) == inflight' = [inflight EXCEPT ![r] = tx]

ClaimsInit ==
  /\ thread = [t \in Thread |-> [state |-> "discussing", binding |-> FALSE, archived |-> FALSE]]
  /\ claims = <<>>
  /\ told = {} /\ missed = {}
  /\ prs = [t \in Thread |-> {}] /\ events = 0
  /\ inflight = [r \in Handler |-> Idle]

\* The human routes answer 404 for an archived thread; the tools do not look.
Reaches(who, t) == who \in Human => ~thread[t].archived

Release(i) == [claims[i] EXCEPT !.active = FALSE]

\* Closings, and what happens beside the claims, up to the bound.
Happens == events < MaxEvents /\ events' = events + 1

-----------------------------------------------------------------------------
(* claimWork: the look at the active claims, and the transaction. *)

ReadOverlaps(r, t, who, paths) ==
  /\ Free(r)
  /\ Len(claims) + Cardinality({s \in Handler : inflight[s].step = "claiming"}) < MaxClaims
  /\ paths # {}
  /\ Reaches(who, t)
  /\ Hold(r, [step |-> "claiming",
              claim |-> [thread |-> t, who |-> who, paths |-> paths],
              seen |-> {i \in Ids : /\ claims[i].active
                                    /\ claims[i].who # who
                                    /\ claimPathsOverlap(claims[i].paths, paths)},
              known |-> Ids])
  /\ UNCHANGED <<thread, claims, told, missed, prs, events>>

FileClaim(r) ==
  /\ inflight[r].step = "claiming"
  /\ LET c == inflight[r].claim
     IN  claims' = Append(claims, [thread |-> c.thread, who |-> c.who, paths |-> c.paths,
                                   active |-> TRUE])
  /\ told' = told \cup {<<Len(claims) + 1, j>> : j \in inflight[r].seen}
  /\ missed' = missed \cup {<<Len(claims) + 1, j>> : j \in Ids \ inflight[r].known}
  /\ Hold(r, Idle)
  /\ UNCHANGED <<thread, prs, events>>

(* releaseWork: nothing is done for a claim that is released already. *)

ReadRelease(r, who, i) ==
  /\ Free(r)
  /\ i \in Ids
  /\ Reaches(who, claims[i].thread)
  /\ claims[i].who = who
  /\ claims[i].active
  /\ Hold(r, [step |-> "releasing", id |-> i, who |-> who])
  /\ UNCHANGED <<thread, claims, told, missed, prs, events>>

WriteRelease(r) ==
  /\ inflight[r].step = "releasing"
  /\ claims' = [claims EXCEPT ![inflight[r].id] = Release(inflight[r].id)]
  /\ Hold(r, Idle)
  /\ UNCHANGED <<thread, told, missed, prs, events>>

(* The declarations that close a thread, and release its claims. *)

MayClose(t, to) ==
  \/ to = "rejected" /\ thread[t].state = "discussing"
  \/ to = "completed" /\ thread[t].state = IF Type[t] = "brainstorm"
                                           THEN "discussing" ELSE "decided"

CheckClose(r, t, to) ==
  /\ Free(r)
  /\ MayClose(t, to)
  /\ Happens
  /\ Hold(r, [step |-> "closing", thread |-> t, to |-> to])
  /\ UNCHANGED <<thread, claims, told, missed, prs>>

\* Mutated form: the whole project is laid down.
DeactivateProjectClaims(t) ==
  [i \in Ids |-> IF claims[i].active THEN Release(i) ELSE claims[i]]

\* The update finds the claims by their thread, whatever was read before.
DeactivateThreadClaims(t) ==
  [i \in Ids |-> IF i \in ActiveOn(t) THEN Release(i) ELSE claims[i]]

\* A rejection may be recorded as a binding agreement.
CommitClose(r) ==
  /\ inflight[r].step = "closing"
  /\ LET t == inflight[r].thread
         to == inflight[r].to
     IN  /\ \E b \in (IF to = "rejected" THEN {FALSE, TRUE} ELSE {FALSE}) :
              thread' = [thread EXCEPT ![t].state = to, ![t].binding = @ \/ b]
         /\ claims' = DeactivateThreadClaims(t)
  /\ Hold(r, Idle)
  /\ UNCHANGED <<told, missed, prs, events>>

-----------------------------------------------------------------------------
(* What happens to the threads and their pull requests meanwhile. *)

\* The decision itself is the subject of ThreadDecision.
Decide(t, binding) ==
  /\ Happens
  /\ thread[t].state = "discussing" /\ Type[t] # "brainstorm"
  /\ thread' = [thread EXCEPT ![t].state = "decided", ![t].binding = binding]
  /\ UNCHANGED <<claims, told, missed, prs, inflight>>

\* archiveThread: not a thread with a binding agreement.
Archive(t) ==
  /\ Happens
  /\ ~thread[t].archived /\ ~thread[t].binding
  /\ thread' = [thread EXCEPT ![t].archived = TRUE]
  /\ UNCHANGED <<claims, told, missed, prs, inflight>>

\* linkPullRequest and syncPullRequest are the subject of PullRequests.
LinkPullRequest(t, s) ==
  /\ Happens
  /\ prs' = [prs EXCEPT ![t] = @ \cup {s}]
  /\ UNCHANGED <<thread, claims, told, missed, inflight>>

SyncPullRequest(t, from, to) ==
  /\ Happens
  /\ from \in prs[t] /\ from # to
  /\ prs' = [prs EXCEPT ![t] = (@ \ {from}) \cup {to}]
  /\ UNCHANGED <<thread, claims, told, missed, inflight>>

ClaimsNext ==
  \/ \E r \in Handler :
       \/ \E t \in Thread, who \in Participant, paths \in PathSet :
            ReadOverlaps(r, t, who, paths)
       \/ FileClaim(r)
       \/ \E who \in Participant, i \in 1 .. MaxClaims : ReadRelease(r, who, i)
       \/ WriteRelease(r)
       \/ \E t \in Thread, to \in {"rejected", "completed"} : CheckClose(r, t, to)
       \/ CommitClose(r)
  \/ \E t \in Thread :
       \/ \E b \in BOOLEAN : Decide(t, b)
       \/ Archive(t)
       \/ \E s \in PullRequestStates : LinkPullRequest(t, s)
       \/ \E from, to \in PullRequestStates : SyncPullRequest(t, from, to)

ClaimsSpec == ClaimsInit /\ [][ClaimsNext]_claimsVars

-----------------------------------------------------------------------------
(* Properties *)

\* Types: a row has its columns, a handler what its request needs.
ClaimsTypeOK ==
  /\ thread \in [Thread -> [state : States, binding : BOOLEAN, archived : BOOLEAN]]
  /\ claims \in Seq(Row)
  /\ told \subseteq Ids \X Ids /\ missed \subseteq Ids \X Ids
  /\ prs \in [Thread -> SUBSET PullRequestStates] /\ events \in Nat
  /\ inflight \in [Handler -> Transactions]

AtOdds(i, j) ==
  /\ claims[i].active /\ claims[j].active
  /\ claims[i].who # claims[j].who
  /\ \E p \in claims[i].paths, q \in claims[j].paths : PathsMeet(p, q)

\* Of two participants at work on overlapping paths, the later one was told of
\* the earlier, unless that was filed between the look of the later and its own
\* filing, which are not one transaction (claimWork).
OverlapIsTold ==
  \A i, j \in Ids : j < i /\ AtOdds(i, j) => <<i, j>> \in told \cup missed

\* However requests overlap, a claim outlives everything but a release its own
\* participant asked for and a closing that leaves its own thread closed
\* (releaseWork, deactivateThreadClaims).
EndsRightly(i) ==
  \/ thread'[claims[i].thread].state \in {"rejected", "completed"}
  \/ \E r \in Handler :
       inflight[r] = [step |-> "releasing", id |-> i, who |-> claims[i].who]
EndingsAreRight == \A i \in Ids : (claims[i].active /\ ~claims'[i].active) => EndsRightly(i)
ClaimsOutlive == [][EndingsAreRight]_claimsVars

\* What docs/design/06-layer2.md says: an overlap is not stopped but told.
EveryOverlapIsTold ==
  \A i, j \in Ids : j < i /\ AtOdds(i, j) => <<i, j>> \in told

\* What docs/design/13-implementation-work-phase.md says: the implementations
\* offered to be taken up are those whose phase is unclaimed.
UnclaimedIsOffered ==
  \A t \in Thread :
    Type[t] = "implementation" =>
      (t \in UnclaimedDecided <=> WorkPhase(t) = "unclaimed")

\* What docs/design/07-accounts-and-shell.md says: an archived thread is gone
\* from the briefing.
BriefingHidesArchived ==
  \A t \in UnclaimedDecided \cup ClaimedThreads : ~thread[t].archived
=============================================================================
