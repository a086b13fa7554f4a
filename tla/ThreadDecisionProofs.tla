-------------------------- MODULE ThreadDecisionProofs --------------------------
(***************************************************************************)
(* What is proved about ThreadDecision for any number of participants,     *)
(* proposals and handlers, any windows and any overlapping of the requests *)
(* and the loop: the types, the three invariants of the columns, that only *)
(* a write over a state never read can bring a second agreement out of a   *)
(* thread or lead it off the course the documents draw, and that an        *)
(* adoption breaks its rule only if what the rule looked at was written    *)
(* since.                                                                  *)
(***************************************************************************)
EXTENDS ThreadDecision, TLAPS

-----------------------------------------------------------------------------
(* Lemmas about what a handler carries. *)

\* The record of an idle handler is well typed.
LEMMA IdleType == Idle \in Transactions
  BY DEF Idle, Transactions

\* So are the records a check leaves behind.
LEMMA EvaluatingType ==
  ASSUME DataOK, NEW kind \in DeclarationKinds
  PROVE  Evaluating(kind) \in Transactions
<1>1. (IF entered = None THEN 0 ELSE entered) \in Nat
  BY DEF DataOK
<1>2. Mains \in SUBSET Participant
  BY ConstantsOK DEF DataOK, Mains
<1>3. QED
  BY <1>1, <1>2 DEF Evaluating, Checked, Idle, Transactions, DataOK

LEMMA CheckedType ==
  ASSUME NEW kind \in DeclarationKinds, NEW prop \in Proposal \cup {None}
  PROVE  Checked(kind, prop) \in Transactions
  BY DEF Checked, Idle, Transactions

\* Storing a well-typed record keeps inflight well typed.
LEMMA HoldType ==
  ASSUME inflight \in [Slots -> Transactions], NEW r \in Slots,
         NEW tx \in Transactions, Hold(r, tx)
  PROVE  /\ inflight' \in [Slots -> Transactions]
         /\ inflight'[r] = tx
         /\ \A s \in Slots \ {r} : inflight'[s] = inflight[s]
  BY DEF Hold

-----------------------------------------------------------------------------
(* The inductive invariant.  The types and the three invariants do not      *)
(* suffice: a commit acts on what its check established, so the invariant   *)
(* also says what a handler between the two still knows.  It knows little:  *)
(* the configuration it checked, which never changes, and that an adoption  *)
(* once recorded stays; the state it read may be gone.                      *)

\* The threads that a declaration can bring to await a decision.
MayAwait ==
  \/ config.consensus \in SelectingTypes \cup {"human_ratification"}
  \/ config.consensus \in {"rough", "owner_decision"} /\ config.human

AwaitingIsLegal == state = "awaiting_decision" => MayAwait

\* What is still true of a declaration between its check and its commit.
Legal(tx) ==
  /\ tx.step = "posted" => config.consensus = "unanimous"
  /\ tx.step = "evaluating" => tx.kind \in {"declare_rough", "clock_satisfy"}
  /\ tx.step \in {"evaluating", "checked", "adopting"} =>
       /\ tx.kind = "declare_rough" => config.consensus = "rough"
       /\ tx.kind = "owner_decide" => config.consensus = "owner_decision"
       /\ tx.kind = "request_ratification" => config.consensus = "human_ratification"
       /\ tx.kind = "ratify" => MayAwait
       /\ tx.kind = "clock_satisfy" => config.consensus \in SelectingTypes
       /\ tx.kind = "select_candidate" => tx.prop \in Proposal
       /\ tx.kind = "complete_thread" => config.consensus = "none" \/ Adoptions # {}
  /\ tx.step = "adopting" => Adopts(tx.kind) /\ tx.prop \in Proposal

PendingIsLegal == \A s \in Slots : Legal(inflight[s])

IInv ==
  /\ DataOK
  /\ PendingIsLegal
  /\ AwaitingIsLegal
  /\ DecisionIsRecorded
  /\ AdoptedByRightfulDeclaration
  /\ AwaitingHasDeadline

-----------------------------------------------------------------------------
(* The types. *)

LEMMA InitType == Init => DataOK
<1> SUFFICES ASSUME Init PROVE DataOK
  OBVIOUS
<1>1. inflight \in [Slots -> Transactions]
  BY IdleType DEF Init
<1>2. outcome \in [Proposal -> {"absent", "open", "adopted", "rejected"}]
  BY DEF Init
<1>3. QED
  BY <1>1, <1>2 DEF Init, DataOK, States

LEMMA PostsType == ASSUME DataOK, Posts PROVE DataOK'
<1> USE DEF DataOK
<1>1. ASSUME NEW p \in Proposal, AddProposal(p) PROVE DataOK'
  BY <1>1 DEF AddProposal, timing, votes, clock
<1>2. ASSUME NEW a \in Participant, NEW p \in Proposal, Object(a, p) PROVE DataOK'
  BY <1>2 DEF Object, decision, timing, clock
<1>3. ASSUME NEW r \in Handler, NEW a \in Participant, NEW actor \in Participant,
             NEW p \in Proposal, CheckResolve(r, a, p, actor)
      PROVE DataOK'
  <2>1. (IF config.consensus = "silence" /\ state = "awaiting_decision"
              /\ duration # None
         THEN duration ELSE 0) \in Nat
    OBVIOUS
  <2>2. Resolving(a, p) \in Transactions
    BY <2>1 DEF Resolving, Idle, Transactions
  <2>3. Hold(r, Resolving(a, p)) /\ r \in Slots
    BY <1>3 DEF CheckResolve, Slots
  <2>4. inflight' \in [Slots -> Transactions]
    BY <2>2, <2>3, HoldType
  <2>5. QED
    BY <1>3, <2>4 DEF CheckResolve, decision, timing, votes, clock
<1>4. ASSUME NEW r \in Handler, NEW a \in Participant, NEW p \in Proposal,
             Approve(r, a, p)
      PROVE DataOK'
  <2>1. [Idle EXCEPT !.step = "posted"] \in Transactions
    BY DEF Idle, Transactions
  <2>2. r \in Slots
    BY DEF Slots
  <2>3. inflight' \in [Slots -> Transactions]
    BY <1>4, <2>1, <2>2, HoldType DEF Approve
  <2>4. QED
    BY <1>4, <2>3 DEF Approve, decision, timing, clock
<1>5. ASSUME NEW m \in Participant, AssignRole(m) PROVE DataOK'
  BY <1>5 DEF AssignRole, decision, timing, clock
<1>6. ASSUME NEW m \in Agent, StartSession(m) PROVE DataOK'
  BY <1>6 DEF StartSession, decision, timing, votes
<1>7. QED
  BY <1>1, <1>2, <1>3, <1>4, <1>5, <1>6 DEF Posts

\* A check changes nothing but the record of its handler.
LEMMA CheckType ==
  ASSUME DataOK, NEW r \in Slots, NEW tx \in Transactions, Hold(r, tx),
         UNCHANGED <<config, decision, timing, votes, clock>>
  PROVE  DataOK'
<1>1. inflight' \in [Slots -> Transactions]
  BY HoldType DEF DataOK
<1>2. QED
  BY <1>1 DEF DataOK, decision, timing, votes, clock

LEMMA ChecksType == ASSUME DataOK, Check PROVE DataOK'
<1> PICK r \in Handler, actor \in Participant :
      \/ \E p \in Proposal : CheckSelect(r, actor, p)
      \/ CheckRough(r, actor)
      \/ CheckOwnerDecide(r, actor)
      \/ CheckRequestRatification(r)
      \/ CheckRatify(r, actor)
      \/ CheckSendBack(r, actor)
      \/ CheckReject(r, actor)
      \/ CheckComplete(r)
      \/ \E h \in Windows : CheckExtend(r, actor, h)
      \/ \E h \in Windows : CheckShorten(r, actor, h)
  BY DEF Check
<1>r. r \in Slots
  BY DEF Slots
<1>1. ASSUME NEW p \in Proposal, CheckSelect(r, actor, p) PROVE DataOK'
  BY <1>1, <1>r, CheckType, CheckedType DEF CheckSelect, DeclarationKinds
<1>2. CASE CheckRough(r, actor)
  BY <1>2, <1>r, CheckType, EvaluatingType DEF CheckRough, DeclarationKinds
<1>3. CASE CheckOwnerDecide(r, actor)
  BY <1>3, <1>r, CheckType, CheckedType DEF CheckOwnerDecide, DeclarationKinds
<1>4. CASE CheckRequestRatification(r)
  BY <1>4, <1>r, CheckType, CheckedType DEF CheckRequestRatification, DeclarationKinds
<1>5. CASE CheckRatify(r, actor)
  BY <1>5, <1>r, CheckType, CheckedType DEF CheckRatify, DeclarationKinds
<1>6. CASE CheckSendBack(r, actor)
  BY <1>6, <1>r, CheckType, CheckedType DEF CheckSendBack, DeclarationKinds
<1>7. CASE CheckReject(r, actor)
  <2>1. candidate \in Proposal \cup {None}
    BY DEF DataOK
  <2>2. QED
    BY <1>7, <1>r, <2>1, CheckType, CheckedType DEF CheckReject, DeclarationKinds
<1>8. CASE CheckComplete(r)
  BY <1>8, <1>r, CheckType, CheckedType DEF CheckComplete, DeclarationKinds
<1>w. ASSUME NEW kind \in DeclarationKinds, NEW h \in Windows, entered # None
      PROVE  [Checked(kind, None) EXCEPT !.hours = h, !.since = entered] \in Transactions
  BY <1>w, ConstantsOK DEF DataOK, Checked, Idle, Transactions
<1>9. ASSUME NEW h \in Windows, CheckExtend(r, actor, h) PROVE DataOK'
  BY <1>9, <1>r, <1>w, CheckType DEF CheckExtend, DeclarationKinds
<1>10. ASSUME NEW h \in Windows, CheckShorten(r, actor, h) PROVE DataOK'
  BY <1>10, <1>r, <1>w, CheckType DEF CheckShorten, DeclarationKinds
<1>11. QED
  BY <1>1, <1>2, <1>3, <1>4, <1>5, <1>6, <1>7, <1>8, <1>9, <1>10

LEMMA EvaluateType == ASSUME DataOK, EvaluateTimed PROVE DataOK'
<1>1. Loop \in Slots
  BY DEF Slots
<1>2. QED
  BY <1>1, CheckType, EvaluatingType DEF EvaluateTimed, DeclarationKinds

LEMMA ProgressType ==
  ASSUME DataOK, NEW r \in Slots, Legal(inflight[r]), Progress(r)
  PROVE  DataOK'
<1>t. inflight[r] \in Transactions
  BY DEF DataOK
<1>f. ASSUME Finish(r) PROVE inflight' \in [Slots -> Transactions]
  BY <1>f, IdleType, HoldType DEF Finish, DataOK
<1>1. CASE EvaluateUnanimous(r)
  <2>1. CASE Hold(r, Evaluating("clock_satisfy"))
    BY <1>1, <2>1, CheckType, EvaluatingType DEF EvaluateUnanimous, DeclarationKinds
  <2>2. CASE Finish(r)
    BY <1>1, <2>2, IdleType, CheckType DEF EvaluateUnanimous, Finish
  <2>3. QED
    BY <1>1, <2>1, <2>2 DEF EvaluateUnanimous
<1>11. CASE Weigh(r)
  <2>1. inflight[r].kind \in DeclarationKinds
    BY <1>11 DEF Weigh, Legal, DeclarationKinds
  <2>2. CASE Hold(r, Checked(inflight[r].kind, None))
    BY <1>11, <2>1, <2>2, CheckType, CheckedType DEF Weigh
  <2>3. CASE Finish(r)
    BY <1>11, <2>3, IdleType, CheckType DEF Weigh, Finish
  <2>4. QED
    BY <1>11, <2>2, <2>3 DEF Weigh
<1>12. CASE FlagResolved(r)
  <2>1. [Idle EXCEPT !.step = "restarting", !.hours = inflight[r].hours] \in Transactions
    BY <1>t DEF Idle, Transactions
  <2>2. inflight' \in [Slots -> Transactions]
    BY <1>12, <1>f, <2>1, HoldType DEF FlagResolved, DataOK
  <2>3. QED
    BY <1>12, <2>2 DEF FlagResolved, DataOK, decision, timing, clock
<1>13. CASE RestartWindow(r)
  <2>1. now + inflight[r].hours \in Nat
    BY <1>t DEF DataOK, Transactions
  <2>2. QED
    BY <1>13, <1>f, <2>1 DEF RestartWindow, DataOK, decision, votes, clock
<1>2. CASE CommitSelect(r)
  <2>1. DurationOf \in Nat \cup {None}
    BY ConstantsOK DEF DurationOf
  <2>2. DurationOf = None \/ now + DurationOf \in Nat
    BY <2>1 DEF DataOK
  <2>3. candidate' \in Proposal \cup {None}
    BY <1>2, <1>t DEF CommitSelect, Transactions
  <2>4. QED
    BY <1>2, <1>f, <2>1, <2>2, <2>3 DEF CommitSelect, DataOK, States, timing, votes, clock
<1>3. CASE CommitAwaiting(r)
  BY <1>3, <1>f DEF CommitAwaiting, DataOK, States, timing, votes, clock
<1>4. CASE RereadCandidate(r)
  <2>1. [inflight[r] EXCEPT !.step = "adopting", !.prop = candidate] \in Transactions
    BY <1>t DEF DataOK, Transactions
  <2>2. QED
    BY <1>4, <2>1, CheckType DEF RereadCandidate
<1>5. CASE CommitDecided(r)
  <2>1. inflight[r].prop \in Proposal /\ inflight[r].kind \in DeclarationKinds
    BY <1>5 DEF CommitDecided, Legal, Adopts, DeclarationKinds
  <2>2. [outcome |-> "adopted", prop |-> inflight[r].prop, kind |-> inflight[r].kind]
          \in [outcome : {"adopted", "rejected"}, prop : Proposal, kind : DeclarationKinds]
    BY <2>1
  <2>3. QED
    BY <1>5, <1>f, <2>1, <2>2 DEF CommitDecided, DataOK, States, timing, votes, clock
<1>6. CASE CommitSendBack(r)
  BY <1>6, <1>f DEF CommitSendBack, DataOK, States, timing, votes, clock
<1>7. ASSUME NEW record \in BOOLEAN, CommitReject(r, record) PROVE DataOK'
  <2>1. inflight[r].prop \in Proposal \cup {None}
    BY <1>t DEF Transactions
  <2>2. outcome' \in [Proposal -> {"absent", "open", "adopted", "rejected"}]
    BY <1>7, <2>1 DEF CommitReject, DataOK
  <2>3. record => [outcome |-> "rejected", prop |-> inflight[r].prop, kind |-> "reject_thread"]
          \in [outcome : {"adopted", "rejected"}, prop : Proposal, kind : DeclarationKinds]
    BY <1>7, <2>1 DEF CommitReject, DeclarationKinds
  <2>4. agreements' \in Seq([outcome : {"adopted", "rejected"}, prop : Proposal,
                             kind : DeclarationKinds])
    <3>1. CASE record
      BY <1>7, <2>3, <3>1 DEF CommitReject, DataOK
    <3>2. CASE ~record
      BY <1>7, <3>2 DEF CommitReject, DataOK
    <3>3. QED
      BY <3>1, <3>2
  <2>5. QED
    BY <1>7, <1>f, <2>2, <2>4 DEF CommitReject, DataOK, States, timing, votes, clock
<1>8. CASE CommitComplete(r)
  BY <1>8, <1>f DEF CommitComplete, DataOK, States, timing, votes, clock
<1>9. CASE CommitWindow(r)
  BY <1>9, <1>f, <1>t DEF CommitWindow, DataOK, decision, votes, clock, Transactions
<1>10. QED
  BY <1>1, <1>2, <1>3, <1>4, <1>5, <1>6, <1>7, <1>8, <1>9, <1>11, <1>12, <1>13
     DEF Progress

-----------------------------------------------------------------------------
(* What a pending declaration knows. *)

\* Recording an agreement loses no adoption, and an adoption recorded is one
\* more.
LEMMA AppendKeepsAdoptions ==
  ASSUME DataOK, NEW a, agreements' = Append(agreements, a)
  PROVE  /\ Adoptions # {} => Adoptions' # {}
         /\ a.outcome = "adopted" => Adoptions' # {}
         /\ \A i \in Adoptions' : \/ i \in Adoptions /\ agreements'[i] = agreements[i]
                                  \/ agreements'[i] = a
<1>1. Len(agreements) \in Nat /\ DOMAIN agreements = 1..Len(agreements)
  BY DEF DataOK
<1>2. DOMAIN agreements' = 1..(Len(agreements) + 1)
  BY DEF DataOK
<1>3. \A i \in DOMAIN agreements : agreements'[i] = agreements[i]
  BY DEF DataOK
<1>4. agreements'[Len(agreements) + 1] = a
  BY DEF DataOK
<1>5. QED
  BY <1>1, <1>2, <1>3, <1>4 DEF Adoptions

\* What one handler leaves legal stays legal for the others.
LEMMA HoldLegal ==
  ASSUME DataOK, PendingIsLegal, config' = config,
         Adoptions # {} => Adoptions' # {},
         NEW r \in Slots, NEW tx, Legal(tx), Hold(r, tx)
  PROVE  PendingIsLegal'
<1> SUFFICES ASSUME NEW s \in Slots PROVE Legal(inflight[s])'
  BY DEF PendingIsLegal
<1>1. inflight'[s] = IF s = r THEN tx ELSE inflight[s]
  BY DEF Hold, DataOK
<1>2. Legal(inflight'[s])
  BY <1>1 DEF PendingIsLegal
<1>3. QED
  BY <1>2 DEF Legal, MayAwait, Adopts

LEMMA IdleLegal == Legal(Idle)
  BY DEF Legal, Idle

\* Steps that leave the handlers, the configuration and the record alone.
LEMMA StillLegal ==
  ASSUME PendingIsLegal, UNCHANGED <<config, agreements, inflight>>
  PROVE  PendingIsLegal'
  BY DEF PendingIsLegal, Legal, MayAwait, Adopts, Adoptions

LEMMA PostsLegal == ASSUME DataOK, PendingIsLegal, Posts PROVE PendingIsLegal'
<1>1. ASSUME NEW p \in Proposal, AddProposal(p) PROVE PendingIsLegal'
  BY <1>1, StillLegal DEF AddProposal
<1>2. ASSUME NEW a \in Participant, NEW p \in Proposal, Object(a, p)
      PROVE  PendingIsLegal'
  BY <1>2, StillLegal DEF Object, decision
<1>3. ASSUME NEW r \in Handler, NEW a \in Participant, NEW actor \in Participant,
             NEW p \in Proposal, CheckResolve(r, a, p, actor)
      PROVE  PendingIsLegal'
  <2>1. Hold(r, Resolving(a, p))
    BY <1>3 DEF CheckResolve
  <2>2. Legal(Resolving(a, p))
    BY DEF Legal, Resolving, Idle
  <2>3. UNCHANGED <<config, agreements>> /\ r \in Slots
    BY <1>3 DEF CheckResolve, decision, Slots
  <2>4. QED
    BY <2>1, <2>2, <2>3, HoldLegal DEF Adoptions
<1>4. ASSUME NEW r \in Handler, NEW a \in Participant, NEW p \in Proposal,
             Approve(r, a, p)
      PROVE  PendingIsLegal'
  <2>1. r \in Slots
    BY DEF Slots
  <2>2. Legal([Idle EXCEPT !.step = "posted"])
    BY <1>4 DEF Approve, Legal, Idle
  <2>3. UNCHANGED <<config, agreements>>
    BY <1>4 DEF Approve, decision
  <2>4. QED
    BY <1>4, <2>1, <2>2, <2>3, HoldLegal DEF Approve, Adoptions
<1>5. ASSUME NEW m \in Participant, AssignRole(m) PROVE PendingIsLegal'
  BY <1>5, StillLegal DEF AssignRole, decision
<1>6. ASSUME NEW m \in Agent, StartSession(m) PROVE PendingIsLegal'
  BY <1>6, StillLegal DEF StartSession, decision
<1>7. QED
  BY <1>1, <1>2, <1>3, <1>4, <1>5, <1>6 DEF Posts

\* A step that only stores a legal record.
LEMMA CheckLegal ==
  ASSUME DataOK, PendingIsLegal, NEW r \in Slots, NEW tx, Legal(tx), Hold(r, tx),
         UNCHANGED <<config, decision>>
  PROVE  PendingIsLegal'
  BY HoldLegal DEF decision, Adoptions

LEMMA ChecksLegal ==
  ASSUME DataOK, PendingIsLegal, AwaitingIsLegal, DecisionIsRecorded, Check
  PROVE  PendingIsLegal'
<1> PICK r \in Handler, actor \in Participant :
      \/ \E p \in Proposal : CheckSelect(r, actor, p)
      \/ CheckRough(r, actor)
      \/ CheckOwnerDecide(r, actor)
      \/ CheckRequestRatification(r)
      \/ CheckRatify(r, actor)
      \/ CheckSendBack(r, actor)
      \/ CheckReject(r, actor)
      \/ CheckComplete(r)
      \/ \E h \in Windows : CheckExtend(r, actor, h)
      \/ \E h \in Windows : CheckShorten(r, actor, h)
  BY DEF Check
<1>r. r \in Slots
  BY DEF Slots
<1> USE DEF Legal, Checked, Idle
<1>1. ASSUME NEW p \in Proposal, CheckSelect(r, actor, p) PROVE PendingIsLegal'
  <2>1. Legal(Checked("select_candidate", p))
    OBVIOUS
  <2>2. QED
    BY <1>1, <1>r, <2>1, CheckLegal DEF CheckSelect
<1>2. CASE CheckRough(r, actor)
  <2>1. Legal(Evaluating("declare_rough"))
    BY <1>2 DEF CheckRough, Evaluating
  <2>2. QED
    BY <1>2, <1>r, <2>1, CheckLegal DEF CheckRough
<1>3. CASE CheckOwnerDecide(r, actor)
  <2>1. Legal(Checked("owner_decide", None))
    BY <1>3 DEF CheckOwnerDecide
  <2>2. QED
    BY <1>3, <1>r, <2>1, CheckLegal DEF CheckOwnerDecide
<1>4. CASE CheckRequestRatification(r)
  <2>1. Legal(Checked("request_ratification", None))
    BY <1>4 DEF CheckRequestRatification
  <2>2. QED
    BY <1>4, <1>r, <2>1, CheckLegal DEF CheckRequestRatification
<1>5. CASE CheckRatify(r, actor)
  <2>1. Legal(Checked("ratify", None))
    BY <1>5 DEF CheckRatify, AwaitingIsLegal
  <2>2. QED
    BY <1>5, <1>r, <2>1, CheckLegal DEF CheckRatify
<1>6. CASE CheckSendBack(r, actor)
  <2>1. Legal(Checked("send_back", None))
    OBVIOUS
  <2>2. QED
    BY <1>6, <1>r, <2>1, CheckLegal DEF CheckSendBack
<1>7. CASE CheckReject(r, actor)
  <2>1. Legal(Checked("reject_thread", candidate))
    OBVIOUS
  <2>2. QED
    BY <1>7, <1>r, <2>1, CheckLegal DEF CheckReject
<1>8. CASE CheckComplete(r)
  <2>1. Legal(Checked("complete_thread", None))
    BY <1>8 DEF CheckComplete, DecisionIsRecorded
  <2>2. QED
    BY <1>8, <1>r, <2>1, CheckLegal DEF CheckComplete
<1>9. ASSUME NEW h \in Windows, CheckExtend(r, actor, h) PROVE PendingIsLegal'
  <2>1. Legal([Checked("extend_window", None) EXCEPT !.hours = h, !.since = entered])
    OBVIOUS
  <2>2. QED
    BY <1>9, <1>r, <2>1, CheckLegal DEF CheckExtend
<1>10. ASSUME NEW h \in Windows, CheckShorten(r, actor, h) PROVE PendingIsLegal'
  <2>1. Legal([Checked("shorten_window", None) EXCEPT !.hours = h, !.since = entered])
    OBVIOUS
  <2>2. QED
    BY <1>10, <1>r, <2>1, CheckLegal DEF CheckShorten
<1>11. QED
  BY <1>1, <1>2, <1>3, <1>4, <1>5, <1>6, <1>7, <1>8, <1>9, <1>10

LEMMA EvaluateLegal ==
  ASSUME DataOK, PendingIsLegal, EvaluateTimed PROVE PendingIsLegal'
<1>1. Loop \in Slots
  BY DEF Slots
<1>2. Legal(Evaluating("clock_satisfy"))
  BY DEF EvaluateTimed, WindowIsOver, Legal, Evaluating, Checked, Idle, SelectingTypes
<1>3. QED
  BY <1>1, <1>2, CheckLegal DEF EvaluateTimed

LEMMA ProgressLegal ==
  ASSUME DataOK, PendingIsLegal, NEW r \in Slots, Progress(r)
  PROVE  PendingIsLegal'
<1>l. Legal(inflight[r])
  BY DEF PendingIsLegal
<1>f. ASSUME Finish(r), config' = config, Adoptions # {} => Adoptions' # {}
      PROVE  PendingIsLegal'
  BY <1>f, IdleLegal, HoldLegal DEF Finish
<1>g. ASSUME Finish(r), config' = config, agreements' = agreements
      PROVE  PendingIsLegal'
  BY <1>f, <1>g DEF Adoptions
<1>1. CASE EvaluateUnanimous(r)
  <2>1. Legal(Evaluating("clock_satisfy"))
    BY <1>1, <1>l DEF EvaluateUnanimous, Legal, Evaluating, Checked, Idle, SelectingTypes
  <2>2. CASE Hold(r, Evaluating("clock_satisfy"))
    BY <1>1, <2>1, <2>2, CheckLegal DEF EvaluateUnanimous
  <2>3. CASE Finish(r)
    BY <1>1, <1>g, <2>3 DEF EvaluateUnanimous, decision
  <2>4. QED
    BY <1>1, <2>2, <2>3 DEF EvaluateUnanimous
<1>11. CASE Weigh(r)
  <2>1. Legal(Checked(inflight[r].kind, None))
    BY <1>11, <1>l DEF Weigh, Legal, Checked, Idle
  <2>2. CASE Hold(r, Checked(inflight[r].kind, None))
    BY <1>11, <2>1, <2>2, CheckLegal DEF Weigh
  <2>3. CASE Finish(r)
    BY <1>11, <1>g, <2>3 DEF Weigh, decision
  <2>4. QED
    BY <1>11, <2>2, <2>3 DEF Weigh
<1>12. CASE FlagResolved(r)
  <2> DEFINE tx == [Idle EXCEPT !.step = "restarting", !.hours = inflight[r].hours]
  <2>1. Legal(tx)
    BY DEF Legal, Idle
  <2>2. UNCHANGED <<config, decision>>
    BY <1>12 DEF FlagResolved
  <2>3. CASE Hold(r, tx)
    BY <2>1, <2>2, <2>3, CheckLegal
  <2>4. CASE Finish(r)
    BY <1>g, <2>2, <2>4 DEF decision
  <2>5. QED
    BY <1>12, <2>3, <2>4 DEF FlagResolved
<1>13. CASE RestartWindow(r)
  BY <1>13, <1>g DEF RestartWindow, decision
<1>2. CASE CommitSelect(r)
  BY <1>2, <1>g DEF CommitSelect
<1>3. CASE CommitAwaiting(r)
  BY <1>3, <1>g DEF CommitAwaiting
<1>4. CASE RereadCandidate(r)
  <2>1. Legal([inflight[r] EXCEPT !.step = "adopting", !.prop = candidate])
    BY <1>4, <1>l DEF RereadCandidate, Legal, DataOK, Transactions, Adopts
  <2>2. QED
    BY <1>4, <2>1, CheckLegal DEF RereadCandidate
<1>5. CASE CommitDecided(r)
  BY <1>5, <1>f, AppendKeepsAdoptions DEF CommitDecided
<1>6. CASE CommitSendBack(r)
  BY <1>6, <1>g DEF CommitSendBack
<1>7. ASSUME NEW record \in BOOLEAN, CommitReject(r, record) PROVE PendingIsLegal'
  <2>1. CASE record
    BY <1>7, <1>f, <2>1, AppendKeepsAdoptions DEF CommitReject
  <2>2. CASE ~record
    BY <1>7, <1>g, <2>2 DEF CommitReject
  <2>3. QED
    BY <2>1, <2>2
<1>8. CASE CommitComplete(r)
  BY <1>8, <1>g DEF CommitComplete
<1>9. CASE CommitWindow(r)
  BY <1>9, <1>g DEF CommitWindow, decision
<1>10. QED
  BY <1>1, <1>2, <1>3, <1>4, <1>5, <1>6, <1>7, <1>8, <1>9, <1>11, <1>12, <1>13
     DEF Progress

-----------------------------------------------------------------------------
(* The invariant is inductive. *)

\* What the invariant says of the columns alone.
Columns ==
  /\ AwaitingIsLegal
  /\ DecisionIsRecorded
  /\ AdoptedByRightfulDeclaration
  /\ AwaitingHasDeadline

\* A step that leaves state, candidate and record alone, and takes back no
\* deadline.
LEMMA ColumnsStay ==
  ASSUME Columns, UNCHANGED <<config, state, candidate, agreements, entered>>,
         endsAt # None => endsAt' # None
  PROVE  Columns'
  BY DEF Columns, AwaitingIsLegal, DecisionIsRecorded, AdoptedByRightfulDeclaration,
         AwaitingHasDeadline, Adoptions, Deciders, MayAwait

\* A step that closes the thread, or sends it back, and adopts nothing.
LEMMA ColumnsAtClose ==
  ASSUME Columns, config' = config, state' \in {"discussing", "rejected"},
         \A i \in Adoptions' : i \in Adoptions /\ agreements'[i] = agreements[i]
  PROVE  Columns'
  BY DEF Columns, AwaitingIsLegal, DecisionIsRecorded, AdoptedByRightfulDeclaration,
         AwaitingHasDeadline, Deciders

LEMMA PostsColumns == ASSUME DataOK, Columns, Posts PROVE Columns'
<1>1. ASSUME NEW p \in Proposal, AddProposal(p) PROVE Columns'
  BY <1>1, ColumnsStay DEF AddProposal, timing
<1>2. ASSUME NEW a \in Participant, NEW p \in Proposal, Object(a, p) PROVE Columns'
  BY <1>2, ColumnsStay DEF Object, decision, timing
<1>3. ASSUME NEW r \in Handler, NEW a \in Participant, NEW actor \in Participant,
             NEW p \in Proposal, CheckResolve(r, a, p, actor)
      PROVE  Columns'
  BY <1>3, ColumnsStay DEF CheckResolve, decision, timing
<1>4. ASSUME NEW r \in Handler, NEW a \in Participant, NEW p \in Proposal,
             Approve(r, a, p)
      PROVE  Columns'
  BY <1>4, ColumnsStay DEF Approve, decision, timing
<1>5. ASSUME NEW m \in Participant, AssignRole(m) PROVE Columns'
  BY <1>5, ColumnsStay DEF AssignRole, decision, timing
<1>6. ASSUME NEW m \in Agent, StartSession(m) PROVE Columns'
  BY <1>6, ColumnsStay DEF StartSession, decision, timing
<1>7. QED
  BY <1>1, <1>2, <1>3, <1>4, <1>5, <1>6 DEF Posts

\* A check writes no column at all.
LEMMA CheckWritesNothing ==
  ASSUME Check \/ EvaluateTimed
  PROVE  UNCHANGED <<config, decision, timing, votes, clock>>
  BY DEF Check, EvaluateTimed, CheckSelect, CheckRough, CheckOwnerDecide,
         CheckRequestRatification, CheckRatify, CheckSendBack, CheckReject,
         CheckComplete, CheckExtend, CheckShorten

\* The door a declaration went through when it was checked is one that its
\* thread has.
LEMMA LegalDecides ==
  ASSUME NEW tx, Legal(tx), tx.step = "adopting"
  PROVE  tx.kind \in Deciders
  BY DEF Legal, Adopts, Deciders, MayAwait, SelectingTypes, TimedTypes

LEMMA ProgressColumns ==
  ASSUME DataOK, Columns, NEW r \in Slots, Legal(inflight[r]), Progress(r)
  PROVE  Columns'
<1>1. CASE EvaluateUnanimous(r)
  BY <1>1, ColumnsStay DEF EvaluateUnanimous, decision, timing
<1>11. CASE Weigh(r)
  BY <1>11, ColumnsStay DEF Weigh, decision, timing
<1>12. CASE FlagResolved(r)
  BY <1>12, ColumnsStay DEF FlagResolved, decision, timing
<1>13. CASE RestartWindow(r)
  <2>1. now + inflight[r].hours # None
    BY ConstantsOK DEF DataOK, Transactions
  <2>2. QED
    BY <1>13, <2>1, ColumnsStay DEF RestartWindow, decision
<1>2. CASE CommitSelect(r)
  <2>1. CASE Selecting
    <3>1. inflight[r].prop \in Proposal
      BY <1>2 DEF CommitSelect, AtCommit, Legal
    <3>2. AwaitingHasDeadline'
      BY <1>2, <2>1, <3>1, ConstantsOK
         DEF CommitSelect, AwaitingHasDeadline, DurationOf, TimedTypes, DataOK
    <3>3. AwaitingIsLegal'
      BY <1>2, <2>1 DEF CommitSelect, AwaitingIsLegal, MayAwait, Selecting
    <3>4. DecisionIsRecorded' /\ AdoptedByRightfulDeclaration'
      BY <1>2, <2>1 DEF CommitSelect, Columns, DecisionIsRecorded,
                        AdoptedByRightfulDeclaration, Adoptions, Deciders
    <3>5. QED
      BY <3>2, <3>3, <3>4 DEF Columns
  <2>2. CASE ~Selecting
    BY <1>2, <2>2
       DEF CommitSelect, timing, Columns, AwaitingIsLegal, DecisionIsRecorded,
           AdoptedByRightfulDeclaration, AwaitingHasDeadline, Adoptions, Deciders,
           MayAwait, Selecting, SelectingTypes
  <2>3. QED
    BY <2>1, <2>2
<1>3. CASE CommitAwaiting(r)
  <2>1. MayAwait /\ config.consensus \notin TimedTypes
    BY <1>3 DEF CommitAwaiting, Escalates, Legal, MayAwait, TimedTypes
  <2>2. AwaitingIsLegal' /\ AwaitingHasDeadline'
    BY <1>3, <2>1 DEF CommitAwaiting, AwaitingIsLegal, AwaitingHasDeadline, MayAwait
  <2>3. DecisionIsRecorded' /\ AdoptedByRightfulDeclaration'
    BY <1>3 DEF CommitAwaiting, Columns, DecisionIsRecorded,
                AdoptedByRightfulDeclaration, Adoptions, Deciders
  <2>4. QED
    BY <2>2, <2>3 DEF Columns
<1>4. CASE RereadCandidate(r)
  BY <1>4, ColumnsStay DEF RereadCandidate, decision, timing
<1>5. CASE CommitDecided(r)
  <2> DEFINE a == [outcome |-> "adopted", prop |-> inflight[r].prop,
                   kind |-> inflight[r].kind]
  <2>1. a.kind \in Deciders
    BY <1>5, LegalDecides DEF CommitDecided
  <2>2. agreements' = Append(agreements, a) /\ config' = config /\ state' = "decided"
    BY <1>5 DEF CommitDecided
  <2>3. Adoptions' # {}
    BY <2>2, AppendKeepsAdoptions
  <2>4. AdoptedByRightfulDeclaration'
    <3> HIDE DEF a
    <3>1. \A i \in Adoptions' : \/ i \in Adoptions /\ agreements'[i] = agreements[i]
                                \/ agreements'[i] = a
      BY <2>2, AppendKeepsAdoptions
    <3>2. QED
      BY <2>1, <2>2, <3>1 DEF AdoptedByRightfulDeclaration, Columns, Deciders
  <2>5. QED
    BY <2>2, <2>3, <2>4
       DEF Columns, AwaitingIsLegal, AwaitingHasDeadline, DecisionIsRecorded
<1>6. CASE CommitSendBack(r)
  BY <1>6, ColumnsAtClose DEF CommitSendBack, Adoptions
<1>7. ASSUME NEW record \in BOOLEAN, CommitReject(r, record) PROVE Columns'
  <2> DEFINE a == [outcome |-> "rejected", prop |-> inflight[r].prop,
                   kind |-> "reject_thread"]
  <2>1. agreements' = Append(agreements, a) \/ agreements' = agreements
    BY <1>7 DEF CommitReject
  <2>2. \A i \in Adoptions' : i \in Adoptions /\ agreements'[i] = agreements[i]
    <3>1. CASE agreements' = Append(agreements, a)
      <4>1. \A i \in Adoptions' : agreements'[i].outcome = "adopted"
        BY DEF Adoptions
      <4>2. a.outcome # "adopted"
        OBVIOUS
      <4> HIDE DEF a
      <4>3. QED
        BY <3>1, <4>1, <4>2, AppendKeepsAdoptions
    <3>2. CASE agreements' = agreements
      BY <3>2 DEF Adoptions
    <3>3. QED
      BY <2>1, <3>1, <3>2
  <2>3. QED
    BY <1>7, <2>2, ColumnsAtClose DEF CommitReject
<1>8. CASE CommitComplete(r)
  <2>1. DecisionIsRecorded'
    BY <1>8 DEF CommitComplete, AtCommit, Legal, DecisionIsRecorded, Adoptions
  <2>2. QED
    BY <1>8, <2>1
       DEF CommitComplete, Columns, AwaitingIsLegal, AwaitingHasDeadline,
           AdoptedByRightfulDeclaration, Adoptions, Deciders
<1>9. CASE CommitWindow(r)
  <2>1. endsAt' # None
    BY <1>9, ConstantsOK DEF CommitWindow, DataOK, Transactions
  <2>2. QED
    BY <1>9, <2>1, ColumnsStay DEF CommitWindow, decision
<1>10. QED
  BY <1>1, <1>2, <1>3, <1>4, <1>5, <1>6, <1>7, <1>8, <1>9, <1>11, <1>12, <1>13
     DEF Progress

LEMMA InitIInv == Init => IInv
<1> SUFFICES ASSUME Init PROVE IInv
  OBVIOUS
<1>1. DataOK
  BY InitType
<1>2. PendingIsLegal
  BY IdleLegal DEF Init, PendingIsLegal
<1>3. AwaitingIsLegal /\ DecisionIsRecorded /\ AwaitingHasDeadline
  BY DEF Init, AwaitingIsLegal, DecisionIsRecorded, AwaitingHasDeadline
<1>4. AdoptedByRightfulDeclaration
  BY DEF Init, AdoptedByRightfulDeclaration, Adoptions
<1>5. QED
  BY <1>1, <1>2, <1>3, <1>4 DEF IInv

LEMMA StepIInv == ASSUME IInv, Step PROVE IInv'
<1>i. /\ DataOK /\ PendingIsLegal /\ AwaitingIsLegal /\ DecisionIsRecorded
      /\ Columns
  BY DEF IInv, Columns
<1>s. ASSUME DataOK', PendingIsLegal', Columns' PROVE IInv'
  BY <1>s DEF IInv, Columns
<1>1. CASE Posts
  BY <1>1, <1>i, <1>s, PostsType, PostsLegal, PostsColumns
<1>2. CASE Tick
  <2>1. DataOK'
    BY <1>2, <1>i DEF Tick, DataOK, decision, timing, votes
  <2>2. PendingIsLegal'
    BY <1>2, <1>i, StillLegal DEF Tick, decision
  <2>3. Columns'
    BY <1>2, <1>i, ColumnsStay DEF Tick, decision, timing
  <2>4. QED
    BY <1>s, <2>1, <2>2, <2>3
<1>3. CASE Check \/ EvaluateTimed
  <2>1. Columns'
    BY <1>3, <1>i, CheckWritesNothing, ColumnsStay DEF decision, timing
  <2>2. DataOK' /\ PendingIsLegal'
    BY <1>3, <1>i, ChecksType, EvaluateType, ChecksLegal, EvaluateLegal
  <2>3. QED
    BY <1>s, <2>1, <2>2
<1>4. ASSUME NEW r \in Slots, Progress(r) PROVE IInv'
  <2>1. Legal(inflight[r])
    BY <1>i DEF PendingIsLegal
  <2>2. QED
    BY <1>4, <1>i, <1>s, <2>1, ProgressType, ProgressLegal, ProgressColumns
<1>6. QED
  BY <1>1, <1>2, <1>3, <1>4 DEF Step

LEMMA StutterIInv == ASSUME IInv, UNCHANGED vars PROVE IInv'
<1>i. DataOK /\ PendingIsLegal /\ Columns
  BY DEF IInv, Columns
<1>1. UNCHANGED <<config, decision, timing, votes, clock, inflight>>
  BY DEF vars
<1>2. DataOK'
  BY <1>i, <1>1 DEF DataOK, decision, timing, votes, clock
<1>3. PendingIsLegal'
  BY <1>i, <1>1, StillLegal DEF decision
<1>4. Columns'
  BY <1>i, <1>1, ColumnsStay DEF decision, timing
<1>5. QED
  BY <1>2, <1>3, <1>4 DEF IInv, Columns

LEMMA NextIInv == IInv /\ [Next]_vars => IInv'
  BY StepIInv, StutterIInv DEF Next

\* The inductive invariant holds in every behaviour, overlapping or not.
THEOREM Inductive == Spec => []IInv
  BY InitIInv, NextIInv, PTL DEF Spec

-----------------------------------------------------------------------------
(* The theorems. *)

\* However requests overlap, a thread that was decided or completed has an
\* adopted agreement on record (finalizeDecided, complete_thread).
THEOREM DecisionsAreRecorded == Spec => []DecisionIsRecorded
<1>1. IInv => DecisionIsRecorded
  BY DEF IInv
<1>2. QED
  BY <1>1, Inductive, PTL

\* However requests overlap, an agreement is adopted only through a door that
\* the thread's consensus type opens: where the human_required flag or the type
\* asks for a human, by ratify alone.
THEOREM AdoptionsAreRightful == Spec => []AdoptedByRightfulDeclaration
<1>1. IInv => AdoptedByRightfulDeclaration
  BY DEF IInv
<1>2. QED
  BY <1>1, Inductive, PTL

\* However requests overlap, a timed thread that awaits its decision has a
\* candidate and a deadline, so the loop never skips it for want of one.
THEOREM DeadlinesAreSet == Spec => []AwaitingHasDeadline
<1>1. IInv => AwaitingHasDeadline
  BY DEF IInv
<1>2. QED
  BY <1>1, Inductive, PTL

-----------------------------------------------------------------------------
(* What races alone can break.  A handler that has read the thread knows     *)
(* something of it for as long as nobody writes it, and what was written is  *)
(* in its news.                                                              *)

Open == state \in {"discussing", "awaiting_decision"}

HasRead(s) == inflight[s].step \in {"evaluating", "checked", "adopting"}

\* The state a declaration of this kind was checked in.
StateFits(kind) ==
  /\ kind \in {"select_candidate", "reject_thread"} => Open
  /\ kind \in {"declare_rough", "owner_decide", "request_ratification"} =>
       state = "discussing"
  /\ kind \in {"ratify", "send_back", "clock_satisfy"} => state = "awaiting_decision"
  /\ kind = "complete_thread" =>
       state = IF config.consensus = "none" THEN "discussing" ELSE "decided"

ClockFits ==
  IF config.consensus = "unanimous" THEN Unanimous(Mains, candidate)
                                    ELSE TimedConsensusReached

\* What handler s knows of the thread it has read.
Known(s) ==
  LET tx == inflight[s] IN
  HasRead(s) =>
    /\ "state" \notin news[s] => StateFits(tx.kind)
    /\ "candidate" \notin news[s] =>
         /\ tx.step \in {"evaluating", "adopting"} => tx.prop = candidate
         /\ tx.kind = "ratify" => Author[candidate] # ProjectOwner \/ config.founding
    /\ "votes" \notin news[s] /\ tx.step = "evaluating" => tx.mains = Mains
    /\ {"candidate", "votes"} \cap news[s] = {} /\ tx.kind = "declare_rough"
         /\ tx.step # "evaluating" => ~Objected(Mains, candidate)
    /\ news[s] = {} /\ tx.kind = "clock_satisfy" =>
         IF tx.step # "evaluating" THEN ClockFits
         ELSE config.consensus \notin TimedTypes \/ (WindowIsOver /\ tx.since = entered)

\* The window was opened in the past.
EnteredBefore == entered # None => entered <= now

\* Nothing is recorded of an open thread, and one agreement of a closed one.
Log ==
  ~raced => /\ Len(agreements) <= 1
            /\ Open => agreements = <<>> /\ Adopted = {}

RaceInv == (\A s \in Slots : Known(s)) /\ EnteredBefore /\ Log

\* What no step takes back.
Forward ==
  /\ config' = config
  /\ approvals \subseteq approvals'
  /\ now' \in Nat /\ now <= now'
  /\ \A m \in Agent : started'[m] = started[m] \/ started'[m] = now'

LEMMA StepForward == ASSUME DataOK, Step PROVE Forward
<1> USE DEF Forward
<1>0. now \in Nat
  BY DEF DataOK
<1>1. CASE Posts
  <2>1. ASSUME NEW p \in Proposal, AddProposal(p) PROVE Forward
    BY <1>0, <2>1 DEF AddProposal, votes, clock
  <2>2. ASSUME NEW a \in Participant, NEW p \in Proposal, Object(a, p) PROVE Forward
    BY <1>0, <2>2 DEF Object, clock
  <2>3. ASSUME NEW r \in Handler, NEW a \in Participant, NEW actor \in Participant,
               NEW p \in Proposal, CheckResolve(r, a, p, actor)
        PROVE  Forward
    BY <1>0, <2>3 DEF CheckResolve, votes, clock
  <2>4. ASSUME NEW r \in Handler, NEW a \in Participant, NEW p \in Proposal,
               Approve(r, a, p)
        PROVE  Forward
    BY <1>0, <2>4 DEF Approve, clock
  <2>5. ASSUME NEW m \in Participant, AssignRole(m) PROVE Forward
    BY <1>0, <2>5 DEF AssignRole, clock
  <2>6. ASSUME NEW m \in Agent, StartSession(m) PROVE Forward
    BY <1>0, <2>6 DEF StartSession, votes, DataOK
  <2>7. QED
    BY <1>1, <2>1, <2>2, <2>3, <2>4, <2>5, <2>6 DEF Posts
<1>2. CASE Tick
  BY <1>0, <1>2 DEF Tick, votes
<1>3. CASE Check \/ EvaluateTimed
  BY <1>0, <1>3, CheckWritesNothing DEF votes, clock
<1>4. ASSUME NEW r \in Slots, Progress(r) PROVE Forward
  BY <1>0, <1>4
     DEF Progress, FlagResolved, RestartWindow, EvaluateUnanimous, Weigh, CommitSelect,
         CommitAwaiting, RereadCandidate, CommitDecided, CommitSendBack, CommitReject,
         CommitComplete, CommitWindow, votes, clock
<1>5. QED
  BY <1>1, <1>2, <1>3, <1>4 DEF Step

\* What is not among the writes of a step is as it was.
LEMMA NotWritten ==
  /\ "state" \notin Written => state' = state
  /\ "candidate" \notin Written => candidate' = candidate
  /\ "window" \notin Written => timing' = timing
  /\ "votes" \notin Written => objections' \subseteq objections /\ roles' = roles
  BY DEF Written, News

\* A handler that has read the thread hears of every write.
LEMMA Hears ==
  ASSUME Remember, NEW s \in Slots, HasRead(s), inflight'[s].step # "idle"
  PROVE  news'[s] = news[s] \cup Written
  BY DEF Remember, HasRead, Unread

\* A handler that has just read the thread has no news.
LEMMA HearsNothing ==
  ASSUME Remember, NEW s \in Slots, Unread(s)
  PROVE  news'[s] = {}
  BY DEF Remember

\* Agents that were awake since the window opened still were.
LEMMA AwakeStays ==
  ASSUME DataOK, Forward, EnteredBefore, timing' = timing, roles' = roles, entered # None,
         Awake(Mains, entered)
  PROVE  Awake(Mains, entered)'
<1>1. /\ entered \in Nat /\ now \in Nat /\ now' \in Nat
      /\ now <= now' /\ entered <= now /\ entered' = entered
  BY DEF DataOK, EnteredBefore, Forward, timing
<1>2. now' >= entered /\ now' # None
  BY <1>1, ConstantsOK
<1>3. ASSUME NEW m \in Mains \cap Agent PROVE started'[m] # None /\ started'[m] >= entered
  <2>1. started[m] # None /\ started[m] >= entered
    BY DEF Awake
  <2>2. CASE started'[m] = started[m]
    BY <2>1, <2>2
  <2>3. CASE started'[m] = now'
    BY <1>2, <2>3
  <2>4. QED
    BY <2>2, <2>3 DEF Forward
<1>4. QED
  BY <1>1, <1>3 DEF Awake, Mains

\* Nobody has written what the verdict rests on, so it stands.
LEMMA ObjectedStays ==
  ASSUME objections' \subseteq objections, roles' = roles, candidate' = candidate,
         ~Objected(Mains, candidate)
  PROVE  ~Objected(Mains, candidate)'
  BY DEF Objected, Mains

LEMMA WindowStays ==
  ASSUME DataOK, Forward, UNCHANGED <<state, candidate, timing>>, WindowIsOver
  PROVE  WindowIsOver'
<1>1. entered' = entered /\ endsAt' = endsAt
  BY DEF timing
<1>2. endsAt \in Nat /\ now \in Nat /\ now' \in Nat /\ now <= now' /\ now >= endsAt
  BY DEF DataOK, WindowIsOver, Forward
<1>3. now' >= endsAt'
  BY <1>1, <1>2
<1>4. QED
  BY <1>1, <1>3 DEF WindowIsOver, Forward

LEMMA ClockStays ==
  ASSUME DataOK, Forward, EnteredBefore, ClockFits, Written = {}
  PROVE  ClockFits'
<1>1. /\ UNCHANGED <<state, candidate, timing>> /\ roles' = roles
      /\ objections' \subseteq objections /\ config' = config
  BY NotWritten DEF Forward
<1>2. CASE config.consensus = "unanimous"
  <2>1. Unanimous(Mains, candidate)
    BY <1>2 DEF ClockFits
  <2>2. Unanimous(Mains, candidate)'
    BY <1>1, <2>1 DEF Unanimous, Mains, Forward
  <2>3. QED
    BY <1>1, <1>2, <2>2 DEF ClockFits
<1>3. CASE config.consensus # "unanimous"
  <2>1. WindowIsOver /\ ~Objected(Mains, candidate) /\ Awake(Mains, entered)
    BY <1>3 DEF ClockFits, TimedConsensusReached
  <2>2. WindowIsOver'
    BY <1>1, <2>1, WindowStays
  <2>3. ~Objected(Mains, candidate)'
    BY <1>1, <2>1, ObjectedStays
  <2>4. Awake(Mains, entered)'
    BY <1>1, <2>1, AwakeStays DEF WindowIsOver
  <2>5. QED
    BY <1>1, <1>3, <2>2, <2>3, <2>4 DEF ClockFits, TimedConsensusReached
<1>4. QED
  BY <1>2, <1>3

\* A handler that does not move knows after the step what it knew before it,
\* except what the step has written.
LEMMA KnownStays ==
  ASSUME DataOK, Forward, EnteredBefore, Remember, NEW s \in Slots, Known(s),
         inflight'[s] = inflight[s]
  PROVE  Known(s)'
<1> SUFFICES ASSUME HasRead(s) PROVE Known(s)'
  BY DEF Known, HasRead
<1>n. news'[s] = news[s] \cup Written
  BY Hears DEF HasRead
<1>c. config' = config
  BY DEF Forward
<1>1. "state" \notin news'[s] => StateFits(inflight[s].kind)'
  BY <1>n, <1>c, NotWritten DEF Known, StateFits, Open
<1>2. "candidate" \notin news'[s] =>
        /\ inflight'[s].step \in {"evaluating", "adopting"} => inflight'[s].prop = candidate'
        /\ inflight'[s].kind = "ratify" =>
             Author[candidate'] # ProjectOwner \/ config'.founding
  BY <1>n, <1>c, NotWritten DEF Known
<1>3. "votes" \notin news'[s] /\ inflight'[s].step = "evaluating" =>
        inflight'[s].mains = Mains'
  BY <1>n, NotWritten DEF Known, Mains
<1>4. {"candidate", "votes"} \cap news'[s] = {} /\ inflight'[s].kind = "declare_rough"
        /\ inflight'[s].step # "evaluating" => ~Objected(Mains, candidate)'
  <2> SUFFICES ASSUME {"candidate", "votes"} \cap news'[s] = {},
                      inflight'[s].kind = "declare_rough", inflight'[s].step # "evaluating"
               PROVE  ~Objected(Mains, candidate)'
    OBVIOUS
  <2>1. {"candidate", "votes"} \cap news[s] = {}
    BY <1>n
  <2>2. "candidate" \notin Written /\ "votes" \notin Written
    BY <1>n
  <2>3. ~Objected(Mains, candidate)
    BY <2>1 DEF Known
  <2>4. QED
    BY <2>2, <2>3, NotWritten, ObjectedStays
<1>5. news'[s] = {} /\ inflight'[s].kind = "clock_satisfy" =>
        IF inflight'[s].step # "evaluating" THEN ClockFits'
        ELSE \/ config'.consensus \notin TimedTypes
             \/ WindowIsOver' /\ inflight'[s].since = entered'
  <2> SUFFICES ASSUME news'[s] = {}, inflight'[s].kind = "clock_satisfy"
               PROVE  IF inflight'[s].step # "evaluating" THEN ClockFits'
                      ELSE \/ config'.consensus \notin TimedTypes
                           \/ WindowIsOver' /\ inflight'[s].since = entered'
    OBVIOUS
  <2>1. news[s] = {} /\ Written = {}
    BY <1>n
  <2>2. CASE inflight[s].step # "evaluating"
    <3>1. ClockFits
      BY <2>1, <2>2 DEF Known
    <3>2. QED
      BY <2>1, <2>2, <3>1, ClockStays
  <2>3. CASE inflight[s].step = "evaluating" /\ config.consensus \in TimedTypes
    <3>1. WindowIsOver /\ inflight[s].since = entered
      BY <2>1, <2>3 DEF Known
    <3>2. WindowIsOver' /\ entered' = entered
      BY <2>1, <3>1, NotWritten, WindowStays DEF timing
    <3>3. QED
      BY <2>3, <3>1, <3>2
  <2>4. QED
    BY <1>c, <2>2, <2>3
<1>6. QED
  BY <1>1, <1>2, <1>3, <1>4, <1>5 DEF Known

\* A handler that reads no thread, or is done with it, knows nothing of it.
LEMMA KnowsNothing ==
  ASSUME NEW s \in Slots, inflight'[s].step \notin {"evaluating", "checked", "adopting"}
  PROVE  Known(s)'
  BY DEF Known, HasRead

\* The check of a declaration that rests on no votes.
LEMMA CheckKnown ==
  ASSUME Remember, NEW r \in Slots, Unread(r),
         UNCHANGED <<config, decision, timing, votes, clock>>,
         NEW kind, NEW tx, tx.step = "checked", tx.kind = kind, inflight'[r] = tx,
         kind \notin {"declare_rough", "clock_satisfy"}, StateFits(kind),
         kind = "ratify" => Author[candidate] # ProjectOwner \/ config.founding
  PROVE  Known(r)'
<1>1. UNCHANGED <<config, state, candidate>>
  BY DEF decision
<1>2. StateFits(kind)'
  BY <1>1 DEF StateFits, Open
<1>3. QED
  BY <1>1, <1>2 DEF Known

\* The thread row is read for a verdict.
LEMMA EvaluatingKnown ==
  ASSUME Remember, NEW r \in Slots, Unread(r),
         UNCHANGED <<config, decision, timing, votes, clock>>,
         NEW kind \in {"declare_rough", "clock_satisfy"},
         inflight'[r] = Evaluating(kind), StateFits(kind),
         kind = "clock_satisfy" /\ config.consensus \in TimedTypes => WindowIsOver
  PROVE  Known(r)'
<1>1. /\ inflight'[r].step = "evaluating" /\ inflight'[r].kind = kind
      /\ inflight'[r].prop = candidate /\ inflight'[r].mains = Mains
      /\ entered # None => inflight'[r].since = entered
  BY DEF Evaluating, Checked, Idle
<1>2. UNCHANGED <<config, state, candidate, entered, endsAt, roles, now>>
  BY DEF decision, timing, votes, clock
<1>3. StateFits(kind)' /\ Mains' = Mains
  BY <1>2 DEF StateFits, Open, Mains
<1>4. kind = "clock_satisfy" /\ config'.consensus \in TimedTypes =>
        WindowIsOver' /\ inflight'[r].since = entered'
  BY <1>1, <1>2 DEF WindowIsOver
<1>5. QED
  BY <1>1, <1>2, <1>3, <1>4 DEF Known

\* A step that writes no column adds no news.
LEMMA NoNews ==
  ASSUME Remember, NEW r \in Slots, HasRead(r), inflight'[r].step # "idle",
         UNCHANGED <<config, decision, timing, votes, clock>>
  PROVE  news'[r] = news[r]
<1>1. Written = {}
  BY DEF Written, decision, timing, votes
<1>2. QED
  BY <1>1, Hears

-----------------------------------------------------------------------------
(* Each step keeps what the handlers know.                                   *)

LEMMA NoneMoves ==
  ASSUME DataOK, Forward, Remember, RaceInv, inflight' = inflight
  PROVE  \A s \in Slots : Known(s)'
  BY KnownStays DEF RaceInv

LEMMA OneMoves ==
  ASSUME DataOK, Forward, Remember, RaceInv, NEW r \in Slots, NEW tx, Hold(r, tx),
         Known(r)'
  PROVE  \A s \in Slots : Known(s)'
<1> SUFFICES ASSUME NEW s \in Slots, s # r PROVE Known(s)'
  OBVIOUS
<1>1. inflight'[s] = inflight[s]
  BY DEF Hold, DataOK
<1>2. QED
  BY <1>1, KnownStays DEF RaceInv

\* A handler that moves on to where it has read no thread.
LEMMA OneLeaves ==
  ASSUME DataOK, Forward, Remember, RaceInv, NEW r \in Slots, NEW tx, Hold(r, tx),
         tx.step \notin {"evaluating", "checked", "adopting"}
  PROVE  \A s \in Slots : Known(s)'
<1>1. inflight'[r] = tx
  BY DEF Hold, DataOK
<1>2. Known(r)'
  BY <1>1, KnowsNothing
<1>3. QED
  BY <1>2, OneMoves

\* The check of a declaration, for all handlers.
LEMMA OneChecks ==
  ASSUME DataOK, Forward, Remember, RaceInv, NEW r \in Slots, Unread(r),
         UNCHANGED <<config, decision, timing, votes, clock>>,
         NEW kind, NEW tx, tx.step = "checked", tx.kind = kind, Hold(r, tx),
         kind \notin {"declare_rough", "clock_satisfy"}, StateFits(kind),
         kind = "ratify" => Author[candidate] # ProjectOwner \/ config.founding
  PROVE  \A s \in Slots : Known(s)'
<1>1. inflight'[r] = tx
  BY DEF Hold, DataOK
<1>2. Known(r)'
  BY <1>1, CheckKnown
<1>3. QED
  BY <1>2, OneMoves

LEMMA OneEvaluates ==
  ASSUME DataOK, Forward, Remember, RaceInv, NEW r \in Slots, Unread(r),
         UNCHANGED <<config, decision, timing, votes, clock>>,
         NEW kind \in {"declare_rough", "clock_satisfy"},
         Hold(r, Evaluating(kind)), StateFits(kind),
         kind = "clock_satisfy" /\ config.consensus \in TimedTypes => WindowIsOver
  PROVE  \A s \in Slots : Known(s)'
<1>1. inflight'[r] = Evaluating(kind)
  BY DEF Hold, DataOK
<1>2. Known(r)'
  BY <1>1, EvaluatingKnown
<1>3. QED
  BY <1>2, OneMoves

LEMMA PostsKnown ==
  ASSUME DataOK, Forward, Remember, RaceInv, Posts
  PROVE  \A s \in Slots : Known(s)'
<1>1. ASSUME NEW r \in Handler, NEW a \in Participant, NEW actor \in Participant,
             NEW p \in Proposal, CheckResolve(r, a, p, actor)
      PROVE  \A s \in Slots : Known(s)'
  <2>1. Hold(r, Resolving(a, p)) /\ r \in Slots
    BY <1>1 DEF CheckResolve, Slots
  <2>2. Resolving(a, p).step = "resolving"
    BY DEF Resolving, Idle
  <2>3. QED
    BY <2>1, <2>2, OneLeaves
<1>2. ASSUME NEW r \in Handler, NEW a \in Participant, NEW p \in Proposal,
             Approve(r, a, p)
      PROVE  \A s \in Slots : Known(s)'
  <2>1. [Idle EXCEPT !.step = "posted"].step = "posted"
    BY DEF Idle
  <2>2. r \in Slots /\ Hold(r, [Idle EXCEPT !.step = "posted"])
    BY <1>2 DEF Approve, Slots
  <2>3. QED
    BY <2>1, <2>2, OneLeaves
<1>3. CASE inflight' = inflight
  BY <1>3, NoneMoves
<1>4. QED
  BY <1>1, <1>2, <1>3 DEF Posts, AddProposal, Object, AssignRole, StartSession

LEMMA ChecksKnown ==
  ASSUME DataOK, Forward, Remember, RaceInv, Check
  PROVE  \A s \in Slots : Known(s)'
<1> PICK r \in Handler, actor \in Participant :
      \/ \E p \in Proposal : CheckSelect(r, actor, p)
      \/ CheckRough(r, actor)
      \/ CheckOwnerDecide(r, actor)
      \/ CheckRequestRatification(r)
      \/ CheckRatify(r, actor)
      \/ CheckSendBack(r, actor)
      \/ CheckReject(r, actor)
      \/ CheckComplete(r)
      \/ \E h \in Windows : CheckExtend(r, actor, h)
      \/ \E h \in Windows : CheckShorten(r, actor, h)
  BY DEF Check
<1>r. r \in Slots
  BY DEF Slots
<1>f. Free(r) => Unread(r)
  BY DEF Free, Unread
<1>c. \A kind \in DeclarationKinds, prop \in Proposal \cup {None} :
        Checked(kind, prop).step = "checked" /\ Checked(kind, prop).kind = kind
  BY DEF Checked, Idle
<1>u. UNCHANGED <<config, decision, timing, votes, clock>>
  BY CheckWritesNothing
<1>k. candidate \in Proposal \cup {None}
  BY DEF DataOK
<1> USE DEF StateFits, Open
<1>1. ASSUME NEW p \in Proposal, CheckSelect(r, actor, p)
      PROVE  \A s \in Slots : Known(s)'
  <2>1. Hold(r, Checked("select_candidate", p)) /\ Unread(r) /\ StateFits("select_candidate")
    BY <1>1, <1>f DEF CheckSelect
  <2>2. QED
    BY <1>r, <1>c, <1>u, <2>1, OneChecks DEF DeclarationKinds
<1>2. CASE CheckRough(r, actor)
  <2>1. Hold(r, Evaluating("declare_rough")) /\ Unread(r) /\ StateFits("declare_rough")
    BY <1>2, <1>f DEF CheckRough
  <2>2. QED
    BY <1>r, <1>u, <2>1, OneEvaluates
<1>3. CASE CheckOwnerDecide(r, actor)
  <2>1. Hold(r, Checked("owner_decide", None)) /\ Unread(r) /\ StateFits("owner_decide")
    BY <1>3, <1>f DEF CheckOwnerDecide
  <2>2. QED
    BY <1>r, <1>c, <1>u, <2>1, OneChecks DEF DeclarationKinds
<1>4. CASE CheckRequestRatification(r)
  <2>1. /\ Hold(r, Checked("request_ratification", None)) /\ Unread(r)
        /\ StateFits("request_ratification")
    BY <1>4, <1>f DEF CheckRequestRatification
  <2>2. QED
    BY <1>r, <1>c, <1>u, <2>1, OneChecks DEF DeclarationKinds
<1>5. CASE CheckRatify(r, actor)
  <2>1. /\ Hold(r, Checked("ratify", None)) /\ Unread(r) /\ StateFits("ratify")
        /\ Author[candidate] # ProjectOwner \/ config.founding
    BY <1>5, <1>f DEF CheckRatify
  <2>2. QED
    BY <1>r, <1>c, <1>u, <2>1, OneChecks DEF DeclarationKinds
<1>6. CASE CheckSendBack(r, actor)
  <2>1. Hold(r, Checked("send_back", None)) /\ Unread(r) /\ StateFits("send_back")
    BY <1>6, <1>f DEF CheckSendBack
  <2>2. QED
    BY <1>r, <1>c, <1>u, <2>1, OneChecks DEF DeclarationKinds
<1>7. CASE CheckReject(r, actor)
  <2>1. /\ Hold(r, Checked("reject_thread", candidate)) /\ Unread(r)
        /\ StateFits("reject_thread")
    BY <1>7, <1>f DEF CheckReject
  <2>2. QED
    BY <1>r, <1>c, <1>u, <1>k, <2>1, OneChecks DEF DeclarationKinds
<1>8. CASE CheckComplete(r)
  <2>1. Hold(r, Checked("complete_thread", None)) /\ Unread(r) /\ StateFits("complete_thread")
    BY <1>8, <1>f DEF CheckComplete
  <2>2. QED
    BY <1>r, <1>c, <1>u, <2>1, OneChecks DEF DeclarationKinds
<1>w. ASSUME NEW h, NEW kind \in {"extend_window", "shorten_window"}, Free(r),
             Hold(r, [Checked(kind, None) EXCEPT !.hours = h, !.since = entered])
      PROVE  \A s \in Slots : Known(s)'
  <2> DEFINE tx == [Checked(kind, None) EXCEPT !.hours = h, !.since = entered]
  <2>1. tx.step = "checked" /\ tx.kind = kind
    BY DEF Checked, Idle
  <2>2. StateFits(kind) /\ kind \notin {"declare_rough", "clock_satisfy", "ratify"}
    OBVIOUS
  <2>3. Hold(r, tx) /\ Unread(r)
    BY <1>w, <1>f
  <2> HIDE DEF tx
  <2>4. QED
    BY <1>r, <1>u, <2>1, <2>2, <2>3, OneChecks
<1>9. ASSUME NEW h \in Windows, CheckExtend(r, actor, h) \/ CheckShorten(r, actor, h)
      PROVE  \A s \in Slots : Known(s)'
  BY <1>9, <1>w DEF CheckExtend, CheckShorten
<1>10. QED
  BY <1>1, <1>2, <1>3, <1>4, <1>5, <1>6, <1>7, <1>8, <1>9

LEMMA EvaluateKnown ==
  ASSUME DataOK, Forward, Remember, RaceInv, EvaluateTimed
  PROVE  \A s \in Slots : Known(s)'
<1>1. Loop \in Slots /\ Unread(Loop) /\ Hold(Loop, Evaluating("clock_satisfy"))
  BY DEF EvaluateTimed, Slots, Unread
<1>2. WindowIsOver /\ UNCHANGED <<config, decision, timing, votes, clock>>
  BY DEF EvaluateTimed
<1>3. StateFits("clock_satisfy")
  BY <1>2 DEF StateFits, WindowIsOver
<1>4. QED
  BY <1>1, <1>2, <1>3, OneEvaluates

\* The verdict holds of the thread as it is, if nothing was written since it was
\* read.
LEMMA WeighKnown ==
  ASSUME DataOK, Remember, NEW r \in Slots, Known(r), Legal(inflight[r]),
         inflight[r].step = "evaluating", Satisfied(inflight[r]),
         inflight'[r] = Checked(inflight[r].kind, None),
         UNCHANGED <<config, decision, timing, votes, clock>>
  PROVE  Known(r)'
<1> DEFINE tx == inflight[r]
<1>1. inflight'[r].step = "checked" /\ inflight'[r].kind = tx.kind
  BY DEF Checked, Idle
<1>2. news'[r] = news[r]
  BY <1>1, NoNews DEF HasRead
<1>3. UNCHANGED <<config, state, candidate, entered, endsAt, objections, approvals, roles,
                  started, now>>
  BY DEF decision, timing, votes, clock
<1>4. tx.kind \in {"declare_rough", "clock_satisfy"} /\ HasRead(r)
  BY DEF Legal, HasRead
<1>5. "state" \notin news'[r] => StateFits(tx.kind)'
  BY <1>1, <1>2, <1>3, <1>4 DEF Known, StateFits, Open
<1>6. ASSUME {"candidate", "votes"} \cap news[r] = {}, tx.kind = "declare_rough"
      PROVE  ~Objected(Mains, candidate)
  <2>1. tx.prop = candidate /\ tx.mains = Mains
    BY <1>4, <1>6 DEF Known
  <2>2. ~Objected(tx.mains, tx.prop)
    BY <1>4, <1>6 DEF Satisfied, Legal, TimedTypes
  <2>3. QED
    BY <2>1, <2>2
<1>7. ASSUME news[r] = {}, tx.kind = "clock_satisfy"
      PROVE  ClockFits
  <2>1. tx.prop = candidate /\ tx.mains = Mains
    BY <1>4, <1>7 DEF Known
  <2>2. CASE config.consensus = "unanimous"
    <3>1. Unanimous(tx.mains, tx.prop)
      BY <2>2 DEF Satisfied, TimedTypes
    <3>2. QED
      BY <2>1, <2>2, <3>1 DEF ClockFits
  <2>3. CASE config.consensus \in TimedTypes
    <3>1. WindowIsOver /\ tx.since = entered
      BY <1>4, <1>7, <2>3 DEF Known
    <3>2. ~Objected(tx.mains, tx.prop) /\ Awake(tx.mains, tx.since)
      BY <2>3 DEF Satisfied, TimedTypes
    <3>3. QED
      BY <2>1, <2>3, <3>1, <3>2 DEF ClockFits, TimedConsensusReached, TimedTypes
  <2>4. QED
    BY <1>7, <2>2, <2>3 DEF Legal, SelectingTypes
<1>8. ~Objected(Mains, candidate) => ~Objected(Mains, candidate)'
  BY <1>3 DEF Objected, Mains
<1>9. ClockFits => ClockFits'
  BY <1>3 DEF ClockFits, TimedConsensusReached, WindowIsOver, Unanimous, Objected, Awake,
              Mains
<1>10. QED
  BY <1>1, <1>2, <1>4, <1>5, <1>6, <1>7, <1>8, <1>9 DEF Known

\* The candidate is read again.
LEMMA RereadKnown ==
  ASSUME DataOK, Remember, NEW r \in Slots, Known(r), RereadCandidate(r)
  PROVE  Known(r)'
<1>t. inflight[r] \in Transactions
  BY DEF DataOK
<1>1. /\ inflight'[r].step = "adopting" /\ inflight'[r].kind = inflight[r].kind
      /\ inflight'[r].prop = candidate
  BY <1>t DEF RereadCandidate, Hold, DataOK, Transactions
<1>2. /\ inflight[r].step = "checked"
      /\ UNCHANGED <<config, decision, timing, votes, clock>>
  BY DEF RereadCandidate
<1>3. news'[r] = news[r] /\ HasRead(r)
  BY <1>1, <1>2, NoNews DEF HasRead
<1>4. UNCHANGED <<config, state, candidate, entered, endsAt, objections, approvals, roles,
                  started, now>>
  BY <1>2 DEF decision, timing, votes, clock
<1>5. StateFits(inflight[r].kind) => StateFits(inflight[r].kind)'
  BY <1>1, <1>4 DEF StateFits, Open
<1>6. ~Objected(Mains, candidate) => ~Objected(Mains, candidate)'
  BY <1>4 DEF Objected, Mains
<1>7. ClockFits => ClockFits'
  BY <1>4 DEF ClockFits, TimedConsensusReached, WindowIsOver, Unanimous, Objected, Awake,
              Mains
<1>8. QED
  BY <1>1, <1>2, <1>3, <1>4, <1>5, <1>6, <1>7 DEF Known

LEMMA ProgressKnown ==
  ASSUME DataOK, PendingIsLegal, Forward, Remember, RaceInv, NEW r \in Slots, Progress(r)
  PROVE  \A s \in Slots : Known(s)'
<1>l. Legal(inflight[r]) /\ Known(r)
  BY DEF PendingIsLegal, RaceInv
<1>f. Finish(r) => \A s \in Slots : Known(s)'
  <2>1. Idle.step = "idle"
    BY DEF Idle
  <2>2. QED
    BY <2>1, OneLeaves DEF Finish
<1>1. CASE EvaluateUnanimous(r)
  <2>1. CASE Hold(r, Evaluating("clock_satisfy"))
    <3>1. (Unread(r) /\ StateFits("clock_satisfy")) \/ Finish(r)
      BY <1>1 DEF EvaluateUnanimous, Unread, StateFits
    <3>2. config.consensus \notin TimedTypes
      BY <1>1, <1>l DEF EvaluateUnanimous, Legal, TimedTypes
    <3>3. UNCHANGED <<config, decision, timing, votes, clock>>
      BY <1>1 DEF EvaluateUnanimous
    <3>4. CASE Unread(r) /\ StateFits("clock_satisfy")
      BY <2>1, <3>2, <3>3, <3>4, OneEvaluates
    <3>5. QED
      BY <1>f, <3>1, <3>4
  <2>2. QED
    BY <1>1, <1>f, <2>1 DEF EvaluateUnanimous
<1>2. CASE Weigh(r)
  <2>1. CASE Finish(r)
    BY <1>f, <2>1
  <2>2. CASE Satisfied(inflight[r]) /\ Hold(r, Checked(inflight[r].kind, None))
    <3>1. inflight'[r] = Checked(inflight[r].kind, None)
      BY <2>2 DEF Hold, DataOK
    <3>2. Known(r)'
      BY <1>2, <1>l, <2>2, <3>1, WeighKnown DEF Weigh
    <3>3. QED
      BY <2>2, <3>2, OneMoves
  <2>3. QED
    BY <1>2, <2>1, <2>2 DEF Weigh
<1>3. CASE RereadCandidate(r)
  <2>1. Known(r)'
    BY <1>3, <1>l, RereadKnown
  <2>2. QED
    BY <1>3, <2>1, OneMoves DEF RereadCandidate
<1>4. CASE FlagResolved(r)
  <2>1. [Idle EXCEPT !.step = "restarting", !.hours = inflight[r].hours].step = "restarting"
    BY DEF Idle
  <2>2. QED
    BY <1>4, <1>f, <2>1, OneLeaves DEF FlagResolved
<1>5. CASE Finish(r)
  BY <1>f, <1>5
<1>6. QED
  BY <1>1, <1>2, <1>3, <1>4, <1>5
     DEF Progress, RestartWindow, CommitSelect, CommitAwaiting, CommitDecided,
         CommitSendBack, CommitReject, CommitComplete, CommitWindow

-----------------------------------------------------------------------------
(* The record of a thread over which nothing was written unread.             *)

\* An unraced declaration commits in a state that fits it.
LEMMA Unraced ==
  ASSUME Remember, NEW r \in Slots, Known(r), ~raced', Declares(r)
  PROVE  StateFits(inflight[r].kind)
<1>1. HasRead(r) /\ "state" \notin news[r]
  BY DEF Remember, Declares, HasRead
<1>2. QED
  BY <1>1 DEF Known

LEMMA RacedStays == ASSUME Remember, ~raced' PROVE ~raced
  BY DEF Remember

\* A commit is the last step of its handler.
LEMMA CommitDeclares ==
  ASSUME DataOK, NEW r \in Slots, Finish(r), inflight[r].step \in {"checked", "adopting"},
         inflight[r].kind \notin {"extend_window", "shorten_window"}
  PROVE  Declares(r)
  BY DEF Finish, Hold, DataOK, Idle, Declares

LEMMA LogStays ==
  ASSUME Remember, Log, UNCHANGED <<state, agreements>>, Adopted' = Adopted
  PROVE  Log'
  BY RacedStays DEF Log, Open

\* One more in a record that is empty.
LEMMA FirstRecord ==
  ASSUME agreements = <<>>, NEW a, agreements' = Append(agreements, a)
  PROVE  Len(agreements') = 1
  OBVIOUS

\* A commit that records nothing and leaves no thread open that was closed.
LEMMA LogUnmoved ==
  ASSUME Remember, Log, UNCHANGED <<agreements, outcome>>, ~raced' /\ Open' => Open
  PROVE  Log'
  BY RacedStays DEF Log, Adopted

LEMMA PostsLog == ASSUME DataOK, Remember, Log, Posts PROVE Log'
<1>1. UNCHANGED <<state, agreements>>
  BY DEF Posts, AddProposal, Object, CheckResolve, Approve, AssignRole, StartSession,
         decision
<1>2. Adopted' = Adopted
  <2>1. ASSUME NEW p \in Proposal, AddProposal(p) PROVE Adopted' = Adopted
    BY <2>1 DEF AddProposal, Adopted, Exists, DataOK
  <2>2. QED
    BY <2>1 DEF Posts, Object, CheckResolve, Approve, AssignRole, StartSession,
                decision, Adopted
<1>3. QED
  BY <1>1, <1>2, LogStays

LEMMA ProgressLog ==
  ASSUME DataOK, PendingIsLegal, Remember, RaceInv, NEW r \in Slots, Progress(r)
  PROVE  Log'
<1>k. Known(r) /\ Log /\ Legal(inflight[r])
  BY DEF RaceInv, PendingIsLegal
<1>u. ASSUME UNCHANGED decision PROVE Log'
  BY <1>k, <1>u, LogStays DEF decision, Adopted
<1>1. CASE UNCHANGED decision
  BY <1>1, <1>u
<1>2. CASE CommitSelect(r)
  <2>1. Declares(r) /\ inflight[r].kind = "select_candidate"
    BY <1>2, CommitDeclares DEF CommitSelect, AtCommit
  <2>2. ~raced' => Open
    BY <1>k, <2>1, Unraced DEF StateFits
  <2>3. QED
    BY <1>2, <1>k, <2>2, LogUnmoved DEF CommitSelect
<1>3. CASE CommitAwaiting(r)
  <2>1. Declares(r) /\ inflight[r].kind
          \in {"request_ratification", "declare_rough", "owner_decide"}
    BY <1>3, CommitDeclares DEF CommitAwaiting, Escalates
  <2>2. ~raced' => Open
    BY <1>k, <2>1, Unraced DEF StateFits, Open
  <2>3. QED
    BY <1>3, <1>k, <2>2, LogUnmoved DEF CommitAwaiting
<1>4. CASE CommitDecided(r)
  <2>1. inflight[r].kind \in {"ratify", "clock_satisfy", "declare_rough", "owner_decide"}
    BY <1>4, <1>k DEF CommitDecided, Legal, Adopts
  <2>2. Declares(r)
    BY <1>4, <2>1, CommitDeclares DEF CommitDecided
  <2>3. ~raced' => Open
    BY <1>k, <2>1, <2>2, Unraced DEF StateFits, Open
  <2>4. state' = "decided" /\ \E a : agreements' = Append(agreements, a)
    BY <1>4 DEF CommitDecided
  <2>5. ~raced' => Len(agreements') = 1
    BY <1>k, <2>3, <2>4, FirstRecord, RacedStays DEF Log
  <2>6. QED
    BY <2>4, <2>5 DEF Log, Open
<1>5. CASE CommitSendBack(r)
  <2>1. Declares(r) /\ inflight[r].kind = "send_back"
    BY <1>5, CommitDeclares DEF CommitSendBack, AtCommit
  <2>2. ~raced' => Open
    BY <1>k, <2>1, Unraced DEF StateFits, Open
  <2>3. QED
    BY <1>5, <1>k, <2>2, LogUnmoved DEF CommitSendBack
<1>6. ASSUME NEW record \in BOOLEAN, CommitReject(r, record) PROVE Log'
  <2>1. Declares(r) /\ inflight[r].kind = "reject_thread"
    BY <1>6, CommitDeclares DEF CommitReject, AtCommit
  <2>2. ~raced' => Open
    BY <1>k, <2>1, Unraced DEF StateFits
  <2>3. /\ state' = "rejected"
        /\ agreements' = agreements \/ \E a : agreements' = Append(agreements, a)
    BY <1>6 DEF CommitReject
  <2>4. ~raced' => Len(agreements') <= 1
    <3>1. ~raced' => agreements = <<>>
      BY <1>k, <2>2, RacedStays DEF Log
    <3>2. ASSUME agreements = <<>> PROVE Len(agreements') <= 1
      <4>1. CASE agreements' = agreements
        BY <3>2, <4>1
      <4>2. ASSUME NEW a, agreements' = Append(agreements, a) PROVE Len(agreements') <= 1
        BY <3>2, <4>2, FirstRecord
      <4>3. QED
        BY <2>3, <4>1, <4>2
    <3>3. QED
      BY <3>1, <3>2
  <2>5. ~Open'
    BY <2>3 DEF Open
  <2>6. QED
    BY <2>4, <2>5 DEF Log
<1>7. CASE CommitComplete(r)
  <2>1. state' = "completed" /\ UNCHANGED <<agreements, outcome>>
    BY <1>7 DEF CommitComplete
  <2>2. QED
    BY <1>k, <2>1, LogUnmoved DEF Open
<1>8. QED
  BY <1>1, <1>2, <1>3, <1>4, <1>5, <1>6, <1>7
     DEF Progress, FlagResolved, RestartWindow, EvaluateUnanimous, Weigh, RereadCandidate,
         CommitWindow

\* The window is never opened in the future.
LEMMA EnteredStays ==
  ASSUME DataOK, Forward, EnteredBefore, Step
  PROVE  EnteredBefore'
<1>1. CASE entered' = entered
  BY <1>1 DEF EnteredBefore, Forward, DataOK
<1>2. ASSUME NEW r \in Slots, CommitSelect(r) PROVE EnteredBefore'
  <2>1. CASE entered' = entered
    BY <2>1 DEF EnteredBefore, Forward, DataOK
  <2>2. CASE entered' = now
    BY <1>2, <2>2 DEF CommitSelect, clock, EnteredBefore, DataOK
  <2>3. QED
    BY <1>2, <2>1, <2>2 DEF CommitSelect, timing
<1>3. CASE Posts
  <2>1. entered' = entered
    BY <1>3 DEF Posts, AddProposal, Object, CheckResolve, Approve, AssignRole,
                StartSession, timing
  <2>2. QED
    BY <1>1, <2>1
<1>4. CASE Tick
  BY <1>1, <1>4 DEF Tick, timing
<1>5. CASE Check \/ EvaluateTimed
  BY <1>1, <1>5, CheckWritesNothing DEF timing
<1>6. ASSUME NEW r \in Slots, Progress(r) PROVE EnteredBefore'
  BY <1>1, <1>2, <1>6
     DEF Progress, FlagResolved, RestartWindow, EvaluateUnanimous, Weigh, CommitAwaiting,
         RereadCandidate, CommitDecided, CommitSendBack, CommitReject, CommitComplete,
         CommitWindow, timing
<1>7. QED
  BY <1>3, <1>4, <1>5, <1>6 DEF Step

LEMMA InitRace == Init => RaceInv
<1> SUFFICES ASSUME Init PROVE RaceInv
  OBVIOUS
<1>1. \A s \in Slots : Known(s)
  BY DEF Init, Idle, Known, HasRead
<1>2. EnteredBefore
  BY DEF Init, EnteredBefore
<1>3. Log
  BY DEF Init, Log, Adopted
<1>4. QED
  BY <1>1, <1>2, <1>3 DEF RaceInv

LEMMA NextRace == IInv /\ RaceInv /\ [Next]_vars => RaceInv'
<1> SUFFICES ASSUME IInv, RaceInv, [Next]_vars PROVE RaceInv'
  OBVIOUS
<1>i. DataOK /\ PendingIsLegal /\ EnteredBefore /\ Log
  BY DEF IInv, RaceInv
<1>1. CASE Next
  <2>1. Step /\ Remember
    BY <1>1 DEF Next
  <2>2. Forward
    BY <1>i, <2>1, StepForward
  <2>3. EnteredBefore'
    BY <1>i, <2>1, <2>2, EnteredStays
  <2>4. (\A s \in Slots : Known(s)') /\ Log'
    <3>1. CASE Posts
      BY <1>i, <2>1, <2>2, <3>1, PostsKnown, PostsLog
    <3>2. CASE Tick
      <4>1. inflight' = inflight /\ UNCHANGED decision
        BY <3>2 DEF Tick
      <4>2. Log'
        BY <1>i, <2>1, <4>1, LogStays DEF decision, Adopted
      <4>3. QED
        BY <1>i, <2>1, <2>2, <4>1, <4>2, NoneMoves
    <3>3. CASE Check \/ EvaluateTimed
      <4>1. Log'
        BY <1>i, <2>1, <3>3, CheckWritesNothing, LogStays DEF decision, Adopted
      <4>2. QED
        BY <1>i, <2>1, <2>2, <3>3, <4>1, ChecksKnown, EvaluateKnown
    <3>4. ASSUME NEW r \in Slots, Progress(r)
          PROVE  (\A s \in Slots : Known(s)') /\ Log'
      BY <1>i, <2>1, <2>2, <3>4, ProgressKnown, ProgressLog
    <3>5. QED
      BY <2>1, <3>1, <3>2, <3>3, <3>4 DEF Step
  <2>5. QED
    BY <2>3, <2>4 DEF RaceInv
<1>2. CASE UNCHANGED vars
  <2>1. UNCHANGED <<config, state, candidate, entered, endsAt, duration, outcome, approvals,
                    objections, roles, started, now, agreements, inflight, news, raced>>
    BY <1>2 DEF vars, decision, timing, votes, clock, history
  <2>2. ASSUME NEW s \in Slots PROVE Known(s)'
    <3>1. Known(s)
      BY DEF RaceInv
    <3>2. \A kind : StateFits(kind)' <=> StateFits(kind)
      BY <2>1 DEF StateFits, Open
    <3>3. /\ ClockFits' <=> ClockFits
          /\ WindowIsOver' <=> WindowIsOver
          /\ Objected(Mains, candidate)' <=> Objected(Mains, candidate)
          /\ Mains' = Mains
      BY <2>1 DEF ClockFits, TimedConsensusReached, WindowIsOver, Unanimous, Objected,
                  Awake, Mains
    <3>4. QED
      BY <2>1, <3>1, <3>2, <3>3 DEF Known, HasRead
  <2>3. EnteredBefore' /\ Log'
    BY <1>i, <2>1 DEF EnteredBefore, Log, Open, Adopted
  <2>4. QED
    BY <2>2, <2>3 DEF RaceInv
<1>3. QED
  BY <1>1, <1>2

\* What a handler has read holds for as long as it hears of no write, in every
\* behaviour.
THEOREM KnownUntilWritten == Spec => [](IInv /\ RaceInv)
<1>1. Init => IInv /\ RaceInv
  BY InitIInv, InitRace
<1>2. IInv /\ RaceInv /\ [Next]_vars => (IInv /\ RaceInv)'
  BY NextIInv, NextRace
<1>3. QED
  BY <1>1, <1>2, PTL DEF Spec

\* Types, those of the history included.
THEOREM TypeCorrect == Spec => []TypeOK
<1>1. Init => TypeOK
  BY InitType DEF Init, TypeOK
<1>2. IInv /\ TypeOK /\ [Next]_vars => TypeOK'
  <2> SUFFICES ASSUME IInv, TypeOK, [Next]_vars PROVE TypeOK'
    OBVIOUS
  <2>1. DataOK'
    BY NextIInv DEF IInv
  <2>2. CASE Next
    <3>1. Written \in SUBSET News
      BY DEF Written
    <3>2. news' \in [Slots -> SUBSET News]
      BY <2>2, <3>1 DEF Next, Remember, TypeOK
    <3>3. raced' \in BOOLEAN
      <4>1. raced' = (raced \/ \E s \in Slots : Declares(s) /\ "state" \in news[s])
        BY <2>2 DEF Next, Remember
      <4>2. QED
        BY <4>1, Zenon
    <3>4. QED
      BY <2>1, <3>2, <3>3 DEF TypeOK
  <2>3. CASE UNCHANGED vars
    BY <2>1, <2>3 DEF vars, history, TypeOK
  <2>4. QED
    BY <2>2, <2>3
<1>3. QED
  BY <1>1, <1>2, Inductive, PTL DEF Spec

\* However requests and the loop overlap, a thread leaves a second agreement only
\* after some declaration was committed over a state that it had not read.
THEOREM OneAgreementUnlessRaced == Spec => []OneAgreement
<1>1. RaceInv => OneAgreement
  BY DEF RaceInv, Log, OneAgreement
<1>2. QED
  BY <1>1, KnownUntilWritten, PTL

\* However requests and the loop overlap, an adoption agrees with the rule of its
\* declaration when it is recorded, unless what the rule looked at was written
\* after the handler had read the thread.
THEOREM AdoptionsFollowTheirRules == Spec => AdoptionFollowsItsRule
<1> DEFINE Rule(r, p) ==
      LET kind == inflight[r].kind IN
      /\ AdoptedDespite(r, p, {"state"}) =>
           state = IF kind \in {"ratify", "clock_satisfy"} THEN "awaiting_decision"
                                                           ELSE "discussing"
      /\ AdoptedDespite(r, p, {"candidate"}) /\ kind = "ratify" =>
           Author[p] # ProjectOwner \/ config.founding
      /\ AdoptedDespite(r, p, {"candidate", "votes"}) /\ kind = "declare_rough" =>
           ~Objected(Mains, p)
      /\ AdoptedDespite(r, p, News) /\ kind = "clock_satisfy" =>
           /\ p = candidate
           /\ IF config.consensus = "unanimous" THEN Unanimous(Mains, p)
                                                ELSE TimedConsensusReached
<1>1. ASSUME IInv, RaceInv, TypeOK, NEW r \in Slots, NEW p \in Proposal PROVE Rule(r, p)
  <2> SUFFICES ASSUME CommitDecided(r), inflight[r].prop = p PROVE Rule(r, p)
    BY DEF AdoptedDespite
  <2>1. Known(r) /\ Legal(inflight[r]) /\ HasRead(r) /\ inflight[r].step = "adopting"
    BY <1>1 DEF IInv, PendingIsLegal, RaceInv, CommitDecided, HasRead
  <2>2. inflight[r].kind \in {"ratify", "clock_satisfy", "declare_rough", "owner_decide"}
    BY <2>1 DEF Legal, Adopts
  <2>3. "state" \notin news[r] =>
          state = IF inflight[r].kind \in {"ratify", "clock_satisfy"}
                  THEN "awaiting_decision" ELSE "discussing"
    BY <2>1, <2>2 DEF Known, StateFits
  <2>4. "candidate" \notin news[r] =>
          /\ p = candidate
          /\ inflight[r].kind = "ratify" => Author[p] # ProjectOwner \/ config.founding
    BY <2>1 DEF Known
  <2>5. {"candidate", "votes"} \cap news[r] = {} /\ inflight[r].kind = "declare_rough" =>
          ~Objected(Mains, p)
    BY <2>1, <2>4 DEF Known
  <2>6. news[r] = {} /\ inflight[r].kind = "clock_satisfy" => p = candidate /\ ClockFits
    BY <2>1, <2>4 DEF Known
  <2>7. AdoptedDespite(r, p, {"state"}) => "state" \notin news[r]
    BY DEF AdoptedDespite
  <2>8. AdoptedDespite(r, p, {"candidate"}) => "candidate" \notin news[r]
    BY DEF AdoptedDespite
  <2>9. AdoptedDespite(r, p, {"candidate", "votes"}) =>
          {"candidate", "votes"} \cap news[r] = {}
    BY DEF AdoptedDespite
  <2>10. AdoptedDespite(r, p, News) => news[r] = {}
    BY <1>1 DEF AdoptedDespite, TypeOK
  <2>11. p = candidate /\ ClockFits =>
           IF config.consensus = "unanimous" THEN Unanimous(Mains, p)
                                             ELSE TimedConsensusReached
    BY DEF ClockFits
  <2>12. QED
    BY <2>3, <2>4, <2>5, <2>6, <2>7, <2>8, <2>9, <2>10, <2>11
<1>2. IInv /\ RaceInv /\ TypeOK => \A r \in Slots, p \in Proposal : Rule(r, p)
  BY <1>1
<1> HIDE DEF Rule
<1>3. IInv /\ RaceInv /\ TypeOK /\ [Next]_vars =>
        [\A r \in Slots, p \in Proposal : Rule(r, p)]_vars
  BY <1>2
<1>4. [][\A r \in Slots, p \in Proposal : Rule(r, p)]_vars => AdoptionFollowsItsRule
  BY DEF Rule, AdoptionFollowsItsRule
<1>5. QED
  BY <1>3, <1>4, KnownUntilWritten, TypeCorrect, PTL DEF Spec

-----------------------------------------------------------------------------
(* The lifecycle.                                                            *)

\* A new thread is as drawn.
LEMMA InitIsDrawn == Init => Lifecycle!Init
<1> SUFFICES ASSUME Init PROVE Lifecycle!Init
  OBVIOUS
<1>1. Adopted = {} /\ Len(agreements) = 0 /\ state = "discussing"
  BY DEF Init, Adopted
<1>2. Course \in {"direct", "awaited", "brainstorm"}
  BY DEF Course
<1>3. QED
  BY <1>1, <1>2 DEF Lifecycle!Init, TheAdopted

\* A step that leaves the columns of the decision alone is not seen.
LEMMA Unseen ==
  ASSUME UNCHANGED <<config, state, agreements>>, Adopted' = Adopted
  PROVE  UNCHANGED shown
  BY DEF shown, TheAdopted

\* Posts, roles and approvals are not drawn.
LEMMA PostsUnseen ==
  ASSUME DataOK, Posts
  PROVE  UNCHANGED shown
<1>1. UNCHANGED <<config, state, agreements>>
  BY DEF Posts, AddProposal, Object, CheckResolve, Approve, AssignRole, StartSession,
         decision
<1>2. Adopted' = Adopted
  <2>1. ASSUME NEW p \in Proposal, AddProposal(p) PROVE Adopted' = Adopted
    BY <2>1 DEF AddProposal, Adopted, Exists, DataOK
  <2>2. QED
    BY <2>1 DEF Posts, Object, CheckResolve, Approve, AssignRole, StartSession,
                decision, Adopted
<1>3. QED
  BY <1>1, <1>2, Unseen

\* Every write of an unraced declaration is a line of the drawing.
LEMMA ProgressIsDrawn ==
  ASSUME DataOK, PendingIsLegal, RaceInv, Remember, ~raced', NEW r \in Slots, Progress(r)
  PROVE  RejectsBrainstorm \/ Lifecycle!Next \/ UNCHANGED shown
<1>t. inflight[r] \in Transactions /\ Known(r) /\ Legal(inflight[r])
  BY DEF DataOK, RaceInv, PendingIsLegal
<1>o. Open => agreements = <<>> /\ Len(agreements) = 0 /\ Adopted = {}
  <2>1. ~raced
    BY RacedStays
  <2>2. Open => agreements = <<>> /\ Adopted = {}
    BY <2>1 DEF RaceInv, Log
  <2>3. QED
    BY <2>2
<1>f. Declares(r) => StateFits(inflight[r].kind)
  BY <1>t, Unraced
<1>c. UNCHANGED config => Course' = Course
  BY DEF Course
<1>u. UNCHANGED outcome => TheAdopted' = TheAdopted
  BY DEF Adopted, TheAdopted
<1>1. CASE UNCHANGED <<config, decision>>
  BY <1>1, Unseen DEF decision, Adopted
<1>2. CASE CommitSelect(r)
  <2>1. Declares(r) /\ inflight[r].kind = "select_candidate"
    BY <1>2, CommitDeclares DEF CommitSelect, AtCommit
  <2>2. Open
    BY <1>f, <2>1 DEF StateFits
  <2>3. CASE Selecting /\ state = "discussing"
    <3>1. Course = "awaited"
      BY <2>3 DEF Selecting, SelectingTypes, TimedTypes, Course
    <3>2. Lifecycle!Await
      BY <1>2, <1>c, <1>u, <2>3, <3>1 DEF CommitSelect, Lifecycle!Await
    <3>3. QED
      BY <3>2 DEF Lifecycle!Next
  <2>4. CASE ~(Selecting /\ state = "discussing")
    BY <1>2, <2>2, <2>4, Unseen DEF CommitSelect, Open, Adopted
  <2>5. QED
    BY <2>3, <2>4
<1>3. CASE CommitAwaiting(r)
  <2>1. /\ Declares(r)
        /\ inflight[r].step = "checked"
        /\ inflight[r].kind \in {"request_ratification", "declare_rough", "owner_decide"}
    BY <1>3, CommitDeclares DEF CommitAwaiting, Escalates
  <2>2. state = "discussing"
    BY <1>f, <2>1 DEF StateFits
  <2>3. Course = "awaited"
    BY <1>3, <1>t, <2>1 DEF CommitAwaiting, Escalates, Legal, Course
  <2>4. Lifecycle!Await
    BY <1>3, <1>c, <1>u, <2>2, <2>3 DEF CommitAwaiting, Lifecycle!Await
  <2>5. QED
    BY <2>4 DEF Lifecycle!Next
<1>4. CASE CommitDecided(r)
  <2> DEFINE p == inflight[r].prop
  <2>1. inflight[r].step = "adopting" /\ p \in Proposal /\ Adopts(inflight[r].kind)
    BY <1>4, <1>t DEF CommitDecided, Legal
  <2>2. inflight[r].kind \in {"ratify", "clock_satisfy", "declare_rough", "owner_decide"}
    BY <2>1 DEF Adopts
  <2>3. Declares(r)
    BY <1>4, <2>1, <2>2, CommitDeclares DEF CommitDecided
  <2>4. StateFits(inflight[r].kind)
    BY <1>f, <2>3
  <2>5. \/ Course = "direct" /\ state = "discussing"
        \/ Course = "awaited" /\ state = "awaiting_decision"
    BY <1>t, <2>1, <2>4
       DEF Adopts, StateFits, Legal, MayAwait, SelectingTypes, TimedTypes, Course
  <2>6. Open /\ agreements = <<>> /\ Len(agreements) = 0 /\ Adopted = {}
    BY <1>o, <2>5 DEF Open
  <2>7. Adopted' = {p}
    BY <1>4, <2>1, <2>6 DEF CommitDecided, Adopted, DataOK
  <2>8. TheAdopted' = p
    BY <2>7 DEF TheAdopted
  <2>9. Len(agreements)' = Len(agreements) + 1 /\ state' = "decided" /\ config' = config
    BY <1>4, <2>6, FirstRecord DEF CommitDecided
  <2>10. Lifecycle!Adopt(p)
    BY <1>c, <2>5, <2>8, <2>9 DEF Lifecycle!Adopt
  <2>11. QED
    BY <2>1, <2>10 DEF Lifecycle!Next
<1>5. CASE CommitSendBack(r)
  <2>1. Declares(r) /\ inflight[r].kind = "send_back"
    BY <1>5, CommitDeclares DEF CommitSendBack, AtCommit
  <2>2. state = "awaiting_decision"
    BY <1>f, <2>1 DEF StateFits
  <2>3. Lifecycle!SendBack
    BY <1>5, <1>c, <1>u, <2>2 DEF CommitSendBack, Lifecycle!SendBack
  <2>4. QED
    BY <2>3 DEF Lifecycle!Next
<1>6. ASSUME NEW record \in BOOLEAN, CommitReject(r, record)
      PROVE  RejectsBrainstorm \/ Lifecycle!Next
  <2>1. Declares(r) /\ inflight[r].kind = "reject_thread"
    BY <1>6, CommitDeclares DEF CommitReject, AtCommit
  <2>2. Open
    BY <1>f, <2>1 DEF StateFits
  <2>3. TheAdopted' = TheAdopted
    <3>1. Adopted = {}
      BY <1>o, <2>2
    <3>2. \A q \in Proposal : outcome'[q] = outcome[q] \/ outcome'[q] = "rejected"
      BY <1>6 DEF CommitReject, DataOK
    <3>3. Adopted' = {}
      BY <3>1, <3>2 DEF Adopted
    <3>4. QED
      BY <3>1, <3>3 DEF TheAdopted
  <2>4. Len(agreements)' \in {Len(agreements), Len(agreements) + 1}
    BY <1>6, <1>o, <2>2, FirstRecord DEF CommitReject
  <2>5. CASE Course = "brainstorm"
    BY <1>6, <2>5 DEF CommitReject, RejectsBrainstorm
  <2>6. CASE Course # "brainstorm"
    <3>1. Lifecycle!Reject
      BY <1>6, <1>c, <2>2, <2>3, <2>4, <2>6
         DEF CommitReject, Lifecycle!Reject, Lifecycle!Open, Open
    <3>2. QED
      BY <3>1 DEF Lifecycle!Next
  <2>7. QED
    BY <2>5, <2>6
<1>7. CASE CommitComplete(r)
  <2>1. Declares(r) /\ inflight[r].kind = "complete_thread"
    BY <1>7, CommitDeclares DEF CommitComplete, AtCommit
  <2>2. state = IF Course = "brainstorm" THEN "discussing" ELSE "decided"
    BY <1>f, <2>1 DEF StateFits, Course
  <2>3. Lifecycle!Complete
    BY <1>7, <1>c, <1>u, <2>2 DEF CommitComplete, Lifecycle!Complete
  <2>4. QED
    BY <2>3 DEF Lifecycle!Next
<1>8. QED
  BY <1>1, <1>2, <1>3, <1>4, <1>5, <1>6, <1>7
     DEF Progress, FlagResolved, RestartWindow, EvaluateUnanimous, Weigh, RereadCandidate,
         CommitWindow

\* However requests and the loop overlap, declarations move a thread as the documents
\* draw it until one is committed over a state that it did not read: it awaits only
\* if its type does, is decided once, from the state the drawing says, and is closed
\* for good.  The rejection of a brainstorm is the one exception.
THEOREM LifecycleIsFollowed == Spec => FollowsLifecycle
<1>1. IInv /\ RaceInv /\ [Next]_vars =>
        [raced' \/ RejectsBrainstorm \/ Lifecycle!Next]_shown
  <2> SUFFICES ASSUME IInv, RaceInv, [Next]_vars, ~raced'
               PROVE  RejectsBrainstorm \/ Lifecycle!Next \/ UNCHANGED shown
    OBVIOUS
  <2>i. DataOK /\ PendingIsLegal
    BY DEF IInv
  <2>1. CASE UNCHANGED vars
    BY <2>1, Unseen DEF vars, decision, Adopted
  <2>2. CASE Next
    <3>0. Step /\ Remember
      BY <2>2 DEF Next
    <3>1. CASE Posts
      BY <2>i, <3>1, PostsUnseen
    <3>2. CASE Tick
      BY <3>2, Unseen DEF Tick, decision, Adopted
    <3>3. CASE Check \/ EvaluateTimed
      BY <3>3, CheckWritesNothing, Unseen DEF decision, Adopted
    <3>4. ASSUME NEW r \in Slots, Progress(r)
          PROVE  RejectsBrainstorm \/ Lifecycle!Next \/ UNCHANGED shown
      BY <2>i, <3>0, <3>4, ProgressIsDrawn
    <3>5. QED
      BY <3>0, <3>1, <3>2, <3>3, <3>4 DEF Step
  <2>3. QED
    BY <2>1, <2>2
<1>2. QED
  BY <1>1, InitIsDrawn, KnownUntilWritten, PTL DEF Spec, FollowsLifecycle
=============================================================================
