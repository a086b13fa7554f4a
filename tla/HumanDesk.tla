---------------------------- MODULE HumanDesk ----------------------------
(***************************************************************************)
(* One person at the web client (packages/web): the pages that read the    *)
(* board, the calls under way between the two, the person's acts and the   *)
(* credential every call carries.  The board's side is as much of it as    *)
(* the pages show: threads to be ratified by a human, and the live login   *)
(* sessions of the person.                                                 *)
(***************************************************************************)
EXTENDS Naturals, FiniteSets

CONSTANTS
  Thread,       \* threads of the project, all under human ratification
  Version,      \* versions of the proposals
  Credential,   \* identity tokens of the person
  None,
  Sections,     \* the pages the person uses, besides those of threads
  MaxCalls,     \* calls under way at once
  MaxMoves,     \* what others do on the board
  MaxLosses     \* calls that fail on the way

(* A login leads to the dashboard; threads have pages of their own. *)
ASSUME DeskConstants ==
  /\ "dashboard" \in Sections
  /\ Sections \subseteq {"dashboard", "queue", "threads", "agreements", "inbox", "settings"}
  /\ MaxMoves \in Nat /\ MaxLosses \in Nat

(***************************************************************************)
(* A page polls while it has the focus; some forget an error once a later  *)
(* answer is good, and some show an error instead of what they have.       *)
(***************************************************************************)
DashboardHides == [polls |-> TRUE,  recovers |-> FALSE, hides |-> TRUE]    \* mutated form
DashboardPage == [polls |-> TRUE,  recovers |-> TRUE,  hides |-> FALSE]
QueuePage == [polls |-> TRUE,  recovers |-> FALSE, hides |-> TRUE]
ThreadsPage == [polls |-> TRUE,  recovers |-> FALSE, hides |-> TRUE]
AgreementsPage == [polls |-> TRUE,  recovers |-> FALSE, hides |-> TRUE]
InboxPage == [polls |-> FALSE, recovers |-> FALSE, hides |-> FALSE]
ThreadPage == [polls |-> FALSE, recovers |-> FALSE, hides |-> FALSE]
SettingsPage == [polls |-> FALSE, recovers |-> FALSE, hides |-> FALSE]

Manners(name) ==
  CASE name = "dashboard"  -> DashboardPage
    [] name = "queue"      -> QueuePage
    [] name = "threads"    -> ThreadsPage
    [] name = "agreements" -> AgreementsPage
    [] name = "inbox"      -> InboxPage
    [] name = "thread"     -> ThreadPage
    [] name = "settings"   -> SettingsPage

LoginPage == [name |-> "login", thread |-> None]
Pages == [name : Sections, thread : {None}]
           \cup [name : {"thread"}, thread : Thread]

States == {"discussing", "awaiting_decision", "decided", "rejected", "completed"}
Acts == {"ratify", "send_back", "reject_thread", "complete_thread", "post", "revoke"}
Slot == 1 .. MaxCalls
Free == [kind |-> "free"]

VARIABLES
  board,    \* per thread: its state and its candidate
  live,     \* the credentials that are not revoked
  page,     \* the page that is mounted
  view,     \* what it has loaded; None before the first answer
  error,    \* it has an error
  busy,     \* isDeclaring, isCompleting, saving, loading: its buttons are off
  draft,    \* the text in the composer of a thread, and whether the board took it
  token,    \* the credential in the session storage
  calls,    \* per slot, a call of the client
  behind,   \* an act of the mounted page was served after what it shows
  unseen,   \* a version was ratified from a page that showed another one
  moves, losses

deskVars  == <<page, view, error, busy, draft, token>>
boardVars == <<board, live, unseen>>
vars == <<deskVars, boardVars, calls, behind, moves, losses>>

NoDraft == [text |-> FALSE, taken |-> FALSE]

(* The board when the person comes: threads with and without a candidate, *)
(* some of them awaiting.                                                  *)
Met == [state : {"discussing"}, candidate : Version \cup {None}]
         \cup [state : {"awaiting_decision"}, candidate : Version]

Init ==
  /\ board \in [Thread -> Met]
  /\ live = Credential
  /\ page = LoginPage /\ view = None /\ error = FALSE /\ busy = FALSE
  /\ draft = NoDraft /\ token = None
  /\ calls = [s \in Slot |-> Free]
  /\ behind = FALSE /\ unseen = FALSE
  /\ moves = 0 /\ losses = 0

---------------------------------------------------------------------------
(* What the board answers.                                                 *)

\* Mutated form: the queue takes the filter of the inbox.
QueueOfDecided == {t \in Thread : board[t].state = "decided"}

listJudgmentQueue == {t \in Thread : board[t].state = "awaiting_decision"}

listNonblockingInbox == {t \in Thread : board[t].state = "decided"}

getProjectSummary ==
  [counts |-> [s \in States |-> Cardinality({t \in Thread : board[t].state = s})],
   queue  |-> listJudgmentQueue,
   inbox  |-> Cardinality(listNonblockingInbox)]

listAgreements == {t \in Thread : board[t].state \in {"decided", "completed"}}

ContentOf(p) ==
  CASE p.name = "dashboard"  -> getProjectSummary
    [] p.name = "queue"      -> listJudgmentQueue
    [] p.name = "inbox"      -> listNonblockingInbox
    [] p.name = "threads"    -> [t \in Thread |-> board[t].state]
    [] p.name = "agreements" -> listAgreements
    [] p.name = "thread"     -> board[p.thread]
    [] p.name = "settings"   -> live

(* Whether the page's content is on the screen. *)
Shown == view # None /\ ~(error /\ Manners(page.name).hides)

(***************************************************************************)
(* Calls.  A call belongs to the page that was mounted when it was made;   *)
(* the answer to a page that is gone sets no state.                        *)
(***************************************************************************)
Idle == {s \in Slot : calls[s] = Free}

NextSlot == CHOOSE s \in Idle : \A r \in Idle : s <= r

NewCall(kind, p, act, credential) ==
  [kind |-> kind, page |-> p, act |-> act, token |-> credential,
   mounted |-> TRUE, served |-> FALSE, answer |-> None, fresh |-> FALSE]

(* A reading whose page is gone can do one thing more: be unauthorized.    *)
Unmounted(c) ==
  IF c = Free THEN Free
  ELSE IF c.kind # "act" /\ c.served /\ c.answer.status # "unauthorized" THEN Free
  ELSE [c EXCEPT !.mounted = FALSE]

NoAct == [name |-> "none", on |-> None, shown |-> None]

(* The page p is mounted: every page that was open is gone with its state. *)
Mount(p, left) ==
  /\ page' = p /\ view' = None /\ error' = FALSE /\ busy' = FALSE
  /\ draft' = NoDraft /\ behind' = FALSE
  /\ calls' =
       LET gone == [s \in Slot |-> Unmounted(left[s])]
           free == {s \in Slot : left[s] = Free}
       IN  IF p = LoginPage THEN gone
           ELSE [gone EXCEPT ![CHOOSE s \in free : \A r \in free : s <= r] =
                   NewCall("load", p, NoAct, token)]

(* Links to every section are on each page; those to threads on lists. *)
LinksTo(p) ==
  \/ p.name # "thread"
  \/ /\ Shown
     /\ \/ page.name = "dashboard" /\ p.thread \in view.queue
        \/ page.name \in {"queue", "inbox", "agreements"} /\ p.thread \in view
        \/ page.name = "threads"

(* Opening the page that is open already changes nothing (Outlet's key). *)
Open(p) ==
  /\ page # LoginPage /\ p # page
  /\ LinksTo(p)
  /\ Idle # {}
  /\ Mount(IF token = None THEN LoginPage ELSE p, calls)
  /\ UNCHANGED <<token, boardVars, moves, losses>>

Poll ==
  /\ page # LoginPage /\ Manners(page.name).polls
  /\ Idle # {}
  /\ calls' = [calls EXCEPT ![NextSlot] = NewCall("load", page, NoAct, token)]
  /\ UNCHANGED <<deskVars, boardVars, behind, moves, losses>>

---------------------------------------------------------------------------
(* Logging in and out.                                                     *)

completeLogin(credential) ==
  /\ page = LoginPage /\ ~busy /\ Idle # {}
  /\ token' = credential
  /\ busy' = TRUE /\ error' = FALSE
  /\ calls' = [calls EXCEPT ![NextSlot] = NewCall("me", page, NoAct, credential)]
  /\ UNCHANGED <<page, view, draft, boardVars, behind, moves, losses>>

Logout ==
  /\ page # LoginPage
  /\ token' = None
  /\ Mount(LoginPage, calls)
  /\ UNCHANGED <<boardVars, moves, losses>>

---------------------------------------------------------------------------
(* Acts.  One at a time: the buttons are off until the page is read again. *)

CanAct == ~busy /\ Idle # {}

Asked(name, on, shown) ==
  /\ error' = FALSE /\ busy' = TRUE
  /\ calls' = [calls EXCEPT ![NextSlot] =
       NewCall("act", page, [name |-> name, on |-> on, shown |-> shown], token)]
  /\ UNCHANGED <<page, view, token, boardVars, behind, moves, losses>>

CallAct(name, on, shown) == CanAct /\ Asked(name, on, shown) /\ UNCHANGED draft

Offered(kind) ==
  CASE kind \in {"ratify", "send_back"} -> view.state = "awaiting_decision"
    [] kind = "reject_thread"   -> view.state \in {"discussing", "awaiting_decision"}
    [] kind = "complete_thread" -> view.state = "decided"

Declare(kind) ==
  /\ page.name = "thread" /\ view # None
  /\ Offered(kind)
  /\ CallAct(kind, page.thread, view.candidate)

CanCompose ==
  /\ page.name = "thread" /\ view # None
  /\ view.state \in {"discussing", "awaiting_decision"}

(* The composer takes text at any time, also while a post is under way. *)
Write ==
  /\ CanCompose
  /\ draft # [text |-> TRUE, taken |-> FALSE]
  /\ draft' = [text |-> TRUE, taken |-> FALSE]
  /\ UNCHANGED <<page, view, error, busy, token, boardVars, calls, behind, moves, losses>>

SendPost ==
  /\ CanCompose /\ draft.text
  /\ CanAct
  /\ Asked("post", page.thread, None)

Submit == SendPost /\ UNCHANGED draft

CompleteFromInbox(t) ==
  /\ page.name = "inbox" /\ view # None /\ t \in view
  /\ CallAct("complete_thread", t, None)

RevokeCredential(c) ==
  /\ page.name = "settings" /\ view # None /\ c \in view
  /\ CallAct("revoke", c, None)

---------------------------------------------------------------------------
(* The board serves a call.                                                *)

Accepted(act) ==
  CASE act.name \in {"ratify", "send_back"} -> board[act.on].state = "awaiting_decision"
    [] act.name = "reject_thread" ->
         board[act.on].state \in {"discussing", "awaiting_decision"}
    [] act.name = "complete_thread" -> board[act.on].state = "decided"
    [] act.name = "revoke" -> act.on \in live
    [] act.name = "post" -> TRUE

StateAfter(act) ==
  CASE act.name = "ratify"          -> "decided"
    [] act.name = "send_back"       -> "discussing"
    [] act.name = "reject_thread"   -> "rejected"
    [] act.name = "complete_thread" -> "completed"

Answered(s, status, seen) ==
  [calls EXCEPT ![s].served = TRUE, ![s].fresh = TRUE,
                ![s].answer = [status |-> status, seen |-> seen]]

Without(s) == [calls EXCEPT ![s] = Free]

requireAuth(s) == calls[s].token \in live

Pending(s) == calls[s] # Free /\ ~calls[s].served

Unauthorized(s) ==
  /\ Pending(s) /\ ~requireAuth(s)
  /\ calls' = Answered(s, "unauthorized", None)
  /\ UNCHANGED <<deskVars, boardVars, behind, moves, losses>>

ServeRead(s) ==
  /\ Pending(s) /\ requireAuth(s) /\ calls[s].kind # "act"
  /\ calls' = IF calls[s].mounted
              THEN Answered(s, "ok", IF calls[s].kind = "me" THEN None
                                     ELSE ContentOf(calls[s].page))
              ELSE Without(s)
  /\ UNCHANGED <<deskVars, boardVars, behind, moves, losses>>

ServeAct(s) ==
  LET act == calls[s].act IN
  /\ Pending(s) /\ requireAuth(s) /\ calls[s].kind = "act"
  /\ Accepted(act)
  /\ live' = IF act.name = "revoke" THEN live \ {act.on} ELSE live
  /\ board' = IF act.name \in {"revoke", "post"} THEN board
              ELSE [board EXCEPT ![act.on].state = StateAfter(act)]
  /\ unseen' = (unseen \/ (act.name = "ratify" /\ act.shown # board[act.on].candidate))
  /\ draft' = IF act.name = "post" /\ calls[s].mounted
              THEN [draft EXCEPT !.taken = TRUE] ELSE draft
  /\ behind' = (behind \/ calls[s].mounted)
  /\ calls' = [r \in Slot |->
       IF r = s THEN Answered(s, "ok", None)[s]
       ELSE IF calls[r] # Free /\ calls[s].mounted
            THEN [calls[r] EXCEPT !.fresh = FALSE] ELSE calls[r]]
  /\ UNCHANGED <<page, view, error, busy, token, moves, losses>>

RefuseAct(s) ==
  /\ Pending(s) /\ requireAuth(s) /\ calls[s].kind = "act"
  /\ ~Accepted(calls[s].act)
  /\ calls' = Answered(s, "refused", None)
  /\ UNCHANGED <<deskVars, boardVars, behind, moves, losses>>

(* The call, or its answer, is lost. *)
Lose(s) ==
  /\ calls[s] # Free /\ losses < MaxLosses
  /\ calls[s].mounted \/ calls[s].kind = "act"
  /\ calls[s].served => calls[s].answer.status # "lost"
  /\ calls' = Answered(s, "lost", None)
  /\ losses' = losses + 1
  /\ UNCHANGED <<deskVars, boardVars, behind, moves>>

---------------------------------------------------------------------------
(* An answer arrives.                                                      *)

Status(s) == IF calls[s] # Free /\ calls[s].served
             THEN calls[s].answer.status ELSE "none"

(* request: whatever credential the call carried, the stored one is cleared. *)
ReceiveUnauthorized(s) ==
  /\ Status(s) = "unauthorized"
  /\ token' = None
  /\ IF page # LoginPage THEN Mount(LoginPage, Without(s))
     ELSE /\ calls' = Without(s)
          /\ IF calls[s].kind = "me"
             THEN error' = TRUE /\ busy' = FALSE
             ELSE UNCHANGED <<error, busy>>
          /\ UNCHANGED <<page, view, draft, behind>>
  /\ UNCHANGED <<boardVars, moves, losses>>

ReceiveMe(s) ==
  /\ Status(s) \in {"ok", "lost"} /\ calls[s].kind = "me"
  /\ IF Status(s) = "ok"
     THEN /\ token' = token
          /\ IF token = None
             THEN Mount(LoginPage, Without(s))
             ELSE Mount([name |-> "dashboard", thread |-> None], Without(s))
     ELSE /\ token' = None
          /\ error' = TRUE /\ busy' = FALSE
          /\ calls' = Without(s)
          /\ UNCHANGED <<page, view, draft, behind>>
  /\ UNCHANGED <<boardVars, moves, losses>>

(* useRouteLoad, useFocusPoll and the reading that ends an act. *)
ReceiveRead(s) ==
  /\ Status(s) = "ok" /\ calls[s].kind \in {"load", "reload"} /\ calls[s].mounted
  /\ view' = calls[s].answer.seen
  /\ behind' = ~calls[s].fresh
  /\ error' = (error /\ ~Manners(page.name).recovers)
  /\ busy' = (busy /\ calls[s].kind # "reload")
  /\ calls' = Without(s)
  /\ UNCHANGED <<page, draft, token, boardVars, moves, losses>>

ReceiveFailure(s) ==
  /\ Status(s) \in {"lost", "refused"} /\ calls[s].kind # "me" /\ calls[s].mounted
  /\ error' = TRUE
  /\ busy' = (busy /\ calls[s].kind = "load")
  /\ calls' = Without(s)
  /\ UNCHANGED <<page, view, draft, token, boardVars, behind, moves, losses>>

RevokesItself(s) == calls[s].act.name = "revoke" /\ calls[s].act.on = calls[s].token

\* Mutated form: the page is not read again after an act.
ReceiveActOnly(s) ==
  /\ Status(s) = "ok" /\ calls[s].kind = "act" /\ calls[s].mounted
  /\ ~RevokesItself(s)
  /\ draft' = IF calls[s].act.name = "post" THEN NoDraft ELSE draft
  /\ busy' = FALSE
  /\ calls' = Without(s)
  /\ UNCHANGED <<page, view, error, token, boardVars, behind, moves, losses>>

ReceiveAct(s) ==
  /\ Status(s) = "ok" /\ calls[s].kind = "act" /\ calls[s].mounted
  /\ ~RevokesItself(s)
  /\ draft' = IF calls[s].act.name = "post" THEN NoDraft ELSE draft
  /\ calls' = [calls EXCEPT ![s] = NewCall("reload", page, NoAct, token)]
  /\ UNCHANGED <<page, view, error, busy, token, boardVars, behind, moves, losses>>

(* Revoking the credential in use logs out, from whatever page is open by then. *)
ReceiveOwnRevocation(s) ==
  /\ Status(s) = "ok" /\ calls[s].kind = "act" /\ RevokesItself(s)
  /\ token' = None
  /\ IF page # LoginPage THEN Mount(LoginPage, Without(s))
     ELSE calls' = Without(s) /\ UNCHANGED <<page, view, error, busy, draft, behind>>
  /\ UNCHANGED <<boardVars, moves, losses>>

ReceiveTooLate(s) ==
  /\ Status(s) \in {"ok", "lost", "refused"} /\ calls[s].kind = "act"
  /\ ~calls[s].mounted
  /\ ~(Status(s) = "ok" /\ RevokesItself(s))
  /\ calls' = Without(s)
  /\ UNCHANGED <<deskVars, boardVars, behind, moves, losses>>

---------------------------------------------------------------------------
(* Others on the board, the person's other browser among them.             *)

OthersMove(t, changed) ==
  /\ moves < MaxMoves /\ moves' = moves + 1
  /\ board' = [board EXCEPT ![t] = changed]
  /\ UNCHANGED <<deskVars, live, unseen, calls, behind, losses>>

SelectCandidate(t, v) ==
  /\ board[t].state = "discussing" /\ board[t].candidate # v
  /\ OthersMove(t, [board[t] EXCEPT !.candidate = v])

RequestRatification(t) ==
  /\ board[t].state = "discussing" /\ board[t].candidate # None
  /\ OthersMove(t, [board[t] EXCEPT !.state = "awaiting_decision"])

SendBackElsewhere(t) ==
  /\ board[t].state = "awaiting_decision"
  /\ OthersMove(t, [board[t] EXCEPT !.state = "discussing"])

CloseByOwner(t) ==
  \/ /\ board[t].state = "discussing"
     /\ OthersMove(t, [board[t] EXCEPT !.state = "rejected"])
  \/ /\ board[t].state = "decided"
     /\ OthersMove(t, [board[t] EXCEPT !.state = "completed"])

RevokeElsewhere(c) ==
  /\ c \in live /\ moves < MaxMoves
  /\ live' = live \ {c} /\ moves' = moves + 1
  /\ UNCHANGED <<deskVars, board, unseen, calls, behind, losses>>

Serve(s) == Unauthorized(s) \/ ServeRead(s) \/ ServeAct(s) \/ RefuseAct(s)

Receive(s) ==
  \/ ReceiveUnauthorized(s) \/ ReceiveMe(s) \/ ReceiveRead(s) \/ ReceiveFailure(s)
  \/ ReceiveAct(s) \/ ReceiveOwnRevocation(s) \/ ReceiveTooLate(s)

Next ==
  \/ \E p \in Pages : Open(p)
  \/ Poll
  \/ \E c \in Credential : completeLogin(c) \/ RevokeCredential(c) \/ RevokeElsewhere(c)
  \/ Logout
  \/ \E kind \in {"ratify", "send_back", "reject_thread", "complete_thread"} : Declare(kind)
  \/ Write \/ Submit
  \/ \E s \in Slot : Serve(s) \/ Lose(s) \/ Receive(s)
  \/ \E t \in Thread :
       \/ CompleteFromInbox(t) \/ RequestRatification(t)
       \/ SendBackElsewhere(t) \/ CloseByOwner(t)
       \/ \E v \in Version : SelectCandidate(t, v)

Spec == Init /\ [][Next]_vars

(* Calls are served and answers arrive; an open page polls. *)
ClientFairness ==
  /\ WF_vars(Poll)
  /\ \A s \in Slot : WF_vars(Serve(s)) /\ WF_vars(Receive(s))

(* Someone who logs in again, looks through the pages, opens what the queue *)
(* lists and ratifies it, and in the end waits for a page before leaving it. *)
PersonFairness ==
  /\ <>[][page' # page /\ page # LoginPage => view # None \/ error]_page
  /\ \A p \in {q \in Pages : q.name \in {"dashboard", "queue", "thread"}} : SF_vars(Open(p))
  /\ \A c \in Credential : SF_vars(c \in live /\ completeLogin(c))
  /\ SF_vars(Declare("ratify"))

FairSpec == Spec /\ ClientFairness

---------------------------------------------------------------------------
(***************************************************************************)
(* After an act, a page that is neither busy nor shows an error shows the  *)
(* board as it was at or after the act: the thread is read again.          *)
(***************************************************************************)
OwnActIsShown == ~busy /\ ~error /\ page # LoginPage => ~behind

(* What was written is with the board when the composer is emptied: not so, *)
(* what is typed while a post is under way goes with it.                    *)
TypedIsPosted == [][draft.text /\ ~draft'.text /\ page' = page => draft.taken]_vars

(***************************************************************************)
(* A dashboard left open ends up showing the board as it is, whatever was  *)
(* lost or overtaken on the way.                                           *)
(***************************************************************************)
DashboardIsTrue ==
  <>[](page.name = "dashboard") =>
     <>[](page.name = "dashboard" => Shown /\ view = getProjectSummary)

(* The same of every page that polls: not so, an error stays.              *)
PollsRecover ==
  \A name \in Sections : Manners(name).polls =>
     (<>[](page.name = name) =>
        <>[](page.name = name => Shown /\ view = ContentOf(page)))

(***************************************************************************)
(* A thread that waits for the person is decided, sent back or closed: the *)
(* queue lists it, its page offers the act and the board accepts it.       *)
(***************************************************************************)
JudgmentsAreMade ==
  PersonFairness =>
    \A t \in Thread :
      board[t].state = "awaiting_decision" ~>
        (board[t].state # "awaiting_decision" \/ live = {})

(* The version that is ratified is the one on the ratifier's page.         *)
RatifiedAsSeen == ~unseen

(***************************************************************************)
(* Types.                                                                  *)
(***************************************************************************)
TypeOK ==
  /\ board \in [Thread -> [state : States, candidate : Version \cup {None}]]
  /\ live \subseteq Credential
  /\ page \in Pages \cup {LoginPage}
  /\ {error, busy, behind, unseen} \subseteq BOOLEAN
  /\ draft \in [text : BOOLEAN, taken : BOOLEAN]
  /\ token \in Credential \cup {None}
  /\ \A s \in Slot : calls[s] = Free \/ calls[s].page \in Pages \cup {LoginPage}
  /\ moves \in 0 .. MaxMoves /\ losses \in 0 .. MaxLosses

==========================================================================
